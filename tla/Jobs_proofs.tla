---------------------------- MODULE Jobs_proofs ----------------------------
(***************************************************************************)
(* What jobs that outlive a request promise, for every set of requests,    *)
(* workers, files, rewraps, deliveries and exports, and every bound.       *)
(*   Keys: the rewrap of an organisation's key, and the standing of the    *)
(*     key.  While the row is as people left it when they switched the key *)
(*     off, only a request they overtook is in front of turning it on; and *)
(*     no object that a row names is under the key being replaced up to    *)
(*     where the job has come.                                             *)
(*   Webhooks: while nothing fails a worker past its row works on a        *)
(*     pending delivery, a job has one worker, and a pending delivery that *)
(*     nobody has sent was asked for once more than it was taken.          *)
(*   Exports: a worker's claim never passes the attempts of its row, the   *)
(*     sweep expires what is ready and past, and until a worker outlives   *)
(*     its claim one at a time is past it, in front of its own object.     *)
(* The three share nothing; an invariant is proved for each.               *)
(***************************************************************************)
EXTENDS MCKeys, MCQueues, FiniteSetTheorems, WellFoundedInduction, TLAPS

(* What a request holds, by what it is about to do.                        *)
RequestStates ==
  {Idle}
  \cup [pc : {"submit"}, arn : Arns, first : BOOLEAN]
  \cup [pc : {"handshake", "describe", "use"}, arn : Arns]
  \cup [pc : {"validate"}, passed : BOOLEAN]
  \cup [pc : {"probe"}, arn : Arns, was : Probed]
  \cup [pc : {"mark", "restore", "reread", "load"}]
  \cup [pc : {"check"}, arn : Arns, restore : BOOLEAN]
  \cup [pc : {"observe"}, seen : Human \cup {"active", "unavailable"}]
  \cup [pc : {"rotate"}, arn : Arns, from : Arns]
  \cup [pc : {"enqueue"}, id : RewrapIds]
  \cup [pc : {"put", "promote"}, of : Files, arn : Arns]
  \cup [pc : {"settle"}, of : Files]

WorkerStates ==
  {Idle} \cup [pc : {"list"}, cursor : {0} \cup Items]
  \cup [pc : {"copy", "save"}, page : (SUBSET Items) \ {{}}]
  \cup [pc : {"clear", "complete", "audit"}]

KeysTyped ==
  /\ RewrapTypeOK
  /\ request \in [Requests -> RequestStates]
  /\ worker \in [RewrapIds -> WorkerStates]
  /\ mixed \in BOOLEAN /\ inPlay \in {"standing", "replacement"}
  /\ IsFiniteSet(Busy)

---------------------------------------------------------------------------
(* The standing of the key, whatever overlaps.  While it is as people left *)
(* it when they switched it off or pointed it elsewhere, only a request    *)
(* they overtook is in front of turning it on: every other one asks        *)
(* whether it is active, or may be, and finds that it is not.              *)
Still == {"idle", "submit", "handshake", "validate", "check", "reread", "mark"}

StandingHolds ==
  /\ RewrapsInit
  /\ \A c \in Requests : request[c].pc \notin {"enqueue", "put", "promote", "settle"}
  /\ word # "on" /\ ~overruled =>
       /\ key # None /\ key.status \in Down
       /\ \A c \in Requests \ older : request[c].pc \in Still

---------------------------------------------------------------------------
(* Files, whatever overlaps: one upload to a file, and of promotions that  *)
(* overlap only one has an object to move.                                 *)
FileHolds(f) ==
  /\ file[f].row = "none" => file[f].q = None
  /\ file[f].e # None => file[f].row \in {"pending", "clean"} /\ file[f].q = None

Uses(c, f) ==
  /\ At(c, "put") => /\ file[f].row \in {"pending", "rejected", "disposed"}
                     /\ file[f].q = None /\ file[f].e = None
                     /\ \A d \in Requests \ {c} :
                          request[d].pc \in {"put", "promote", "settle"} => request[d].of # f
  /\ At(c, "promote") => /\ file[f].row \in {"pending", "clean", "disposed"}
                         /\ file[f].row # "pending" => file[f].q = None
  /\ At(c, "settle") => /\ file[f].row = "pending" /\ file[f].q = None /\ file[f].e # None
                        /\ \A d \in Requests \ {c} : At(d, "settle") => request[d].of # f

FilesHold ==
  /\ \A f \in Files : FileHolds(f)
  /\ \A c \in Requests : request[c].pc \in {"put", "promote", "settle"} => Uses(c, request[c].of)

(* The job and its row, whatever overlaps.                                 *)
JobHolds(i) ==
  /\ rewrap[i] = Absent => worker[i] = Idle
  /\ rewrap[i] # Absent =>
       /\ rewrap[i].job = "queued" => rewrap[i].attempts < MaxTries
       /\ rewrap[i].status = "completed" => rewrap[i].done
       /\ worker[i].pc # "idle" => rewrap[i].job = "queued"
       /\ worker[i].pc \in {"list", "copy", "save"} => rewrap[i].status = "running" /\ ~rewrap[i].done
       /\ worker[i].pc \in {"clear", "complete", "audit"} => rewrap[i].done
  /\ \A c \in Requests : At(c, "enqueue") /\ request[c].id = i =>
       /\ rewrap[i] # Absent /\ rewrap[i].attempts = 0 /\ rewrap[i].job = "none"
       /\ \A d \in Requests \ {c} : At(d, "enqueue") => request[d].id # i

---------------------------------------------------------------------------
(* A replacement, as long as none was committed under a request or a job.  *)
LastRewrap(i) == rewrap[i] # Absent /\ \A j \in RewrapIds : j > i => rewrap[j] = Absent

(* No object that a row names is under this key.                           *)
Fresh(f, arn) == file[f].row = "disposed" \/ (file[f].q # arn /\ file[f].e # arn)
FreshTo(n, arn) == \A f \in Files : Quarantine(f) <= n => Fresh(f, arn)

(* How far the job has come.                                               *)
Progress(i) ==
  LET from == rewrap[i].from IN
  /\ rewrap[i].done => \A f \in Files : Fresh(f, from)
  /\ FreshTo(rewrap[i].cursor, from)
  /\ worker[i].pc = "list" => FreshTo(worker[i].cursor, from)
  /\ worker[i].pc \in {"copy", "save"} =>
       \A f \in Files : Quarantine(f) \notin worker[i].page => Fresh(f, from)
  /\ worker[i].pc = "save" =>
       \A f \in Files : Quarantine(f) = Min(worker[i].page) => Fresh(f, from)

(* The row names the last replacement; those before it are over.           *)
LastHolds(i) ==
  /\ key.arn = rewrap[i].to /\ rewrap[i].to # rewrap[i].from
  /\ ~rewrap[i].done => key.previous = rewrap[i].from
  /\ key.previous \in {None, rewrap[i].from}
  /\ Progress(i)
OverHolds(i) ==
  /\ rewrap[i].done /\ rewrap[i].job = "none"
  /\ \A c \in Requests : At(c, "enqueue") => request[c].id # i

InUseHolds(c) ==
  /\ request[c].pc \in {"use", "put", "promote"} => request[c].arn = key.arn
  /\ At(c, "rotate") => /\ key.previous = None
                        /\ request[c].from = key.arn /\ request[c].arn # key.arn

ValueOpens(v) ==
  \/ value[v] \in {None, key.arn, key.previous}
  \/ \E i \in RewrapIds : rewrap[i] # Absent /\ rewrap[i].from = value[v] /\ rewrap[i].done

SerialHolds ==
  /\ \A i \in RewrapIds : LastRewrap(i) => LastHolds(i)
  /\ \A i \in RewrapIds : rewrap[i] # Absent /\ ~LastRewrap(i) => OverHolds(i)
  /\ (\A i \in RewrapIds : rewrap[i] = Absent) => key.previous = None
  /\ \A c \in Requests : InUseHolds(c)
  /\ \A v \in Values : ValueOpens(v)

ReplacementHolds ==
  /\ key # None /\ key.status = "active"
  /\ \A c \in Requests : request[c].pc \in {"idle", "rotate", "enqueue", "use", "put", "promote", "settle"}
  /\ \A i, j \in RewrapIds : j < i /\ rewrap[i] # Absent => rewrap[j] # Absent
  /\ FilesHold
  /\ \A i \in RewrapIds : JobHolds(i)
  /\ ~mixed => SerialHolds

KeysInv ==
  /\ KeysTyped
  /\ inPlay = "standing" => StandingHolds
  /\ inPlay = "replacement" => ReplacementHolds /\ word = "on"

---------------------------------------------------------------------------
\* What the fields of a request are.
LEMMA RequestFields ==
  ASSUME NEW r \in RequestStates
  PROVE  /\ r.pc \in {"submit", "handshake", "describe", "use", "check", "probe", "rotate", "put", "promote"}
              => r.arn \in Arns
         /\ r.pc = "submit" => r.first \in BOOLEAN
         /\ r.pc = "validate" => r.passed \in BOOLEAN
         /\ r.pc = "probe" => r.was \in Probed
         /\ r.pc = "check" => r.restore \in BOOLEAN
         /\ r.pc = "observe" => r.seen \in Human \cup {"active", "unavailable"}
         /\ r.pc = "rotate" => r.from \in Arns
         /\ r.pc = "enqueue" => r.id \in RewrapIds
         /\ r.pc \in {"put", "promote", "settle"} => r.of \in Files
         /\ r.pc = "idle" => r = Idle
BY DEF RequestStates, Idle

\* Only the request that moves is another afterwards.
LEMMA Moved ==
  ASSUME request \in [Requests -> RequestStates], NEW c \in Requests, NEW next \in RequestStates,
         Goto(c, next)
  PROVE  /\ request' \in [Requests -> RequestStates]
         /\ request'[c] = next
         /\ \A d \in Requests : d # c => request'[d] = request[d]
         /\ IsFiniteSet(Busy) => IsFiniteSet(Busy')
<1>1. /\ request' \in [Requests -> RequestStates]
      /\ request'[c] = next
      /\ \A d \in Requests : d # c => request'[d] = request[d]
  BY DEF Goto
<1>2. Busy' \subseteq Busy \cup {c}
  BY <1>1 DEF Busy
<1>3. IsFiniteSet(Busy) => IsFiniteSet(Busy \cup {c})
  BY FS_AddElement
<1> QED BY <1>1, <1>2, <1>3, FS_Subset

\* A finite set of at most one member has no two.
LEMMA AtMostOne ==
  ASSUME NEW S, IsFiniteSet(S), ~(Cardinality(S) > 1)
  PROVE  \A c, d \in S : c = d
<1> SUFFICES ASSUME NEW c \in S, NEW d \in S, c # d PROVE FALSE
  OBVIOUS
<1>1. IsFiniteSet({c}) /\ Cardinality({c}) = 1
  BY FS_Singleton
<1>2. Cardinality({c} \cup {d}) = 2
  BY <1>1, FS_AddElement
<1>3. {c} \cup {d} \in SUBSET S
  OBVIOUS
<1>4. Cardinality({c} \cup {d}) <= Cardinality(S) /\ Cardinality(S) \in Nat
  BY <1>3, FS_Subset, FS_CardinalityType
<1> QED BY <1>2, <1>4

(* What a step of one request about the standing of the key may do.        *)
StandingOutcome(c, next) ==
  /\ next \in RequestStates /\ Goto(c, next)
  /\ next.pc \notin {"enqueue", "put", "promote", "settle"}
  /\ key' = None => key = None /\ next.pc \in {"idle", "submit"}
  /\ key' # None => key' \in KeyRows
  /\ granted' = granted
  /\ key' # key => next # request[c]
  /\ key # None /\ key.status \in Down /\ request[c].pc \in Still =>
       /\ next.pc \in Still
       /\ key' # key => request[c].pc \in {"submit", "validate"} \/ key'.status # "active"

\* A row that is not None has all its fields.
LEMMA KeyFields ==
  ASSUME KeyTypeOK, key # None
  PROVE  /\ key \in KeyRows /\ key.arn \in Arns /\ key.previous \in Arns \cup {None}
         /\ key.status \in Status
BY DEF KeyTypeOK, KeyRows

\* Every step of a request.
LEMMA StandingRequest ==
  ASSUME KeysTyped, NEW c \in Requests, request[c].pc \notin {"enqueue", "put", "promote", "settle"},
         \/ \E arn \in Arns : Submit(c, arn) \/ RotateCheck(c, arn)
         \/ SubmitCommit(c) \/ ValidateCommit(c)
         \/ SweepRead(c) \/ Probe(c) \/ MarkUnavailable(c) \/ Restore(c)
         \/ \E flag \in BOOLEAN : Handshake(c, flag) \/ CheckRead(c, flag)
         \/ CheckKms(c) \/ CheckReread(c)
         \/ ObserveGate(c) \/ ObserveLoad(c) \/ ObserveSave(c)
         \/ \E seen \in Human \cup {"active", "unavailable"} : Describe(c, seen)
         \/ OpenScope(c) \/ Refused(c) \/ Abort(c)
         \/ RotateCommit(c) /\ Goto(c, Idle)
  PROVE  \E next : StandingOutcome(c, next)
<1>1. /\ request \in [Requests -> RequestStates] /\ request[c] \in RequestStates /\ KeyTypeOK
      /\ key = None => request[c].pc \in {"idle", "submit"}
      /\ key # None => key \in KeyRows /\ key.arn \in Arns
      /\ None \notin KeyRows /\ None \notin Arns
  BY KeyFields, NoneAssumption DEF KeysTyped, RewrapTypeOK, KeyTypeOK
<1>2. Idle \in RequestStates /\ Idle.pc = "idle"
  BY DEF RequestStates, Idle
<1>3. ASSUME NEW arn \in Arns, Submit(c, arn) PROVE \E next : StandingOutcome(c, next)
  <2> DEFINE next == [pc |-> "submit", arn |-> arn, first |-> key = None]
  <2>1. Goto(c, next) /\ UNCHANGED <<key, granted>>
    BY <1>3 DEF Submit, Moves
  <2>2. next \in RequestStates /\ next.pc = "submit"
    BY DEF RequestStates
  <2>3. StandingOutcome(c, next)
    <3> HIDE DEF next
    <3> QED BY <1>1, <2>1, <2>2 DEF StandingOutcome, Still
  <2> QED BY <2>3
<1>4. ASSUME NEW arn \in Arns, RotateCheck(c, arn) PROVE \E next : StandingOutcome(c, next)
  <2> DEFINE next == [pc |-> "rotate", arn |-> arn, from |-> key.arn]
  <2>1. Goto(c, next) /\ UNCHANGED <<key, granted>> /\ key # None /\ key.status = "active"
    BY <1>4 DEF RotateCheck, Moves, MayRotate
  <2>2. next \in RequestStates /\ next.pc = "rotate"
    BY <1>1, <2>1 DEF RequestStates
  <2>3. StandingOutcome(c, next)
    <3> HIDE DEF next
    <3> QED BY <1>1, <2>1, <2>2 DEF StandingOutcome, Still, Down, Human
  <2> QED BY <2>3
<1>5. ASSUME SubmitCommit(c) PROVE \E next : StandingOutcome(c, next)
  <2>0. request[c].pc = "submit" /\ request[c].arn \in Arns
    BY <1>1, <1>5, RequestFields DEF SubmitCommit, At
  <2>1. CASE Moves(c, Idle)
    <3>1. StandingOutcome(c, Idle)
      BY <1>1, <1>2, <2>1 DEF Moves, StandingOutcome, Still
    <3> QED BY <3>1
  <2>2. CASE ~Moves(c, Idle)
    <3> DEFINE next == [pc |-> "handshake", arn |-> request[c].arn]
    <3>1. Goto(c, next) /\ UNCHANGED granted /\ key' = Submitted(request[c].arn)
      BY <1>5, <2>2 DEF SubmitCommit
    <3>2. next \in RequestStates /\ next.pc = "handshake"
      BY <2>0 DEF RequestStates
    <3>3. key' \in KeyRows
      BY <1>1, <2>0, <3>1 DEF Submitted, KeyRows, Status
    <3>4. StandingOutcome(c, next)
      <4> HIDE DEF next
      <4> QED BY <1>1, <2>0, <3>1, <3>2, <3>3 DEF StandingOutcome, Still
    <3> QED BY <3>4
  <2> QED BY <2>1, <2>2
<1>6. ASSUME ValidateCommit(c) PROVE \E next : StandingOutcome(c, next)
  <2>1. request[c].pc = "validate" /\ key # None
    BY <1>1, <1>6 DEF ValidateCommit, At
  <2>2. key' \in KeyRows /\ Goto(c, Idle) /\ granted' = granted
    BY <1>1, <1>6, <2>1 DEF ValidateCommit, Writes, Validated, KeyRows, Status
  <2>3. StandingOutcome(c, Idle)
    BY <1>1, <1>2, <2>1, <2>2 DEF StandingOutcome, Still
  <2> QED BY <2>3
<1>7. ASSUME SweepRead(c) PROVE \E next : StandingOutcome(c, next)
  <2> DEFINE next == [pc |-> "probe", arn |-> key.arn, was |-> key.status]
  <2>1. Goto(c, next) /\ UNCHANGED <<key, granted>> /\ key # None /\ key.status \in Probed
    BY <1>7 DEF SweepRead, Moves
  <2>2. next \in RequestStates /\ next.pc = "probe" /\ next.was = key.status
    BY <1>1, <2>1 DEF RequestStates
  <2>3. StandingOutcome(c, next)
    <3> HIDE DEF next
    <3> QED BY <1>1, <2>1, <2>2 DEF StandingOutcome, Still, Down, Human, Probed
  <2> QED BY <2>3
<1>8. ASSUME Probe(c) PROVE \E next : StandingOutcome(c, next)
  <2>1. request[c].pc = "probe" /\ request[c].was \in Probed /\ key # None
    BY <1>1, <1>8, RequestFields DEF Probe, At
  <2>2. PICK next : /\ Moves(c, next) /\ next \in {Idle, [pc |-> "restore"], [pc |-> "mark"]}
                    /\ next.pc = "restore" => request[c].was # "active"
    BY <1>8 DEF Probe, Idle
  <2>3. next \in RequestStates /\ next.pc \in {"idle", "restore", "mark"}
    BY <2>2 DEF RequestStates, Idle
  <2>4. StandingOutcome(c, next)
    BY <1>1, <2>1, <2>2, <2>3 DEF StandingOutcome, Still, Moves
  <2> QED BY <2>4
<1>9. ASSUME MarkUnavailable(c) \/ Restore(c) \/ ObserveSave(c) PROVE \E next : StandingOutcome(c, next)
  <2>1. request[c].pc \in {"mark", "restore", "observe"} /\ key # None
    BY <1>1, <1>9 DEF MarkUnavailable, Restore, ObserveSave, At
  <2>2. PICK status \in Status : /\ Writes(c, [key EXCEPT !.status = status])
                                 /\ request[c].pc = "mark" => status = "unavailable"
    BY <1>1, <1>9, RequestFields DEF MarkUnavailable, Restore, ObserveSave, At, Status
  <2>3. /\ key' \in KeyRows /\ Goto(c, Idle) /\ granted' = granted
        /\ request[c].pc = "mark" => key'.status = "unavailable"
    <3>1. key' = [key EXCEPT !.status = status] /\ Goto(c, Idle) /\ granted' = granted
      BY <2>2 DEF Writes
    <3>2. key' \in KeyRows /\ key'.status = status
      BY <1>1, <2>1, <3>1 DEF KeyRows
    <3> QED BY <2>2, <3>1, <3>2
  <2>4. StandingOutcome(c, Idle)
    BY <1>1, <1>2, <2>1, <2>3 DEF StandingOutcome, Still
  <2> QED BY <2>4
<1>10. ASSUME NEW flag \in BOOLEAN, Handshake(c, flag) PROVE \E next : StandingOutcome(c, next)
  <2> DEFINE next == [pc |-> "validate", passed |-> flag]
  <2>1. Goto(c, next) /\ UNCHANGED <<key, granted>> /\ request[c].pc = "handshake"
    BY <1>10 DEF Handshake, Moves, At
  <2>2. next \in RequestStates /\ next.pc = "validate"
    BY DEF RequestStates
  <2>3. StandingOutcome(c, next)
    <3> HIDE DEF next
    <3> QED BY <1>1, <2>1, <2>2 DEF StandingOutcome, Still
  <2> QED BY <2>3
<1>11. ASSUME NEW flag \in BOOLEAN, CheckRead(c, flag) PROVE \E next : StandingOutcome(c, next)
  <2> DEFINE next == [pc |-> "check", arn |-> key.arn, restore |-> flag]
  <2>1. Goto(c, next) /\ UNCHANGED <<key, granted>> /\ key # None
    BY <1>11 DEF CheckRead, Moves
  <2>2. next \in RequestStates /\ next.pc = "check"
    BY <1>1, <2>1 DEF RequestStates
  <2>3. StandingOutcome(c, next)
    <3> HIDE DEF next
    <3> QED BY <1>1, <2>1, <2>2 DEF StandingOutcome, Still
  <2> QED BY <2>3
<1>12. ASSUME CheckKms(c) PROVE \E next : StandingOutcome(c, next)
  <2>1. request[c].pc = "check" /\ key # None
    BY <1>1, <1>12 DEF CheckKms, At
  <2>2. PICK next : Moves(c, next) /\ next \in {Idle, [pc |-> "reread"], [pc |-> "mark"]}
    BY <1>12 DEF CheckKms
  <2>3. next \in RequestStates /\ next.pc \in {"idle", "reread", "mark"}
    BY <2>2 DEF RequestStates, Idle
  <2>4. StandingOutcome(c, next)
    BY <1>1, <2>1, <2>2, <2>3 DEF StandingOutcome, Still, Moves
  <2> QED BY <2>4
<1>13. ASSUME CheckReread(c) PROVE \E next : StandingOutcome(c, next)
  <2>1. request[c].pc = "reread" /\ key # None
    BY <1>1, <1>13 DEF CheckReread, At
  <2>2. PICK next : /\ Moves(c, next) /\ next \in {Idle, [pc |-> "restore"]}
                    /\ next.pc = "restore" => key.status = "unavailable"
    BY <1>13 DEF CheckReread, Idle
  <2>3. next \in RequestStates /\ next.pc \in {"idle", "restore"}
    BY <2>2 DEF RequestStates, Idle
  <2>4. StandingOutcome(c, next)
    BY <1>1, <2>1, <2>2, <2>3 DEF StandingOutcome, Still, Down, Human, Moves
  <2> QED BY <2>4
<1>14. ASSUME ObserveGate(c) PROVE \E next : StandingOutcome(c, next)
  <2> DEFINE next == [pc |-> "load"]
  <2>1. Goto(c, next) /\ UNCHANGED <<key, granted>> /\ key # None /\ key.status = "active"
    BY <1>14 DEF ObserveGate, Moves
  <2>2. next \in RequestStates /\ next.pc = "load"
    BY DEF RequestStates
  <2>3. StandingOutcome(c, next)
    <3> HIDE DEF next
    <3> QED BY <1>1, <2>1, <2>2 DEF StandingOutcome, Still, Down, Human
  <2> QED BY <2>3
<1>15. ASSUME ObserveLoad(c) PROVE \E next : StandingOutcome(c, next)
  <2>1. request[c].pc = "load" /\ key # None
    BY <1>1, <1>15 DEF ObserveLoad, At
  <2>2. PICK next : Moves(c, next) /\ next \in {Idle, [pc |-> "describe", arn |-> key.arn]}
    BY <1>15 DEF ObserveLoad
  <2>3. next \in RequestStates /\ next.pc \in {"idle", "describe"}
    BY <1>1, <2>1, <2>2 DEF RequestStates, Idle
  <2>4. StandingOutcome(c, next)
    BY <1>1, <2>1, <2>2, <2>3 DEF StandingOutcome, Still, Moves
  <2> QED BY <2>4
<1>16. ASSUME NEW seen \in Human \cup {"active", "unavailable"}, Describe(c, seen)
       PROVE  \E next : StandingOutcome(c, next)
  <2> DEFINE next == [pc |-> "observe", seen |-> seen]
  <2>1. Goto(c, next) /\ UNCHANGED <<key, granted>> /\ request[c].pc = "describe"
    BY <1>16 DEF Describe, Moves, At
  <2>2. next \in RequestStates /\ next.pc = "observe"
    BY DEF RequestStates
  <2>3. StandingOutcome(c, next)
    <3> HIDE DEF next
    <3> QED BY <1>1, <2>1, <2>2 DEF StandingOutcome, Still
  <2> QED BY <2>3
<1>17. ASSUME OpenScope(c) PROVE \E next : StandingOutcome(c, next)
  <2> DEFINE next == [pc |-> "use", arn |-> key.arn]
  <2>1. Goto(c, next) /\ UNCHANGED <<key, granted>> /\ key # None /\ key.status = "active"
    BY <1>17 DEF OpenScope, Moves
  <2>2. next \in RequestStates /\ next.pc = "use"
    BY <1>1, <2>1 DEF RequestStates
  <2>3. StandingOutcome(c, next)
    <3> HIDE DEF next
    <3> QED BY <1>1, <2>1, <2>2 DEF StandingOutcome, Still, Down, Human
  <2> QED BY <2>3
<1>18. ASSUME Refused(c) PROVE \E next : StandingOutcome(c, next)
  <2> DEFINE next == [pc |-> "mark"]
  <2>1. Goto(c, next) /\ UNCHANGED <<key, granted>> /\ request[c].pc = "use"
    BY <1>18 DEF Refused, Moves, At
  <2>2. next \in RequestStates /\ next.pc = "mark"
    BY DEF RequestStates
  <2>3. StandingOutcome(c, next)
    <3> HIDE DEF next
    <3> QED BY <1>1, <2>1, <2>2 DEF StandingOutcome, Still
  <2> QED BY <2>3
<1>19. ASSUME Abort(c) PROVE \E next : StandingOutcome(c, next)
  <2>1. StandingOutcome(c, Idle)
    BY <1>1, <1>2, <1>19 DEF Abort, Moves, StandingOutcome, Still
  <2> QED BY <2>1
<1>20. ASSUME RotateCommit(c), Goto(c, Idle) PROVE \E next : StandingOutcome(c, next)
  <2>1. request[c].pc = "rotate" /\ request[c].arn \in Arns /\ request[c].from \in Arns
    BY <1>1, <1>20, RequestFields DEF RotateCommit, At
  <2>2. key' \in KeyRows /\ granted' = granted
    BY <1>20, <2>1 DEF RotateCommit, Rotated, KeyRows, Status
  <2>3. StandingOutcome(c, Idle)
    BY <1>1, <1>2, <1>20, <2>1, <2>2 DEF StandingOutcome, Still, At
  <2> QED BY <2>3
<1> QED BY <1>3, <1>4, <1>5, <1>6, <1>7, <1>8, <1>9, <1>10, <1>11, <1>12, <1>13, <1>14, <1>15, <1>16,
           <1>17, <1>18, <1>19, <1>20

\* What a request does keeps the invariant of the standing.
LEMMA StandingMove ==
  ASSUME KeysTyped, StandingHolds, NEW c \in Requests, NEW next, StandingOutcome(c, next), Hears,
         UNCHANGED <<rewrapVars, mixed, inPlay>>
  PROVE  KeysTyped' /\ StandingHolds'
<1>1. /\ request \in [Requests -> RequestStates] /\ IsFiniteSet(Busy)
      /\ rewrap' = rewrap /\ worker' = worker /\ file' = file /\ value' = value
  BY DEF KeysTyped, rewrapVars
<1>2. /\ request' \in [Requests -> RequestStates] /\ request'[c] = next
      /\ \A d \in Requests : d # c => request'[d] = request[d]
      /\ IsFiniteSet(Busy')
  BY <1>1, Moved DEF StandingOutcome
<1>3. KeyTypeOK'
  <2>1. key' = None => \A d \in Requests : request'[d].pc \in {"idle", "submit"}
    BY <1>2 DEF StandingOutcome, KeysTyped, RewrapTypeOK, KeyTypeOK
  <2> QED BY <1>2, <2>1 DEF StandingOutcome, KeysTyped, RewrapTypeOK, KeyTypeOK, KeyRows
<1>4. KeysTyped'
  BY <1>1, <1>2, <1>3 DEF KeysTyped, RewrapTypeOK, Items, Files, RewrapIds, Stored
<1>5. RewrapsInit' /\ \A d \in Requests : request'[d].pc \notin {"enqueue", "put", "promote", "settle"}
  BY <1>1, <1>2 DEF StandingOutcome, StandingHolds, RewrapsInit
<1>6. ASSUME word' # "on", ~overruled'
      PROVE  /\ key' # None /\ key'.status \in Down
             /\ \A d \in Requests \ older' : request'[d].pc \in Still
  <2>1. CASE Spoken
    <3>1. word' = Heard(key'.status) /\ older' = Busy \cap Busy' /\ key' # key
      BY <2>1 DEF Hears, Spoken, Switched, Settles
    <3>2. key' # None /\ key'.status \in Down
      BY <1>6, <3>1 DEF Heard, Down, StandingOutcome
    <3>3. ASSUME NEW d \in Requests \ older' PROVE request'[d].pc = "idle"
      <4>1. d \notin Busy => request'[d] = request[d]
        BY <1>2, <2>1, <3>3 DEF Spoken, Switched, Settles, At, Busy
      <4>2. d \notin Busy \/ d \notin Busy'
        BY <3>1
      <4> QED BY <4>1, <4>2 DEF Busy
    <3> QED BY <3>2, <3>3 DEF Still
  <2>2. CASE ~Spoken
    <3>1. /\ word' = word /\ older' = older \cap Busy'
          /\ ~overruled /\ ~Overrules
      BY <1>6, <2>2 DEF Hears
    <3>2. /\ key # None /\ key.status \in Down
          /\ \A d \in Requests \ older : request[d].pc \in Still
      BY <1>6, <3>1 DEF StandingHolds
    <3>3. key' # None /\ key'.status \in Down
      BY <3>1, <3>2 DEF Overrules, StandingOutcome
    <3>4. ASSUME NEW d \in Requests \ older' PROVE request'[d].pc \in Still
      <4>1. CASE d \in older
        <5>1. d \notin Busy'
          BY <3>1, <4>1
        <5> QED BY <5>1 DEF Busy, Still
      <4>2. CASE d \notin older
        BY <1>2, <3>2, <4>2 DEF StandingOutcome
      <4> QED BY <4>1, <4>2
    <3> QED BY <3>3, <3>4
  <2> QED BY <2>1, <2>2
<1> QED BY <1>4, <1>5, <1>6 DEF StandingHolds

\* An operator's switch and what the KMS allows.
LEMMA StandingSwitch ==
  ASSUME KeysTyped, StandingHolds, Hears,
         \/ \E next \in Human \cup {"active"} : SetStatus(next)
         \/ \E arns \in SUBSET Arns : KmsChanges(arns),
         UNCHANGED <<rewrapVars, mixed, inPlay>>
  PROVE  KeysTyped' /\ StandingHolds'
<1>1. /\ request' = request /\ Busy' = Busy
      /\ rewrap' = rewrap /\ worker' = worker /\ file' = file /\ value' = value
  BY DEF rewrapVars, SetStatus, KmsChanges, Busy
<1>2. /\ key' = key \/ (key # None /\ key' # None /\ key' \in KeyRows)
      /\ granted' \subseteq Arns
  <2>1. ASSUME NEW next \in Human \cup {"active"}, SetStatus(next)
        PROVE  key # None /\ key' \in KeyRows /\ granted' \subseteq Arns
    BY <2>1, KeyFields DEF SetStatus, KeysTyped, RewrapTypeOK, KeyTypeOK, KeyRows, Status
  <2>2. ASSUME NEW arns \in SUBSET Arns, KmsChanges(arns) PROVE key' = key /\ granted' \subseteq Arns
    BY <2>2 DEF KmsChanges
  <2> QED BY <2>1, <2>2, NoneAssumption
<1>3. KeyTypeOK'
  BY <1>1, <1>2 DEF KeysTyped, RewrapTypeOK, KeyTypeOK, KeyRows
<1>4. KeysTyped'
  BY <1>1, <1>3 DEF KeysTyped, RewrapTypeOK, Items, Files, RewrapIds, Stored
<1>5. RewrapsInit' /\ \A d \in Requests : request'[d].pc \notin {"enqueue", "put", "promote", "settle"}
  BY <1>1 DEF StandingHolds, RewrapsInit
<1>6. ASSUME word' # "on", ~overruled'
      PROVE  /\ key' # None /\ key'.status \in Down
             /\ \A d \in Requests \ older' : request'[d].pc \in Still
  <2>1. CASE key' = key
    <3>1. word' = word /\ older' = older \cap Busy /\ ~overruled
      BY <1>1, <1>6, <2>1 DEF Hears, Spoken, Switched, Settles
    <3>2. \A d \in Requests \ older' : d \in older => request[d].pc = "idle"
      BY <3>1 DEF Busy
    <3> QED BY <1>1, <1>6, <2>1, <3>1, <3>2 DEF StandingHolds, Still
  <2>2. CASE key' # key
    <3>1. word' = Heard(key'.status) /\ older' = Busy
      BY <1>1, <1>2, <2>2 DEF Hears, Spoken, Switched
    <3>2. \A d \in Requests \ older' : request'[d].pc = "idle"
      BY <1>1, <3>1 DEF Busy
    <3> QED BY <1>2, <1>6, <2>2, <3>1, <3>2 DEF Heard, Down, Still
  <2> QED BY <2>1, <2>2
<1> QED BY <1>4, <1>5, <1>6 DEF StandingHolds

\* A step about the standing is an operator's, the KMS's or a request's.
LEMMA StandingActor ==
  ASSUME KeysTyped, StandingHolds, StandingNext
  PROVE  \/ \E next \in Human \cup {"active"} : SetStatus(next)
         \/ \E arns \in SUBSET Arns : KmsChanges(arns)
         \/ \E c \in Requests : \E next : StandingOutcome(c, next)
<1> SUFFICES ASSUME ~(\/ \E next \in Human \cup {"active"} : SetStatus(next)
                      \/ \E arns \in SUBSET Arns : KmsChanges(arns))
             PROVE  \E c \in Requests : \E next : StandingOutcome(c, next)
  OBVIOUS
<1>1. PICK c \in Requests :
       \/ \E arn \in Arns : Submit(c, arn) \/ RotateCheck(c, arn)
       \/ SubmitCommit(c) \/ ValidateCommit(c)
       \/ SweepRead(c) \/ Probe(c) \/ MarkUnavailable(c) \/ Restore(c)
       \/ \E flag \in BOOLEAN : Handshake(c, flag) \/ CheckRead(c, flag)
       \/ CheckKms(c) \/ CheckReread(c)
       \/ ObserveGate(c) \/ ObserveLoad(c) \/ ObserveSave(c)
       \/ \E seen \in Human \cup {"active", "unavailable"} : Describe(c, seen)
       \/ OpenScope(c) \/ Refused(c) \/ Abort(c)
       \/ RotateCommit(c) /\ Goto(c, Idle)
  BY DEF StandingNext
<1>2. request[c].pc \notin {"enqueue", "put", "promote", "settle"}
  BY DEF StandingHolds
<1>3. \E next : StandingOutcome(c, next)
  BY <1>1, <1>2, StandingRequest
<1> QED BY <1>3

\* From "disabled", "pending_deletion" or a handshake to come nothing that
\* began since makes the key active but an operator or a handshake.
LEMMA OnlyAskedFor ==
  ASSUME KeysInv, KeysNext, word # "on", ~overruled, key' # key, key'.status = "active"
  PROVE  Spoken \/ \E c \in older : request'[c] # request[c]
<1>1. inPlay = "standing" /\ KeysTyped /\ StandingHolds /\ StandingNext
  BY DEF KeysInv, KeysTyped, KeysNext, Standing, Replacement
<1>2. /\ key # None /\ key.status \in Down
      /\ \A c \in Requests \ older : request[c].pc \in Still
  BY <1>1 DEF StandingHolds
<1>3. ASSUME NEW next \in Human \cup {"active"}, SetStatus(next) PROVE Spoken
  BY <1>3 DEF SetStatus, Spoken, Switched
<1>4. ASSUME NEW arns \in SUBSET Arns, KmsChanges(arns) PROVE FALSE
  BY <1>4 DEF KmsChanges
<1>5. ASSUME NEW c \in Requests, NEW next, StandingOutcome(c, next)
      PROVE  Spoken \/ \E d \in older : request'[d] # request[d]
  <2>1. request'[c] # request[c]
    BY <1>1, <1>5, Moved DEF StandingOutcome, KeysTyped
  <2>2. CASE c \in older
    BY <2>1, <2>2
  <2>3. CASE c \notin older
    <3>1. request[c].pc \in {"submit", "validate"}
      BY <1>2, <1>5, <2>3 DEF StandingOutcome
    <3> QED BY <2>1, <3>1 DEF Spoken, Settles, At
  <2> QED BY <2>2, <2>3
<1> QED BY <1>1, <1>3, <1>4, <1>5, StandingActor

---------------------------------------------------------------------------
(* Replacement.                                                            *)

RewrapRows ==
  [status : {"running", "completed"}, from : Arns, to : Arns, done : BOOLEAN,
   cursor : {0} \cup Items, job : {"none", "queued"}, attempts : 0 .. MaxTries]
FileRows == [row : {"none", "pending", "clean", "rejected", "disposed"}, q : Stored, e : Stored]

\* What has to be shown of a step for the types, once there is a key.
LEMMA ReplacementTyped ==
  ASSUME KeysTyped, key' \in KeyRows, granted' = granted,
         request' \in [Requests -> RequestStates], IsFiniteSet(Busy'),
         rewrap' \in [RewrapIds -> {Absent} \cup RewrapRows],
         worker' \in [RewrapIds -> WorkerStates],
         file' \in [Files -> FileRows], \A f \in Files : FileHolds(f)',
         value' \in [Values -> Stored],
         mixed' \in BOOLEAN, inPlay' = inPlay
  PROVE  KeysTyped'
<1>1. KeyTypeOK'
  BY NoneAssumption DEF KeysTyped, RewrapTypeOK, KeyTypeOK, KeyRows
<1>2. \A f \in Files : file'[f].row = "disposed" => file'[f].e = None
  BY DEF FileHolds
<1>3. \A i \in RewrapIds : worker'[i].pc \in {"copy", "save"} => worker'[i].page \in (SUBSET Items) \ {{}}
  BY DEF WorkerStates, Idle
<1>4. RewrapTypeOK'
  BY <1>1, <1>2, <1>3 DEF RewrapTypeOK, RewrapRows, FileRows, RewrapIds, Items, Files, Stored
<1> QED BY <1>4 DEF KeysTyped

\* A rewrap's fields.
LEMMA RewrapFields ==
  ASSUME KeysTyped, NEW i \in RewrapIds, rewrap[i] # Absent
  PROVE  /\ rewrap[i] \in RewrapRows
         /\ rewrap[i].status \in {"running", "completed"} /\ rewrap[i].from \in Arns
         /\ rewrap[i].to \in Arns /\ rewrap[i].done \in BOOLEAN /\ rewrap[i].cursor \in {0} \cup Items
         /\ rewrap[i].job \in {"none", "queued"} /\ rewrap[i].attempts \in 0 .. MaxTries
         /\ rewrap[i].attempts \in Nat
<1>1. rewrap[i] \in RewrapRows
  BY DEF KeysTyped, RewrapTypeOK, RewrapRows
<1> QED BY <1>1, RewrapBounds DEF RewrapRows

\* A row of a re-wrap is told from none by its status.
LEMMA RowsPresent == Absent \notin RewrapRows
BY DEF Absent, RewrapRows

\* A file's fields.
LEMMA FileFields ==
  ASSUME KeysTyped, NEW f \in Files
  PROVE  /\ file \in [Files -> FileRows] /\ file[f] \in FileRows
         /\ file[f].row \in {"none", "pending", "clean", "rejected", "disposed"}
         /\ file[f].q \in Stored /\ file[f].e \in Stored
BY DEF KeysTyped, RewrapTypeOK, FileRows

\* The key as it is while it is replaced.
LEMMA ActiveKey ==
  ASSUME KeysTyped, ReplacementHolds
  PROVE  /\ key \in KeyRows /\ key.arn \in Arns /\ key.previous \in Arns \cup {None}
         /\ key.status = "active" /\ None \notin Arns
BY KeyFields, NoneAssumption DEF KeysTyped, RewrapTypeOK, ReplacementHolds

\* Files, when a request moves on to something else.
LEMMA FilesRequest ==
  ASSUME KeysTyped, FilesHold, NEW c \in Requests, NEW next \in RequestStates, Goto(c, next),
         next.pc \notin {"put", "promote", "settle"}, file' = file
  PROVE  FilesHold'
<1>1. /\ request \in [Requests -> RequestStates] /\ request'[c] = next
      /\ \A d \in Requests : d # c => request'[d] = request[d]
  BY Moved DEF KeysTyped
<1>2. \A f \in Files : FileHolds(f)'
  BY DEF FilesHold, FileHolds
<1>3. ASSUME NEW d \in Requests, request'[d].pc \in {"put", "promote", "settle"}
      PROVE  Uses(d, request[d].of)'
  <2>1. d # c /\ request'[d] = request[d] /\ Uses(d, request[d].of)
    BY <1>1, <1>3 DEF FilesHold
  <2> QED BY <1>1, <2>1 DEF Uses, At
<1> QED BY <1>2, <1>3 DEF FilesHold

\* The job, when a request moves on to something else.
LEMMA JobsRequest ==
  ASSUME KeysTyped, \A i \in RewrapIds : JobHolds(i),
         NEW c \in Requests, NEW next \in RequestStates, Goto(c, next),
         next.pc # "enqueue", rewrap' = rewrap, worker' = worker
  PROVE  \A i \in RewrapIds : JobHolds(i)'
<1>1. /\ request \in [Requests -> RequestStates] /\ request'[c] = next
      /\ \A d \in Requests : d # c => request'[d] = request[d]
  BY Moved DEF KeysTyped
<1> QED BY <1>1 DEF JobHolds, At

\* Replacement, when no replacement is committed and the job stands still.
LEMMA SerialStep ==
  ASSUME KeysTyped, ReplacementHolds, SerialHolds, UNCHANGED <<key, rewrap, worker>>,
         \A v \in Values : value'[v] \in {value[v], key.arn},
         \A f \in Files, arn \in Arns \ {key.arn} : Fresh(f, arn) => Fresh(f, arn)',
         \A d \in Requests : InUseHolds(d)',
         \A d \in Requests : At(d, "enqueue")' => request'[d] = request[d]
  PROVE  SerialHolds'
<1>1. ASSUME NEW i \in RewrapIds, LastRewrap(i)' PROVE LastHolds(i)'
  <2>1. LastRewrap(i) /\ LastHolds(i) /\ rewrap[i].from \in Arns \ {key.arn}
    BY <1>1, RewrapFields DEF LastRewrap, SerialHolds, LastHolds
  <2>2. \A f \in Files : Fresh(f, rewrap[i].from) => Fresh(f, rewrap[i].from)'
    BY <2>1 DEF Fresh
  <2>3. Progress(i)'
    BY <2>1, <2>2 DEF LastHolds, Progress, FreshTo, Fresh
  <2> QED BY <2>1, <2>3 DEF LastHolds
<1>2. ASSUME NEW i \in RewrapIds, rewrap'[i] # Absent, ~LastRewrap(i)' PROVE OverHolds(i)'
  BY <1>2 DEF LastRewrap, SerialHolds, OverHolds, At
<1>3. \A v \in Values : ValueOpens(v)'
  BY DEF SerialHolds, ValueOpens
<1> QED BY <1>1, <1>2, <1>3 DEF SerialHolds

\* A step of a request that touches neither files nor the job.
LEMMA ReplacementMove ==
  ASSUME KeysTyped, ReplacementHolds, NEW c \in Requests, NEW next \in RequestStates,
         Goto(c, next), UNCHANGED <<key, granted, rewrap, worker, file>>,
         value' \in [Values -> Stored],
         ~mixed => \A v \in Values : value'[v] \in {value[v], key.arn},
         next.pc \in {"idle", "rotate", "use"}, next.pc = "use" => next.arn = key.arn,
         next.pc = "rotate" => key.previous = None /\ next.from = key.arn /\ next.arn # key.arn,
         ~mixed' => ~mixed, mixed' \in BOOLEAN, inPlay' = inPlay
  PROVE  KeysTyped' /\ ReplacementHolds'
<1>1. /\ request' \in [Requests -> RequestStates] /\ request'[c] = next
      /\ \A d \in Requests : d # c => request'[d] = request[d]
      /\ IsFiniteSet(Busy')
  BY Moved DEF KeysTyped
<1>2. FilesHold' /\ \A i \in RewrapIds : JobHolds(i)'
  BY FilesRequest, JobsRequest DEF ReplacementHolds
<1>3. KeysTyped'
  <2>1. file' \in [Files -> FileRows] /\ rewrap' \in [RewrapIds -> {Absent} \cup RewrapRows]
        /\ worker' \in [RewrapIds -> WorkerStates]
    BY DEF KeysTyped, RewrapTypeOK, FileRows, RewrapRows
  <2>2. key' \in KeyRows /\ \A f \in Files : FileHolds(f)'
    BY <1>2, ActiveKey DEF FilesHold
  <2> QED BY <1>1, <2>1, <2>2, ReplacementTyped
<1>4. ASSUME ~mixed' PROVE SerialHolds'
  <2>1. SerialHolds
    BY <1>4 DEF ReplacementHolds
  <2>2. \A d \in Requests : InUseHolds(d)'
    BY <1>1, <2>1 DEF SerialHolds, InUseHolds, At
  <2>3. \A d \in Requests : At(d, "enqueue")' => request'[d] = request[d]
    BY <1>1 DEF At
  <2>4. \A f \in Files, arn \in Arns \ {key.arn} : Fresh(f, arn) => Fresh(f, arn)'
    BY DEF Fresh
  <2>5. \A v \in Values : value'[v] \in {value[v], key.arn}
    BY <1>4
  <2> QED BY <2>1, <2>2, <2>3, <2>4, <2>5, SerialStep
<1>5. /\ key' # None /\ key'.status = "active"
      /\ \A d \in Requests : request'[d].pc \in {"idle", "rotate", "enqueue", "use", "put", "promote", "settle"}
      /\ \A i, j \in RewrapIds : j < i /\ rewrap'[i] # Absent => rewrap'[j] # Absent
  BY <1>1 DEF ReplacementHolds
<1> QED BY <1>2, <1>3, <1>4, <1>5 DEF ReplacementHolds

\* A check before a replacement, the opening of a scope, a value stored, a
\* request that gives up.
LEMMA ReplacementQuiet ==
  ASSUME KeysTyped, ReplacementHolds, NEW c \in Requests,
         \/ (\E arn \in Arns : RotateCheck(c, arn)) /\ UNCHANGED rewrapVars
         \/ OpenScope(c) /\ UNCHANGED rewrapVars
         \/ \E v \in Values : Store(c, v)
         \/ Abort(c) /\ UNCHANGED rewrapVars,
         ~mixed' => ~mixed, mixed' \in BOOLEAN, inPlay' = inPlay
  PROVE  KeysTyped' /\ ReplacementHolds'
<1>0. /\ Idle \in RequestStates /\ Idle.pc = "idle" /\ key.arn \in Arns
      /\ value \in [Values -> Stored]
  BY ActiveKey DEF RequestStates, Idle, KeysTyped, RewrapTypeOK
<1>1. ASSUME NEW arn \in Arns, RotateCheck(c, arn), UNCHANGED rewrapVars
      PROVE  KeysTyped' /\ ReplacementHolds'
  <2> DEFINE next == [pc |-> "rotate", arn |-> arn, from |-> key.arn]
  <2>1. /\ Goto(c, next) /\ UNCHANGED <<key, granted, rewrap, worker, file>> /\ value' = value
        /\ key.previous = None /\ arn # key.arn
    BY <1>1 DEF RotateCheck, Moves, MayRotate, rewrapVars
  <2>2. next \in RequestStates /\ next.pc = "rotate" /\ next.arn = arn /\ next.from = key.arn
    BY <1>0 DEF RequestStates
  <2> HIDE DEF next
  <2> QED BY <1>0, <2>1, <2>2, ReplacementMove
<1>2. ASSUME OpenScope(c), UNCHANGED rewrapVars
      PROVE  KeysTyped' /\ ReplacementHolds'
  <2> DEFINE next == [pc |-> "use", arn |-> key.arn]
  <2>1. Goto(c, next) /\ UNCHANGED <<key, granted, rewrap, worker, file>> /\ value' = value
    BY <1>2 DEF OpenScope, Moves, rewrapVars
  <2>2. next \in RequestStates /\ next.pc = "use" /\ next.arn = key.arn
    BY <1>0 DEF RequestStates
  <2> HIDE DEF next
  <2> QED BY <1>0, <2>1, <2>2, ReplacementMove
<1>3. ASSUME NEW v \in Values, Store(c, v) PROVE KeysTyped' /\ ReplacementHolds'
  <2>1. /\ Goto(c, Idle) /\ UNCHANGED <<key, granted, rewrap, worker, file>> /\ request[c].pc = "use"
        /\ value' = [value EXCEPT ![v] = request[c].arn]
    BY <1>3 DEF Store, At
  <2>2. request[c].arn \in Arns
    BY <2>1, RequestFields DEF KeysTyped
  <2>3. value' \in [Values -> Stored]
    BY <1>0, <2>1, <2>2 DEF Stored
  <2>4. ~mixed => request[c].arn = key.arn
    BY <2>1 DEF ReplacementHolds, SerialHolds, InUseHolds
  <2>5. ~mixed => \A w \in Values : value'[w] \in {value[w], key.arn}
    BY <1>0, <2>1, <2>4
  <2> QED BY <1>0, <2>1, <2>3, <2>5, ReplacementMove
<1>4. ASSUME Abort(c), UNCHANGED rewrapVars PROVE KeysTyped' /\ ReplacementHolds'
  <2>1. Goto(c, Idle) /\ UNCHANGED <<key, granted, rewrap, worker, file>> /\ value' = value
    BY <1>4 DEF Abort, Moves, rewrapVars
  <2> QED BY <1>0, <2>1, ReplacementMove
<1> QED BY <1>1, <1>2, <1>3, <1>4

\* The job is put in line.
LEMMA ReplacementEnqueue ==
  ASSUME KeysTyped, ReplacementHolds, NEW c \in Requests, Enqueue(c),
         ~mixed' => ~mixed, mixed' \in BOOLEAN, inPlay' = inPlay
  PROVE  KeysTyped' /\ ReplacementHolds'
<1>0. PICK k : k = request[c].id
  OBVIOUS
<1>1. /\ Idle \in RequestStates /\ Idle.pc = "idle" /\ Goto(c, Idle)
      /\ UNCHANGED <<key, granted, worker, file, value>>
      /\ rewrap' = [rewrap EXCEPT ![k].job = "queued"] /\ request[c].pc = "enqueue"
  BY <1>0 DEF RequestStates, Idle, Enqueue, At
<1>2. /\ request' \in [Requests -> RequestStates] /\ request'[c] = Idle
      /\ \A d \in Requests : d # c => request'[d] = request[d]
      /\ IsFiniteSet(Busy')
  BY <1>1, Moved DEF KeysTyped
<1>3. k \in RewrapIds
  BY <1>0, <1>1, RequestFields DEF KeysTyped
<1>4. /\ rewrap[k] # Absent /\ rewrap[k].attempts = 0 /\ rewrap[k].job = "none"
      /\ \A d \in Requests \ {c} : At(d, "enqueue") => request[d].id # k
  BY <1>0, <1>1, <1>3 DEF ReplacementHolds, JobHolds, At
<1>5. /\ rewrap[k] \in RewrapRows /\ rewrap \in [RewrapIds -> {Absent} \cup RewrapRows]
      /\ \A i \in RewrapIds : rewrap[i] # Absent => rewrap[i] \in RewrapRows
  BY <1>3, <1>4, RewrapFields DEF KeysTyped, RewrapTypeOK, RewrapRows
<1>6. /\ rewrap'[k] = [rewrap[k] EXCEPT !.job = "queued"]
      /\ \A i \in RewrapIds : i # k => rewrap'[i] = rewrap[i]
      /\ rewrap'[k] \in RewrapRows
  <2>1. rewrap'[k] = [rewrap[k] EXCEPT !.job = "queued"] /\ \A i \in RewrapIds : i # k => rewrap'[i] = rewrap[i]
    BY <1>1, <1>3, <1>5
  <2> QED BY <1>5, <2>1 DEF RewrapRows
<1> DEFINE Same(i) ==
      /\ rewrap'[i].status = rewrap[i].status /\ rewrap'[i].from = rewrap[i].from
      /\ rewrap'[i].to = rewrap[i].to /\ rewrap'[i].done = rewrap[i].done
      /\ rewrap'[i].cursor = rewrap[i].cursor /\ rewrap'[i].attempts = rewrap[i].attempts
      /\ i # k => rewrap'[i].job = rewrap[i].job
<1>7. \A i \in RewrapIds : (rewrap'[i] = Absent <=> rewrap[i] = Absent) /\ Same(i)
  <2>1. Same(k)
    BY <1>5, <1>6 DEF RewrapRows
  <2> QED BY <1>4, <1>6, <2>1, RowsPresent
<1>8. rewrap'[k].job = "queued"
  <2> QED BY <1>5, <1>6 DEF RewrapRows
<1>9. FilesHold'
  BY <1>1, FilesRequest DEF ReplacementHolds
<1>10. \A i \in RewrapIds : JobHolds(i)'
  <2>1. ASSUME NEW i \in RewrapIds, i # k PROVE JobHolds(i)'
    <3> HIDE DEF Same
    <3>1. rewrap'[i] = rewrap[i] /\ worker'[i] = worker[i] /\ JobHolds(i)
      BY <1>1, <1>6, <2>1 DEF ReplacementHolds
    <3> QED BY <1>2, <3>1 DEF JobHolds, At, Idle
  <2>2. JobHolds(k)'
    <3>1. JobHolds(k) /\ rewrap'[k] # Absent /\ Same(k) /\ worker'[k] = worker[k]
      BY <1>1, <1>3, <1>4, <1>7 DEF ReplacementHolds
    <3>2. rewrap'[k].attempts < MaxTries
      BY <1>4, <3>1, RewrapBounds
    <3>3. \A d \in Requests : ~(At(d, "enqueue")' /\ request'[d].id = k)
      BY <1>2, <1>4 DEF At, Idle
    <3> USE DEF Idle
    <3> QED BY <1>3, <1>4, <1>8, <3>1, <3>2, <3>3 DEF JobHolds
  <2> QED BY <2>1, <2>2
<1>11. KeysTyped'
  <2>1. file' \in [Files -> FileRows] /\ worker' \in [RewrapIds -> WorkerStates] /\ value' \in [Values -> Stored]
    BY <1>1 DEF KeysTyped, RewrapTypeOK, FileRows
  <2>2. rewrap' \in [RewrapIds -> {Absent} \cup RewrapRows]
    <3> QED BY <1>1, <1>3, <1>5, <1>6
  <2>3. key' \in KeyRows /\ \A f \in Files : FileHolds(f)'
    BY <1>1, <1>9, ActiveKey DEF FilesHold
  <2> QED BY <1>1, <1>2, <2>1, <2>2, <2>3, ReplacementTyped
<1>12. ASSUME ~mixed' PROVE SerialHolds'
  <2>1. SerialHolds
    BY <1>12 DEF ReplacementHolds
  <2>2. LastRewrap(k)
    BY <1>0, <1>1, <1>3, <1>4, <2>1 DEF SerialHolds, OverHolds, At
  <2>3. \A i \in RewrapIds : (LastRewrap(i)' <=> LastRewrap(i)) /\ (LastRewrap(i) => i = k)
    <3>1. \A i \in RewrapIds : LastRewrap(i)' <=> LastRewrap(i)
      BY <1>7 DEF LastRewrap
    <3>2. \A i \in RewrapIds : i \in Nat
      BY RewrapBounds DEF RewrapIds
    <3> QED BY <1>3, <2>2, <3>1, <3>2 DEF LastRewrap
  <2>4. LastHolds(k)'
    <3>1. LastHolds(k) /\ Same(k) /\ worker'[k] = worker[k] /\ file' = file /\ key' = key
      BY <1>1, <1>3, <1>7, <2>1, <2>2 DEF SerialHolds
    <3> QED BY <3>1 DEF LastHolds, Progress, FreshTo, Fresh
  <2>5. ASSUME NEW i \in RewrapIds, rewrap'[i] # Absent, ~LastRewrap(i)' PROVE OverHolds(i)'
    <3>1. rewrap[i] # Absent /\ ~LastRewrap(i) /\ i # k /\ OverHolds(i)
      BY <1>7, <2>1, <2>2, <2>3, <2>5 DEF SerialHolds
    <3> QED BY <1>2, <1>7, <3>1 DEF OverHolds, At, Idle
  <2>6. \A d \in Requests : InUseHolds(d)'
    BY <1>1, <1>2, <2>1 DEF SerialHolds, InUseHolds, At, Idle
  <2>7. \A v \in Values : ValueOpens(v)'
    BY <1>1, <1>7, <2>1 DEF SerialHolds, ValueOpens
  <2>8. (\A i \in RewrapIds : rewrap'[i] = Absent) => key'.previous = None
    BY <1>1, <1>7, <2>1 DEF SerialHolds
  <2> QED BY <2>3, <2>4, <2>5, <2>6, <2>7, <2>8 DEF SerialHolds
<1>13. /\ key' # None /\ key'.status = "active"
       /\ \A d \in Requests : request'[d].pc \in {"idle", "rotate", "enqueue", "use", "put", "promote", "settle"}
       /\ \A i, j \in RewrapIds : j < i /\ rewrap'[i] # Absent => rewrap'[j] # Absent
  BY <1>1, <1>2, <1>7 DEF ReplacementHolds
<1> QED BY <1>9, <1>10, <1>11, <1>12, <1>13 DEF ReplacementHolds

\* A replacement is committed.
LEMMA ReplacementCommit ==
  ASSUME KeysTyped, ReplacementHolds, NEW c \in Requests, NEW i \in RewrapIds, Replace(c, i),
         mixed' = (mixed \/ (Replaces /\ (Cardinality(Busy) > 1 \/ Unfinished # {}))), inPlay' = inPlay
  PROVE  KeysTyped' /\ ReplacementHolds'
<1>0. PICK next : next = [pc |-> "enqueue", id |-> i]
  OBVIOUS
<1>1. /\ next \in RequestStates /\ next.pc = "enqueue" /\ next.id = i /\ Goto(c, next)
      /\ UNCHANGED <<granted, worker, file, value>> /\ request[c].pc = "rotate"
      /\ key' = Rotated(request[c]) /\ rewrap[i] = Absent /\ \A j \in 1 .. i - 1 : rewrap[j] # Absent
  BY <1>0 DEF RequestStates, Replace, RotateCommit, At
<1>2. /\ request' \in [Requests -> RequestStates] /\ request'[c] = next
      /\ \A d \in Requests : d # c => request'[d] = request[d]
      /\ IsFiniteSet(Busy')
  BY <1>1, Moved DEF KeysTyped
<1>3. request[c].arn \in Arns /\ request[c].from \in Arns /\ None \notin Arns
  BY <1>1, RequestFields, NoneAssumption DEF KeysTyped
<1>4. PICK r : r = [status |-> "running", from |-> request[c].from, to |-> request[c].arn, done |-> FALSE,
                    cursor |-> 0, job |-> "none", attempts |-> 0]
  OBVIOUS
<1>5. /\ r.status = "running" /\ r.from = request[c].from /\ r.to = request[c].arn /\ r.done = FALSE
      /\ r.cursor = 0 /\ r.job = "none" /\ r.attempts = 0
      /\ r \in RewrapRows /\ r # Absent
  <2>1. r \in RewrapRows
    BY <1>3, <1>4, RewrapBounds DEF RewrapRows
  <2> QED BY <1>4, <2>1, RowsPresent
<1>6. /\ rewrap \in [RewrapIds -> {Absent} \cup RewrapRows] /\ rewrap' = [rewrap EXCEPT ![i] = r]
      /\ rewrap'[i] = r /\ \A j \in RewrapIds : j # i => rewrap'[j] = rewrap[j]
  BY <1>4 DEF Replace, KeysTyped, RewrapTypeOK, RewrapRows
<1>7. /\ key' \in KeyRows /\ key'.arn = request[c].arn /\ key'.previous = request[c].from
      /\ key'.status = "active"
  BY <1>1, <1>3 DEF Rotated, KeyRows, Status
<1>8. FilesHold'
  BY <1>1, FilesRequest DEF ReplacementHolds
<1>9. \A j \in RewrapIds : j \in Nat
  BY RewrapBounds DEF RewrapIds
<1>10. \A j \in RewrapIds : rewrap[j] # Absent => j < i
  BY <1>1, <1>9 DEF ReplacementHolds
<1>11. \A j \in RewrapIds : JobHolds(j)'
  <2>1. ASSUME NEW j \in RewrapIds, j # i PROVE JobHolds(j)'
    <3>1. rewrap'[j] = rewrap[j] /\ worker'[j] = worker[j] /\ JobHolds(j)
      BY <1>1, <1>6, <2>1 DEF ReplacementHolds
    <3> QED BY <1>1, <1>2, <2>1, <3>1 DEF JobHolds, At
  <2>2. JobHolds(i)'
    <3>1. JobHolds(i) /\ worker'[i] = worker[i] /\ worker[i] = Idle
      BY <1>1 DEF ReplacementHolds, JobHolds
    <3>2. \A d \in Requests : At(d, "enqueue") => request[d].id # i
      BY <1>1, <3>1 DEF JobHolds
    <3> QED BY <1>1, <1>2, <1>5, <1>6, <3>1, <3>2 DEF JobHolds, At, Idle
  <2> QED BY <2>1, <2>2
<1>12. KeysTyped'
  <2>1. file' \in [Files -> FileRows] /\ worker' \in [RewrapIds -> WorkerStates] /\ value' \in [Values -> Stored]
    BY <1>1 DEF KeysTyped, RewrapTypeOK, FileRows
  <2>2. rewrap' \in [RewrapIds -> {Absent} \cup RewrapRows]
    BY <1>5, <1>6
  <2>3. \A f \in Files : FileHolds(f)'
    BY <1>8 DEF FilesHold
  <2>4. mixed' \in BOOLEAN /\ granted' = granted
    BY <1>1
  <2> QED BY <1>2, <1>7, <2>1, <2>2, <2>3, <2>4, ReplacementTyped
<1>13. ASSUME ~mixed' PROVE SerialHolds'
  <2>1. ~mixed /\ SerialHolds
    BY <1>13 DEF ReplacementHolds
  <2>2. key.previous = None /\ request[c].from = key.arn /\ request[c].arn # key.arn
    BY <1>1, <2>1 DEF SerialHolds, InUseHolds, At
  <2>3. Replaces
    BY <1>1, <1>7, <2>2 DEF Replaces, At
  <2>4. ~(Cardinality(Busy) > 1) /\ Unfinished = {}
    BY <1>13, <2>3
  <2>5. \A d \in Requests : d # c => request[d].pc = "idle"
    <3>1. \A d, e \in Busy : d = e
      BY <2>4, AtMostOne DEF KeysTyped
    <3> QED BY <1>1, <3>1 DEF Busy
  <2>6. \A j \in RewrapIds : rewrap'[j] # Absent /\ j # i => ~LastRewrap(j)'
    BY <1>5, <1>6, <1>10 DEF LastRewrap
  <2>7. LastHolds(i)'
    <3>1. worker'[i] = Idle
      BY <1>1 DEF ReplacementHolds, JobHolds
    <3>2. \A f \in Files : ~(Quarantine(f) <= 0)
      BY RewrapBounds DEF Files, Quarantine
    <3> QED BY <1>3, <1>5, <1>6, <1>7, <2>2, <3>1, <3>2 DEF LastHolds, Progress, FreshTo, Idle
  <2>8. ASSUME NEW j \in RewrapIds, rewrap'[j] # Absent, j # i PROVE OverHolds(j)'
    <3>1. rewrap'[j] = rewrap[j] /\ rewrap[j] # Absent
      BY <1>6, <2>8
    <3>2. rewrap[j].done
      <4>1. CASE LastRewrap(j)
        BY <1>3, <2>1, <2>2, <3>1, <4>1, RewrapFields DEF SerialHolds, LastHolds
      <4>2. CASE ~LastRewrap(j)
        BY <2>1, <3>1, <4>2 DEF SerialHolds, OverHolds
      <4> QED BY <4>1, <4>2
    <3>3. rewrap[j].job = "none"
      BY <2>4, <3>1, RewrapFields DEF Unfinished
    <3>4. \A d \in Requests : At(d, "enqueue")' => request'[d].id # j
      BY <1>1, <1>2, <2>5, <2>8 DEF At
    <3> QED BY <3>1, <3>2, <3>3, <3>4 DEF OverHolds
  <2>9. \A d \in Requests : InUseHolds(d)'
    BY <1>1, <1>2, <2>5 DEF InUseHolds, At
  <2>10. ASSUME NEW v \in Values PROVE ValueOpens(v)'
    <3>1. CASE value[v] \in {None, key.arn, key.previous}
      BY <1>1, <1>7, <2>2, <3>1 DEF ValueOpens
    <3>2. CASE \E j \in RewrapIds : rewrap[j] # Absent /\ rewrap[j].from = value[v] /\ rewrap[j].done
      <4>1. PICK j \in RewrapIds : rewrap[j] # Absent /\ rewrap[j].from = value[v] /\ rewrap[j].done
        BY <3>2
      <4>2. rewrap'[j] = rewrap[j] /\ value' = value
        BY <1>1, <1>6, <4>1
      <4> QED BY <4>1, <4>2 DEF ValueOpens
    <3> QED BY <2>1, <3>1, <3>2 DEF SerialHolds, ValueOpens
  <2>11. rewrap'[i] # Absent
    BY <1>5, <1>6
  <2>12. \A j \in RewrapIds : LastRewrap(j)' => LastHolds(j)'
    <3> SUFFICES ASSUME NEW j \in RewrapIds, LastRewrap(j)' PROVE LastHolds(j)'
      OBVIOUS
    <3>1. j = i
      BY <2>6 DEF LastRewrap
    <3> QED BY <2>7, <3>1
  <2>13. LastRewrap(i)'
    BY <1>6, <1>9, <1>10, <2>11 DEF LastRewrap
  <2>14. \A j \in RewrapIds : rewrap'[j] # Absent /\ ~LastRewrap(j)' => OverHolds(j)'
    BY <2>8, <2>13
  <2> QED BY <2>9, <2>10, <2>11, <2>12, <2>14 DEF SerialHolds
<1>14. /\ key' # None /\ \A d \in Requests :
              request'[d].pc \in {"idle", "rotate", "enqueue", "use", "put", "promote", "settle"}
       /\ \A k, j \in RewrapIds : j < k /\ rewrap'[k] # Absent => rewrap'[j] # Absent
  <2>1. \A k, j \in RewrapIds : j < k /\ rewrap'[k] # Absent => rewrap'[j] # Absent
    <3> SUFFICES ASSUME NEW k \in RewrapIds, NEW j \in RewrapIds, j < k, rewrap'[k] # Absent
                 PROVE  rewrap'[j] # Absent
      OBVIOUS
    <3>1. CASE k = i
      <4>1. j \in 1 .. i - 1
        BY <1>9, <3>1 DEF RewrapIds
      <4> QED BY <1>1, <1>5, <1>6, <4>1
    <3>2. CASE k # i
      BY <1>5, <1>6, <3>2 DEF ReplacementHolds
    <3> QED BY <3>1, <3>2
  <2> QED BY <1>1, <1>2, <1>7, <2>1, NoneAssumption DEF ReplacementHolds
<1> QED BY <1>7, <1>8, <1>11, <1>12, <1>13, <1>14 DEF ReplacementHolds

\* Files, when one of them changes.
LEMMA FilesChange ==
  ASSUME FilesHold, request' \in [Requests -> RequestStates], NEW f \in Files, \A g \in Files \ {f} : file'[g] = file[g], FileHolds(f)',
         \A d \in Requests : \/ request'[d] = request[d] \/ request'[d].pc = "idle"
                             \/ request'[d].of = f,
         \A d \in Requests :
           request'[d].pc \in {"put", "promote", "settle"} /\ request'[d].of = f => Uses(d, f)'
  PROVE  FilesHold'
<1>1. \A g \in Files : FileHolds(g)'
  <2> SUFFICES ASSUME NEW g \in Files \ {f} PROVE FileHolds(g)'
    OBVIOUS
  <2>1. FileHolds(g) /\ file'[g] = file[g]
    BY DEF FilesHold
  <2> QED BY <2>1 DEF FileHolds
<1>2. ASSUME NEW d \in Requests, request'[d].pc \in {"put", "promote", "settle"}, request'[d].of # f
      PROVE  Uses(d, request[d].of)'
  <2>1. PICK g : g = request'[d].of
    OBVIOUS
  <2>2. request'[d] = request[d] /\ Uses(d, g) /\ g \in Files \ {f}
    BY <1>2, <2>1, RequestFields DEF FilesHold
  <2>3. file'[g] = file[g]
    BY <2>2
  <2>4. Uses(d, g)'
    BY <2>1, <2>2, <2>3 DEF Uses, At
  <2> QED BY <2>1, <2>4
<1>3. ASSUME NEW d \in Requests, request'[d].pc \in {"put", "promote", "settle"}, request'[d].of = f
      PROVE  Uses(d, request[d].of)'
  <2>1. Uses(d, f)'
    BY <1>3
  <2> QED BY <1>3, <2>1 DEF Uses
<1> QED BY <1>1, <1>2, <1>3 DEF FilesHold

\* A step that moves a file and, perhaps, the request that does so.
LEMMA FileMove ==
  ASSUME KeysTyped, ReplacementHolds,
         request' \in [Requests -> RequestStates], IsFiniteSet(Busy'),
         \A d \in Requests :
           \/ request'[d] = request[d]
           \/ /\ request'[d].pc \in {"idle", "put", "promote", "settle"}
              /\ ~mixed /\ request'[d].pc \in {"put", "promote"} => request'[d].arn = key.arn,
         file' \in [Files -> FileRows], FilesHold',
         ~mixed => \A f \in Files, arn \in Arns \ {key.arn} : Fresh(f, arn) => Fresh(f, arn)',
         UNCHANGED <<key, granted, rewrap, worker, value>>,
         ~mixed' => ~mixed, mixed' \in BOOLEAN, inPlay' = inPlay
  PROVE  KeysTyped' /\ ReplacementHolds'
<1>1. \A i \in RewrapIds : JobHolds(i)'
  BY DEF ReplacementHolds, JobHolds, At
<1>2. KeysTyped'
  <2>1. /\ rewrap' \in [RewrapIds -> {Absent} \cup RewrapRows] /\ value' \in [Values -> Stored]
        /\ worker' \in [RewrapIds -> WorkerStates]
    BY DEF KeysTyped, RewrapTypeOK, RewrapRows
  <2>2. key' \in KeyRows /\ \A f \in Files : FileHolds(f)'
    BY ActiveKey DEF FilesHold
  <2> QED BY <2>1, <2>2, ReplacementTyped
<1>3. ASSUME ~mixed' PROVE SerialHolds'
  <2>1. ~mixed /\ SerialHolds
    BY <1>3 DEF ReplacementHolds
  <2>2. \A d \in Requests : InUseHolds(d)'
    BY <2>1 DEF SerialHolds, InUseHolds, At
  <2>3. \A d \in Requests : At(d, "enqueue")' => request'[d] = request[d]
    BY DEF At
  <2>4. /\ \A v \in Values : value'[v] \in {value[v], key.arn}
        /\ \A f \in Files, arn \in Arns \ {key.arn} : Fresh(f, arn) => Fresh(f, arn)'
    BY <2>1
  <2> QED BY <2>1, <2>2, <2>3, <2>4, SerialStep
<1>4. /\ key' # None /\ key'.status = "active"
      /\ \A d \in Requests : request'[d].pc \in {"idle", "rotate", "enqueue", "use", "put", "promote", "settle"}
      /\ \A i, j \in RewrapIds : j < i /\ rewrap'[i] # Absent => rewrap'[j] # Absent
  BY DEF ReplacementHolds
<1> QED BY <1>1, <1>2, <1>3, <1>4 DEF ReplacementHolds

\* An object written under the key of the moment is not under an older one.
LEMMA WrittenFresh ==
  ASSUME KeysTyped, NEW f \in Files, NEW now \in FileRows, file' = [file EXCEPT ![f] = now], key.arn # None,
         \/ now.row = "disposed"
         \/ /\ file[f].row # "disposed"
            /\ now.q \in {file[f].q, None, key.arn} /\ now.e \in {file[f].e, None, key.arn},
         None \notin Arns
  PROVE  \A g \in Files, arn \in Arns \ {key.arn} : Fresh(g, arn) => Fresh(g, arn)'
<1>1. file'[f] = now /\ \A g \in Files : g # f => file'[g] = file[g]
  BY FileFields
<1> QED BY <1>1 DEF Fresh

\* What a step of a request on a file has to show.
LEMMA FileRequest ==
  ASSUME KeysTyped, ReplacementHolds, NEW c \in Requests, NEW f \in Files,
         NEW now \in FileRows, NEW next \in RequestStates, FileStep(c, f, now, next),
         next.pc \in {"idle", "put", "promote", "settle"},
         next.pc # "idle" => next.of = f,
         ~mixed /\ next.pc \in {"put", "promote"} => next.arn = key.arn,
         FileHolds(f)',
         next.pc # "idle" => Uses(c, f)',
         \A d \in Requests \ {c} :
           request[d].pc \in {"put", "promote", "settle"} /\ request[d].of = f => Uses(d, f)',
         ~mixed => \/ now.row = "disposed"
                   \/ /\ file[f].row # "disposed"
                      /\ now.q \in {file[f].q, None, key.arn} /\ now.e \in {file[f].e, None, key.arn},
         ~mixed' => ~mixed, mixed' \in BOOLEAN, inPlay' = inPlay
  PROVE  KeysTyped' /\ ReplacementHolds'
<1>1. /\ Goto(c, next) /\ file' = [file EXCEPT ![f] = now]
      /\ UNCHANGED <<key, granted, rewrap, worker, value>>
  BY DEF FileStep
<1>2. /\ request' \in [Requests -> RequestStates] /\ request'[c] = next
      /\ \A d \in Requests : d # c => request'[d] = request[d]
      /\ IsFiniteSet(Busy')
  BY <1>1, Moved DEF KeysTyped
<1>3. file' \in [Files -> FileRows] /\ file'[f] = now /\ \A g \in Files \ {f} : file'[g] = file[g]
  BY <1>1, FileFields
<1>4. FilesHold'
  <2>1. \A d \in Requests : request'[d] = request[d] \/ request'[d].pc = "idle" \/ request'[d].of = f
    BY <1>2
  <2>2. \A d \in Requests :
          request'[d].pc \in {"put", "promote", "settle"} /\ request'[d].of = f => Uses(d, f)'
    BY <1>2
  <2> QED BY <1>2, <1>3, <2>1, <2>2, FilesChange DEF ReplacementHolds
<1>5. ~mixed => \A g \in Files, arn \in Arns \ {key.arn} : Fresh(g, arn) => Fresh(g, arn)'
  BY <1>1, ActiveKey, WrittenFresh
<1>6. \A d \in Requests :
        \/ request'[d] = request[d]
        \/ /\ request'[d].pc \in {"idle", "put", "promote", "settle"}
           /\ ~mixed /\ request'[d].pc \in {"put", "promote"} => request'[d].arn = key.arn
  BY <1>2
<1> QED BY <1>1, <1>2, <1>3, <1>4, <1>5, <1>6, FileMove

\* An upload is asked for.
LEMMA ReplacementUpload ==
  ASSUME KeysTyped, ReplacementHolds, NEW c \in Requests, NEW f \in Files, RequestUpload(c, f),
         ~mixed' => ~mixed, mixed' \in BOOLEAN, inPlay' = inPlay
  PROVE  KeysTyped' /\ ReplacementHolds'
<1>1. PICK now : now = [file[f] EXCEPT !.row = "pending"]
  OBVIOUS
<1>2. PICK next : next = [pc |-> "put", of |-> f, arn |-> key.arn]
  OBVIOUS
<1>3. /\ FileStep(c, f, now, next) /\ request[c].pc = "idle" /\ file[f].row = "none"
      /\ now \in FileRows /\ now.row = "pending" /\ now.q = file[f].q /\ now.e = file[f].e
      /\ next \in RequestStates /\ next.pc = "put" /\ next.of = f /\ next.arn = key.arn
  BY <1>1, <1>2, FileFields, ActiveKey DEF RequestUpload, At, FileRows, RequestStates
<1>4. file[f].q = None /\ file[f].e = None
  BY <1>3 DEF ReplacementHolds, FilesHold, FileHolds
<1>5. file'[f] = now /\ request'[c] = next /\ \A d \in Requests : d # c => request'[d] = request[d]
  BY <1>3, FileFields, Moved DEF FileStep, KeysTyped
<1>6. \A d \in Requests : ~(request[d].pc \in {"put", "promote", "settle"} /\ request[d].of = f)
  BY <1>3 DEF ReplacementHolds, FilesHold, Uses, At
<1>7. FileHolds(f)'
  BY <1>3, <1>4, <1>5 DEF FileHolds
<1>8. Uses(c, f)'
  BY <1>3, <1>4, <1>5, <1>6 DEF Uses, At
<1> QED BY <1>3, <1>6, <1>7, <1>8, FileRequest

\* The object arrives.
LEMMA ReplacementPut ==
  ASSUME KeysTyped, ReplacementHolds, NEW c \in Requests, Put(c),
         ~mixed' => ~mixed, mixed' \in BOOLEAN, inPlay' = inPlay
  PROVE  KeysTyped' /\ ReplacementHolds'
<1>0. PICK f : f = request[c].of
  OBVIOUS
<1>1. PICK now : now = [file[f] EXCEPT !.q = request[c].arn]
  OBVIOUS
<1>2. request[c].pc = "put" /\ f \in Files /\ request[c].arn \in Arns /\ FileStep(c, f, now, Idle)
  BY <1>0, <1>1, RequestFields DEF Put, At, KeysTyped
<1>3. /\ now \in FileRows /\ now.row = file[f].row /\ now.q = request[c].arn /\ now.e = file[f].e
      /\ Idle \in RequestStates /\ Idle.pc = "idle"
  BY <1>1, <1>2, FileFields DEF FileRows, Stored, RequestStates, Idle
<1>4. /\ file[f].row \in {"pending", "rejected", "disposed"} /\ file[f].e = None
      /\ \A d \in Requests \ {c} :
           request[d].pc \in {"put", "promote", "settle"} => request[d].of # f
  BY <1>0, <1>2 DEF ReplacementHolds, FilesHold, Uses, At
<1>5. file'[f] = now
  BY <1>2, <1>3, FileFields DEF FileStep
<1>6. FileHolds(f)'
  BY <1>3, <1>4, <1>5 DEF FileHolds
<1>7. ~mixed => request[c].arn = key.arn
  BY <1>2 DEF ReplacementHolds, SerialHolds, InUseHolds
<1> QED BY <1>2, <1>3, <1>4, <1>6, <1>7, FileRequest

\* A promotion begins.
LEMMA ReplacementPromote ==
  ASSUME KeysTyped, ReplacementHolds, NEW c \in Requests, NEW f \in Files, PromoteRead(c, f),
         ~mixed' => ~mixed, mixed' \in BOOLEAN, inPlay' = inPlay
  PROVE  KeysTyped' /\ ReplacementHolds'
<1>1. PICK now : now = file[f]
  OBVIOUS
<1>2. PICK next : next = [pc |-> "promote", of |-> f, arn |-> key.arn]
  OBVIOUS
<1>3. /\ FileStep(c, f, now, next) /\ request[c].pc = "idle" /\ file[f].row = "pending" /\ file[f].q # None
      /\ now \in FileRows
      /\ next \in RequestStates /\ next.pc = "promote" /\ next.of = f /\ next.arn = key.arn
  BY <1>1, <1>2, FileFields, ActiveKey DEF PromoteRead, At, RequestStates
<1>4. file'[f] = file[f] /\ request'[c] = next /\ \A d \in Requests : d # c => request'[d] = request[d]
  BY <1>1, <1>3, FileFields, Moved DEF FileStep, KeysTyped
<1>5. FileHolds(f)'
  BY <1>4 DEF ReplacementHolds, FilesHold, FileHolds
<1>6. Uses(c, f)'
  BY <1>3, <1>4 DEF Uses, At
<1>7. ASSUME NEW d \in Requests \ {c}, request[d].pc \in {"put", "promote", "settle"}, request[d].of = f
      PROVE  Uses(d, f)'
  <2>1. Uses(d, f)
    BY <1>7 DEF ReplacementHolds, FilesHold
  <2> QED BY <1>3, <1>4, <1>7, <2>1 DEF Uses, At
<1> QED BY <1>1, <1>3, <1>5, <1>6, <1>7, FileRequest

\* The object is moved, or somebody else has moved it.
LEMMA ReplacementMoved ==
  ASSUME KeysTyped, ReplacementHolds, NEW c \in Requests, PromoteCopy(c),
         ~mixed' => ~mixed, mixed' \in BOOLEAN, inPlay' = inPlay
  PROVE  KeysTyped' /\ ReplacementHolds'
<1>0. PICK f : f = request[c].of
  OBVIOUS
<1>1. /\ request[c].pc = "promote" /\ f \in Files /\ request[c].arn \in Arns /\ None \notin Arns
      /\ Idle \in RequestStates /\ Idle.pc = "idle" /\ file[f] \in FileRows
  BY <1>0, RequestFields, FileFields, NoneAssumption DEF PromoteCopy, At, KeysTyped, RequestStates, Idle
<1>2. /\ file[f].row \in {"pending", "clean", "disposed"} /\ (file[f].row # "pending" => file[f].q = None)
      /\ FileHolds(f)
  BY <1>0, <1>1 DEF ReplacementHolds, FilesHold, Uses, At
<1>3. CASE file[f].q = None
  <2>1. FileStep(c, f, file[f], Idle)
    BY <1>0, <1>3 DEF PromoteCopy
  <2>2. file'[f] = file[f] /\ request'[c] = Idle /\ \A d \in Requests : d # c => request'[d] = request[d]
    BY <1>1, <2>1, FileFields, Moved DEF FileStep, KeysTyped
  <2>3. FileHolds(f)'
    BY <1>2, <2>2 DEF FileHolds
  <2>4. ASSUME NEW d \in Requests \ {c}, request[d].pc \in {"put", "promote", "settle"}, request[d].of = f
        PROVE  Uses(d, f)'
    <3>1. Uses(d, f)
      BY <2>4 DEF ReplacementHolds, FilesHold
    <3> QED BY <2>2, <2>4, <3>1 DEF Uses, At, Idle
  <2>5. PICK now : now = file[f]
    OBVIOUS
  <2> QED BY <1>1, <2>1, <2>3, <2>4, <2>5, FileRequest
<1>4. CASE file[f].q # None
  <2>1. PICK now : now = [file[f] EXCEPT !.q = None, !.e = request[c].arn]
    OBVIOUS
  <2>2. PICK next : next = [pc |-> "settle", of |-> f]
    OBVIOUS
  <2>3. /\ FileStep(c, f, now, next) /\ now \in FileRows /\ now.row = file[f].row /\ now.q = None
        /\ now.e = request[c].arn /\ next \in RequestStates /\ next.pc = "settle" /\ next.of = f
    BY <1>0, <1>1, <1>4, <2>1, <2>2 DEF PromoteCopy, FileRows, Stored, RequestStates
  <2>4. file'[f] = now /\ request'[c] = next /\ \A d \in Requests : d # c => request'[d] = request[d]
    BY <1>1, <2>3, FileFields, Moved DEF FileStep, KeysTyped
  <2>5. file[f].row = "pending"
    BY <1>2, <1>4
  <2>6. FileHolds(f)'
    BY <2>3, <2>4, <2>5 DEF FileHolds
  <2>7. \A d \in Requests \ {c} : request[d].pc \in {"put", "settle"} => request[d].of # f
    BY <1>4 DEF ReplacementHolds, FilesHold, Uses, At
  <2>8. Uses(c, f)'
    BY <1>1, <2>3, <2>4, <2>5, <2>7 DEF Uses, At
  <2>9. ASSUME NEW d \in Requests \ {c}, request[d].pc \in {"put", "promote", "settle"}, request[d].of = f
        PROVE  Uses(d, f)'
    BY <2>3, <2>4, <2>5, <2>7, <2>9 DEF Uses, At
  <2>10. ~mixed => request[c].arn = key.arn
    BY <1>1 DEF ReplacementHolds, SerialHolds, InUseHolds
  <2>11. ~mixed => \/ now.row = "disposed"
                   \/ /\ file[f].row # "disposed"
                      /\ now.q \in {file[f].q, None, key.arn} /\ now.e \in {file[f].e, None, key.arn}
    BY <2>3, <2>5, <2>10
  <2>12. \A d \in Requests \ {c} :
           request[d].pc \in {"put", "promote", "settle"} /\ request[d].of = f => Uses(d, f)'
    BY <2>9
  <2> QED BY <1>1, <2>3, <2>6, <2>8, <2>11, <2>12, FileRequest
<1> QED BY <1>3, <1>4

\* The promotion is written down.
LEMMA ReplacementSettle ==
  ASSUME KeysTyped, ReplacementHolds, NEW c \in Requests, PromoteSettle(c),
         ~mixed' => ~mixed, mixed' \in BOOLEAN, inPlay' = inPlay
  PROVE  KeysTyped' /\ ReplacementHolds'
<1>0. PICK f : f = request[c].of
  OBVIOUS
<1>1. PICK now : now = [file[f] EXCEPT !.row = "clean"]
  OBVIOUS
<1>2. /\ request[c].pc = "settle" /\ f \in Files /\ FileStep(c, f, now, Idle)
      /\ now \in FileRows /\ now.row = "clean" /\ now.q = file[f].q /\ now.e = file[f].e
      /\ Idle \in RequestStates /\ Idle.pc = "idle"
  <2>1. request[c].pc = "settle" /\ f \in Files
    BY <1>0, RequestFields DEF PromoteSettle, At, KeysTyped
  <2>2. file[f] \in FileRows
    BY <2>1, FileFields
  <2> QED BY <1>0, <1>1, <2>1, <2>2 DEF PromoteSettle, FileRows, RequestStates, Idle
<1>3. /\ file[f].row = "pending" /\ file[f].q = None /\ file[f].e # None
      /\ \A d \in Requests \ {c} : request[d].pc \in {"put", "settle"} => request[d].of # f
  BY <1>0, <1>2 DEF ReplacementHolds, FilesHold, Uses, At
<1>4. file'[f] = now /\ request'[c] = Idle /\ \A d \in Requests : d # c => request'[d] = request[d]
  BY <1>2, FileFields, Moved DEF FileStep, KeysTyped
<1>5. FileHolds(f)'
  BY <1>2, <1>3, <1>4 DEF FileHolds
<1>6. ASSUME NEW d \in Requests \ {c}, request[d].pc \in {"put", "promote", "settle"}, request[d].of = f
      PROVE  Uses(d, f)'
  BY <1>2, <1>3, <1>4, <1>6 DEF Uses, At
<1> QED BY <1>2, <1>3, <1>5, <1>6, FileRequest

\* A file is rejected in quarantine, or disposed of.
LEMMA ReplacementRemoval ==
  ASSUME KeysTyped, ReplacementHolds, NEW f \in Files, Reject(f) \/ Dispose(f),
         ~mixed' => ~mixed, mixed' \in BOOLEAN, inPlay' = inPlay
  PROVE  KeysTyped' /\ ReplacementHolds'
<1>1. /\ file[f] \in FileRows /\ request' = request /\ Busy' = Busy
      /\ UNCHANGED <<key, granted, rewrap, worker, value>>
      /\ request \in [Requests -> RequestStates] /\ IsFiniteSet(Busy) /\ None \notin Arns /\ key.arn # None
  BY FileFields, ActiveKey DEF Reject, Dispose, keyVars, KeysTyped, Busy
<1>2. PICK now \in FileRows :
        /\ file' = [file EXCEPT ![f] = now]
        /\ now.q = None
        /\ \/ /\ now.row = "rejected" /\ now.e = file[f].e /\ file[f].row = "pending" /\ file[f].e = None
              /\ \A c \in Requests : request[c].pc \in {"promote", "settle"} => request[c].of # f
           \/ now.row = "disposed" /\ now.e = None /\ file[f].row \in {"clean", "rejected"}
  <2>1. CASE Reject(f)
    <3> DEFINE now == [file[f] EXCEPT !.row = "rejected", !.q = None]
    <3>1. now \in FileRows /\ now.q = None /\ now.row = "rejected" /\ now.e = file[f].e
      BY <1>1 DEF FileRows, Stored
    <3>2. /\ file' = [file EXCEPT ![f] = now] /\ file[f].row = "pending" /\ file[f].e = None
          /\ \A c \in Requests : request[c].pc \in {"promote", "settle"} => request[c].of # f
      BY <2>1 DEF Reject
    <3> HIDE DEF now
    <3> QED BY <3>1, <3>2
  <2>2. CASE Dispose(f)
    <3> DEFINE now == [row |-> "disposed", q |-> None, e |-> None]
    <3>1. now \in FileRows /\ now.q = None /\ now.row = "disposed" /\ now.e = None
      BY DEF FileRows, Stored
    <3>2. file' = [file EXCEPT ![f] = now] /\ file[f].row \in {"clean", "rejected"}
      BY <2>2 DEF Dispose
    <3> HIDE DEF now
    <3> QED BY <3>1, <3>2
  <2> QED BY <2>1, <2>2
<1>3. file' \in [Files -> FileRows] /\ file'[f] = now /\ \A g \in Files \ {f} : file'[g] = file[g]
  BY <1>2, FileFields
<1>4. FilesHold'
  <2>1. FileHolds(f)'
    BY <1>2, <1>3 DEF FileHolds
  <2>2. ASSUME NEW d \in Requests, request[d].pc \in {"put", "promote", "settle"}, request[d].of = f
        PROVE  Uses(d, f)'
    <3>1. Uses(d, f)
      BY <2>2 DEF ReplacementHolds, FilesHold
    <3> QED BY <1>1, <1>2, <1>3, <2>2, <3>1 DEF Uses, At
  <2> QED BY <1>1, <1>3, <2>1, <2>2, FilesChange DEF ReplacementHolds
<1>5. \A g \in Files, arn \in Arns \ {key.arn} : Fresh(g, arn) => Fresh(g, arn)'
  BY <1>1, <1>2, WrittenFresh
<1> QED BY <1>1, <1>3, <1>4, <1>5, FileMove

\* What a step of the job has to show.
LEMMA WorkStep ==
  ASSUME KeysTyped, ReplacementHolds, NEW i \in RewrapIds, NEW next \in WorkerStates, WorkerStep(i, next),
         rewrap[i] # Absent, rewrap[i].job = "queued", rewrap'[i] \in RewrapRows,
         rewrap' \in [RewrapIds -> {Absent} \cup RewrapRows],
         \A j \in RewrapIds : j # i => rewrap'[j] = rewrap[j],
         rewrap'[i].from = rewrap[i].from, rewrap[i].done => rewrap'[i].done,
         key' \in KeyRows, key'.arn = key.arn, key'.status = "active",
         key'.previous = key.previous \/ (key'.previous = None /\ rewrap[i].done),
         file' \in [Files -> FileRows], FilesHold', JobHolds(i)',
         LastRewrap(i) /\ LastHolds(i) => LastHolds(i)',
         ~mixed' => ~mixed, mixed' \in BOOLEAN, inPlay' = inPlay
  PROVE  KeysTyped' /\ ReplacementHolds'
<1>1. /\ worker \in [RewrapIds -> WorkerStates] /\ worker' = [worker EXCEPT ![i] = next]
      /\ UNCHANGED <<granted, request, value>> /\ Busy' = Busy
  BY DEF KeysTyped, WorkerStep, Busy
<1>2. \A j \in RewrapIds : rewrap'[j] = Absent <=> rewrap[j] = Absent
  BY RowsPresent
<1>3. \A j \in RewrapIds : JobHolds(j)'
  <2> SUFFICES ASSUME NEW j \in RewrapIds, j # i PROVE JobHolds(j)'
    OBVIOUS
  <2>1. rewrap'[j] = rewrap[j] /\ worker'[j] = worker[j] /\ JobHolds(j)
    BY <1>1 DEF ReplacementHolds
  <2> QED BY <1>1, <2>1 DEF JobHolds, At
<1>4. KeysTyped'
  <2>1. /\ worker' \in [RewrapIds -> WorkerStates] /\ request' \in [Requests -> RequestStates]
        /\ IsFiniteSet(Busy') /\ value' \in [Values -> Stored] /\ granted' = granted
    BY <1>1 DEF KeysTyped, RewrapTypeOK
  <2>2. \A f \in Files : FileHolds(f)'
    BY DEF FilesHold
  <2> QED BY <2>1, <2>2, ReplacementTyped
<1>5. ASSUME ~mixed' PROVE SerialHolds'
  <2>1. ~mixed /\ SerialHolds
    BY <1>5 DEF ReplacementHolds
  <2>2. LastRewrap(i) /\ LastHolds(i)
    BY <2>1 DEF SerialHolds, OverHolds
  <2>3. \A j \in RewrapIds : LastRewrap(j)' <=> LastRewrap(j)
    BY <1>2 DEF LastRewrap
  <2>4. \A j \in RewrapIds : j \in Nat
    BY RewrapBounds DEF RewrapIds
  <2>5. \A j \in RewrapIds : LastRewrap(j) => j = i
    BY <2>2, <2>4 DEF LastRewrap
  <2>6. \A j \in RewrapIds : LastRewrap(j)' => LastHolds(j)'
    BY <2>2, <2>3, <2>5
  <2>7. ASSUME NEW j \in RewrapIds, rewrap'[j] # Absent, ~LastRewrap(j)' PROVE OverHolds(j)'
    <3>1. j # i /\ rewrap'[j] = rewrap[j] /\ OverHolds(j)
      BY <1>2, <2>1, <2>2, <2>3, <2>7 DEF SerialHolds
    <3> QED BY <1>1, <3>1 DEF OverHolds, At
  <2>8. \A c \in Requests : InUseHolds(c)'
    BY <1>1, <2>1 DEF SerialHolds, InUseHolds, At
  <2>9. ASSUME NEW v \in Values PROVE ValueOpens(v)'
    <3>1. CASE value[v] \in {None, key.arn}
      BY <1>1, <3>1 DEF ValueOpens
    <3>2. CASE value[v] = key.previous /\ key.previous # None
      <4>1. CASE key'.previous = key.previous
        BY <1>1, <3>2, <4>1 DEF ValueOpens
      <4>2. CASE rewrap[i].done
        <5>1. rewrap'[i] # Absent /\ rewrap'[i].done /\ rewrap'[i].from = key.previous
          BY <1>2, <2>2, <3>2, <4>2 DEF LastHolds
        <5> QED BY <1>1, <3>2, <5>1 DEF ValueOpens
      <4> QED BY <4>1, <4>2
    <3>3. CASE \E j \in RewrapIds : rewrap[j] # Absent /\ rewrap[j].from = value[v] /\ rewrap[j].done
      <4>1. PICK j \in RewrapIds : rewrap[j] # Absent /\ rewrap[j].from = value[v] /\ rewrap[j].done
        BY <3>3
      <4>2. rewrap'[j] # Absent /\ rewrap'[j].from = value'[v] /\ rewrap'[j].done
        BY <1>1, <1>2, <4>1
      <4> QED BY <4>2 DEF ValueOpens
    <3> QED BY <2>1, <3>1, <3>2, <3>3 DEF SerialHolds, ValueOpens
  <2>10. ~\A j \in RewrapIds : rewrap'[j] = Absent
    BY <1>2
  <2> QED BY <2>6, <2>7, <2>8, <2>9, <2>10 DEF SerialHolds
<1>6. /\ key' # None
      /\ \A c \in Requests : request'[c].pc \in {"idle", "rotate", "enqueue", "use", "put", "promote", "settle"}
      /\ \A k, j \in RewrapIds : j < k /\ rewrap'[k] # Absent => rewrap'[j] # Absent
  BY <1>1, <1>2, NoneAssumption DEF ReplacementHolds
<1> QED BY <1>3, <1>4, <1>5, <1>6 DEF ReplacementHolds

\* Files, when nothing but the job moves.
LEMMA FilesAside ==
  ASSUME FilesHold, request' = request, file' = file
  PROVE  FilesHold'
<1>1. \A f \in Files : FileHolds(f)'
  BY DEF FilesHold, FileHolds
<1>2. ASSUME NEW c \in Requests, request'[c].pc \in {"put", "promote", "settle"}
      PROVE  Uses(c, request[c].of)'
  <2>1. Uses(c, request[c].of)
    BY <1>2 DEF FilesHold
  <2> QED BY <2>1 DEF Uses, At
<1> QED BY <1>1, <1>2 DEF FilesHold

\* What is so of a worker at work.
LEMMA AtWorkFacts ==
  ASSUME KeysTyped, ReplacementHolds, NEW i \in RewrapIds, worker[i].pc # "idle"
  PROVE  /\ rewrap[i] # Absent /\ rewrap[i].job = "queued" /\ rewrap[i].attempts < MaxTries
         /\ worker[i].pc \in {"list", "copy", "save"} => rewrap[i].status = "running" /\ ~rewrap[i].done
         /\ worker[i].pc \in {"clear", "complete", "audit"} => rewrap[i].done
         /\ worker[i] \in WorkerStates /\ rewrap[i] \in RewrapRows
         /\ rewrap \in [RewrapIds -> {Absent} \cup RewrapRows]
<1>1. rewrap[i] # Absent
  BY DEF ReplacementHolds, JobHolds, Idle
<1> QED BY <1>1, RewrapFields DEF ReplacementHolds, JobHolds, KeysTyped, RewrapTypeOK, RewrapRows

\* No request waits to put in line a job that is there.
LEMMA NobodyEnqueues ==
  ASSUME ReplacementHolds, NEW i \in RewrapIds, rewrap[i].job = "queued", NEW c \in Requests, At(c, "enqueue")
  PROVE  request[c].id # i
BY DEF ReplacementHolds, JobHolds

\* A worker's record becomes the next one.
LEMMA WorkerMoves ==
  ASSUME KeysTyped, NEW i \in RewrapIds, NEW next, WorkerStep(i, next)
  PROVE  worker'[i] = next /\ UNCHANGED <<granted, request, value>>
BY DEF WorkerStep, KeysTyped

\* What the job may do without touching files or the row of the key.
LEMMA WorkAside ==
  ASSUME KeysTyped, ReplacementHolds, NEW i \in RewrapIds, NEW next \in WorkerStates, WorkerStep(i, next),
         rewrap[i] # Absent, rewrap[i].job = "queued", NEW r \in RewrapRows,
         rewrap' = [rewrap EXCEPT ![i] = r], UNCHANGED <<key, file>>,
         r.from = rewrap[i].from, r.to = rewrap[i].to, rewrap[i].done => r.done,
         r.job = "queued" => r.attempts < MaxTries,
         r.status = "completed" => r.done,
         next.pc # "idle" => r.job = "queued",
         next.pc \in {"list", "copy", "save"} => r.status = "running" /\ ~r.done,
         next.pc \in {"clear", "complete", "audit"} => r.done,
         LastRewrap(i) /\ LastHolds(i) =>
           /\ r.done => \A f \in Files : Fresh(f, r.from)
           /\ FreshTo(r.cursor, r.from)
           /\ next.pc = "list" => FreshTo(next.cursor, r.from)
           /\ next.pc \in {"copy", "save"} =>
                \A f \in Files : Quarantine(f) \notin next.page => Fresh(f, r.from)
           /\ next.pc = "save" => \A f \in Files : Quarantine(f) = Min(next.page) => Fresh(f, r.from),
         ~mixed' => ~mixed, mixed' \in BOOLEAN, inPlay' = inPlay
  PROVE  KeysTyped' /\ ReplacementHolds'
<1>1. worker'[i] = next /\ UNCHANGED <<granted, request, value>>
  BY WorkerMoves
<1>2. rewrap \in [RewrapIds -> {Absent} \cup RewrapRows]
  BY DEF KeysTyped, RewrapTypeOK, RewrapRows
<1>3. /\ rewrap' \in [RewrapIds -> {Absent} \cup RewrapRows] /\ rewrap'[i] = r
      /\ \A j \in RewrapIds : j # i => rewrap'[j] = rewrap[j]
  BY <1>2
<1>4. FilesHold' /\ file' \in [Files -> FileRows]
  BY <1>1, FilesAside DEF ReplacementHolds, KeysTyped, RewrapTypeOK, FileRows
<1>5. JobHolds(i)'
  <2>1. \A c \in Requests : ~(At(c, "enqueue")' /\ request'[c].id = i)
    BY <1>1, NobodyEnqueues DEF At
  <2>2. rewrap'[i] # Absent
    BY <1>3, RowsPresent
  <2> QED BY <1>1, <1>3, <2>1, <2>2 DEF JobHolds, At
<1>6. ASSUME LastRewrap(i), LastHolds(i) PROVE LastHolds(i)'
  <2>1. Progress(i)'
    BY <1>1, <1>3, <1>6 DEF Progress, FreshTo, Fresh
  <2> QED BY <1>3, <1>6, <2>1 DEF LastHolds
<1>7. key' \in KeyRows /\ key'.arn = key.arn /\ key'.status = "active" /\ key'.previous = key.previous
  BY ActiveKey
<1>8. rewrap'[i] \in RewrapRows /\ rewrap'[i].from = rewrap[i].from /\ (rewrap[i].done => rewrap'[i].done)
  BY <1>3
<1> QED BY <1>3, <1>4, <1>5, <1>6, <1>7, <1>8, WorkStep

\* The job is taken up where its checkpoint is.
LEMMA WorkPickup ==
  ASSUME KeysTyped, ReplacementHolds, NEW i \in RewrapIds, Pickup(i),
         ~mixed' => ~mixed, mixed' \in BOOLEAN, inPlay' = inPlay
  PROVE  KeysTyped' /\ ReplacementHolds'
<1>1. /\ rewrap[i] # Absent /\ rewrap[i].job = "queued" /\ worker[i].pc = "idle"
      /\ UNCHANGED <<key, file>>
  BY DEF Pickup
<1>2. /\ rewrap[i] \in RewrapRows /\ rewrap \in [RewrapIds -> {Absent} \cup RewrapRows] /\ JobHolds(i)
      /\ rewrap[i].status \in {"running", "completed"} /\ rewrap[i].cursor \in {0} \cup Items
  BY <1>1, RewrapFields DEF KeysTyped, RewrapTypeOK, RewrapRows, ReplacementHolds
<1>3. CASE rewrap[i].status = "completed"
  <2>1. PICK r : r = [rewrap[i] EXCEPT !.job = "none"]
    OBVIOUS
  <2>2. /\ r \in RewrapRows /\ r.from = rewrap[i].from /\ r.to = rewrap[i].to /\ r.done = rewrap[i].done
        /\ r.job = "none" /\ r.status = rewrap[i].status /\ r.cursor = rewrap[i].cursor
    BY <1>2, <2>1 DEF RewrapRows
  <2>3. /\ rewrap' = [rewrap EXCEPT ![i] = r] /\ WorkerStep(i, Idle)
        /\ Idle \in WorkerStates /\ Idle.pc = "idle"
    BY <1>2, <1>3, <2>1 DEF Pickup, WorkerStates, Idle
  <2>4. r.done
    BY <1>1, <1>2, <1>3, <2>2 DEF JobHolds
  <2> QED BY <1>1, <2>2, <2>3, <2>4, WorkAside DEF LastHolds, Progress
<1>4. CASE rewrap[i].status # "completed"
  <2>1. PICK next : next = IF rewrap[i].done THEN [pc |-> "clear"]
                           ELSE [pc |-> "list", cursor |-> rewrap[i].cursor]
    OBVIOUS
  <2>2. /\ next \in WorkerStates
        /\ \/ next.pc = "clear" /\ rewrap[i].done
           \/ next.pc = "list" /\ next.cursor = rewrap[i].cursor /\ ~rewrap[i].done
    BY <1>2, <2>1 DEF WorkerStates
  <2>3. WorkerStep(i, next) /\ rewrap' = rewrap
    BY <1>4, <2>1 DEF Pickup
  <2>4. PICK r : r = rewrap[i]
    OBVIOUS
  <2>5. rewrap' = [rewrap EXCEPT ![i] = r]
    BY <1>2, <2>3, <2>4
  <2>6. rewrap[i].attempts < MaxTries /\ rewrap[i].status = "running"
    BY <1>1, <1>2, <1>4 DEF JobHolds
  <2>7. r \in RewrapRows /\ r.job = "queued" /\ r.attempts < MaxTries /\ r.status = "running"
    BY <1>1, <1>2, <2>4, <2>6
  <2>8. LastHolds(i) =>
          /\ r.done => \A f \in Files : Fresh(f, r.from)
          /\ FreshTo(r.cursor, r.from)
          /\ next.pc = "list" => FreshTo(next.cursor, r.from)
    BY <2>2, <2>4 DEF LastHolds, Progress
  <2>9. next.pc \notin {"copy", "save", "complete", "audit"}
    BY <2>2
  <2>10. /\ r.from = rewrap[i].from /\ r.to = rewrap[i].to /\ (rewrap[i].done => r.done)
         /\ next.pc = "list" => ~r.done
         /\ next.pc = "clear" => r.done
    BY <2>2, <2>4
  <2> QED BY <1>1, <2>2, <2>3, <2>5, <2>7, <2>8, <2>9, <2>10, WorkAside
<1> QED BY <1>3, <1>4

\* The worker dies, or its last step takes the job off the queue.
LEMMA WorkKilled ==
  ASSUME KeysTyped, ReplacementHolds, NEW i \in RewrapIds, Killed(i),
         ~mixed' => ~mixed, mixed' \in BOOLEAN, inPlay' = inPlay
  PROVE  KeysTyped' /\ ReplacementHolds'
<1>1. /\ worker[i].pc # "idle" /\ WorkerStep(i, Idle) /\ UNCHANGED <<key, rewrap, file>>
      /\ Idle \in WorkerStates /\ Idle.pc = "idle"
  BY DEF Killed, WorkerStates, Idle
<1>2. PICK r : r = rewrap[i]
  OBVIOUS
<1>3. /\ rewrap[i] # Absent /\ rewrap[i].job = "queued" /\ r \in RewrapRows /\ JobHolds(i)
      /\ rewrap' = [rewrap EXCEPT ![i] = r] /\ r.attempts < MaxTries
  BY <1>1, <1>2, AtWorkFacts DEF ReplacementHolds
<1>4. r.status = "completed" => r.done
  BY <1>2, <1>3 DEF JobHolds
<1> QED BY <1>1, <1>2, <1>3, <1>4, WorkAside DEF LastHolds, Progress

\* A call fails: the row is running again, and the job in line while there
\* are attempts.
LEMMA WorkFails ==
  ASSUME KeysTyped, ReplacementHolds, NEW i \in RewrapIds, Fails(i),
         ~mixed' => ~mixed, mixed' \in BOOLEAN, inPlay' = inPlay
  PROVE  KeysTyped' /\ ReplacementHolds'
<1>1. /\ worker[i].pc # "idle" /\ WorkerStep(i, Idle) /\ UNCHANGED <<key, file>>
      /\ Idle \in WorkerStates /\ Idle.pc = "idle"
  BY DEF Fails, WorkerStates, Idle
<1>2. PICK tries : tries = rewrap[i].attempts + 1
  OBVIOUS
<1>3. PICK r : r = [rewrap[i] EXCEPT !.status = "running", !.attempts = tries,
                                     !.job = IF TriesLeft(tries) THEN "queued" ELSE "none"]
  OBVIOUS
<1>4. /\ rewrap[i] # Absent /\ rewrap[i].job = "queued" /\ rewrap[i].attempts < MaxTries
      /\ rewrap[i] \in RewrapRows
  BY <1>1, AtWorkFacts
<1>5. tries \in 0 .. MaxTries
  BY <1>2, <1>4, RewrapFields, RewrapBounds
<1>6. /\ r \in RewrapRows /\ r.from = rewrap[i].from /\ r.to = rewrap[i].to /\ r.done = rewrap[i].done
      /\ r.status = "running" /\ r.cursor = rewrap[i].cursor /\ r.attempts = tries
      /\ r.job = "queued" => TriesLeft(tries)
  BY <1>3, <1>4, <1>5 DEF RewrapRows
<1>7. r.job = "queued" => r.attempts < MaxTries
  BY <1>6 DEF TriesLeft
<1>8. rewrap' = [rewrap EXCEPT ![i] = r]
  BY <1>2, <1>3 DEF Fails
<1> QED BY <1>1, <1>4, <1>6, <1>7, <1>8, WorkAside DEF LastHolds, Progress

\* The last steps of a job that is done.
LEMMA WorkFinishes ==
  ASSUME KeysTyped, ReplacementHolds, NEW i \in RewrapIds, Complete(i) \/ Audited(i),
         ~mixed' => ~mixed, mixed' \in BOOLEAN, inPlay' = inPlay
  PROVE  KeysTyped' /\ ReplacementHolds'
<1>1. /\ worker[i].pc \in {"complete", "audit"} /\ UNCHANGED <<key, file>>
  BY DEF Complete, Audited
<1>2. /\ rewrap[i] # Absent /\ rewrap[i].job = "queued" /\ rewrap[i].attempts < MaxTries
      /\ rewrap[i] \in RewrapRows /\ rewrap[i].done
  BY <1>1, AtWorkFacts
<1>3. PICK r \in RewrapRows, next \in WorkerStates :
        /\ rewrap' = [rewrap EXCEPT ![i] = r] /\ WorkerStep(i, next)
        /\ r.from = rewrap[i].from /\ r.to = rewrap[i].to /\ r.done = rewrap[i].done
        /\ r.cursor = rewrap[i].cursor /\ r.attempts = rewrap[i].attempts
        /\ \/ next.pc = "audit" /\ r.job = "queued"
           \/ next.pc = "idle" /\ r.job = "none"
  <2>1. CASE Complete(i)
    <3> DEFINE r == [rewrap[i] EXCEPT !.status = "completed"]
               next == [pc |-> "audit"]
    <3>1. /\ r \in RewrapRows /\ next \in WorkerStates /\ next.pc = "audit"
          /\ r.from = rewrap[i].from /\ r.to = rewrap[i].to /\ r.done = rewrap[i].done
          /\ r.cursor = rewrap[i].cursor /\ r.attempts = rewrap[i].attempts /\ r.job = "queued"
      BY <1>2 DEF RewrapRows, WorkerStates
    <3>2. rewrap' = [rewrap EXCEPT ![i] = r] /\ WorkerStep(i, next)
      BY <2>1 DEF Complete
    <3> HIDE DEF r, next
    <3> QED BY <3>1, <3>2
  <2>2. CASE Audited(i)
    <3> DEFINE r == [rewrap[i] EXCEPT !.job = "none"]
    <3>1. /\ r \in RewrapRows /\ Idle \in WorkerStates /\ Idle.pc = "idle"
          /\ r.from = rewrap[i].from /\ r.to = rewrap[i].to /\ r.done = rewrap[i].done
          /\ r.cursor = rewrap[i].cursor /\ r.attempts = rewrap[i].attempts /\ r.job = "none"
      BY <1>2 DEF RewrapRows, WorkerStates, Idle
    <3>2. rewrap' = [rewrap EXCEPT ![i] = r] /\ WorkerStep(i, Idle)
      BY <2>2 DEF Audited
    <3> HIDE DEF r
    <3> QED BY <3>1, <3>2
  <2> QED BY <2>1, <2>2
<1> QED BY <1>1, <1>2, <1>3, WorkAside DEF LastHolds, Progress

\* The previous key is forgotten.
LEMMA WorkClear ==
  ASSUME KeysTyped, ReplacementHolds, NEW i \in RewrapIds, Clear(i),
         ~mixed' => ~mixed, mixed' \in BOOLEAN, inPlay' = inPlay
  PROVE  KeysTyped' /\ ReplacementHolds'
<1>1. PICK next : next = [pc |-> "complete"]
  OBVIOUS
<1>2. /\ worker[i].pc = "clear" /\ WorkerStep(i, next) /\ UNCHANGED <<rewrap, file>>
      /\ key' = [key EXCEPT !.previous = None] /\ next \in WorkerStates /\ next.pc = "complete"
  BY <1>1 DEF Clear, WorkerStates
<1>3. /\ rewrap[i] # Absent /\ rewrap[i].job = "queued" /\ rewrap[i].attempts < MaxTries /\ rewrap[i].done
      /\ rewrap'[i] \in RewrapRows /\ rewrap' \in [RewrapIds -> {Absent} \cup RewrapRows]
      /\ \A j \in RewrapIds : rewrap'[j] = rewrap[j]
  BY <1>2, AtWorkFacts
<1>4. worker'[i] = next /\ UNCHANGED <<granted, request, value>>
  BY <1>2, WorkerMoves
<1>5. /\ key' \in KeyRows /\ key'.arn = key.arn /\ key'.status = "active" /\ key'.previous = None
  BY <1>2, ActiveKey DEF KeyRows
<1>6. FilesHold' /\ file' \in [Files -> FileRows]
  BY <1>2, <1>4, FilesAside DEF ReplacementHolds, KeysTyped, RewrapTypeOK, FileRows
<1>7. JobHolds(i)'
  <2>1. JobHolds(i)
    BY DEF ReplacementHolds
  <2> QED BY <1>2, <1>3, <1>4, <2>1 DEF JobHolds, At
<1>8. LastRewrap(i) /\ LastHolds(i) => LastHolds(i)'
  BY <1>2, <1>3, <1>4, <1>5 DEF LastHolds, Progress, FreshTo, Fresh
<1> QED BY <1>2, <1>3, <1>5, <1>6, <1>7, <1>8, WorkStep

\* The items of a file are in the order of the files.
LEMMA ItemsOrdered ==
  ASSUME NEW f \in Files
  PROVE  /\ Quarantine(f) \in Items /\ Evidence(f) \in Items
         /\ FileOf(Quarantine(f)) = f /\ FileOf(Evidence(f)) = f
         /\ Quarantine(f) # Evidence(f) /\ Quarantine(f) \in Nat
<1>1. f \in Nat /\ f >= 1 /\ f <= MaxFiles /\ MaxFiles \in Nat
  BY RewrapBounds DEF Files
<1>2. /\ Quarantine(f) \in 1 .. 2 * MaxFiles /\ Evidence(f) \in 1 .. 2 * MaxFiles
      /\ Quarantine(f) # Evidence(f) /\ Quarantine(f) \in Nat
  BY <1>1 DEF Quarantine, Evidence
<1>3. (2 * f + 1) \div 2 = f
  BY <1>1
<1>4. ((2 * f - 1) + 1) \div 2 = f
  BY <1>1
<1> QED BY <1>2, <1>3, <1>4 DEF Items, FileOf, Quarantine, Evidence

\* Every item is of a file.
LEMMA ItemFile ==
  ASSUME NEW item \in Items
  PROVE  FileOf(item) \in Files
<1>1. item \in Nat /\ item >= 1 /\ item <= 2 * MaxFiles /\ MaxFiles \in Nat
  BY RewrapBounds DEF Items
<1>2. (item + 1) \div 2 \in Nat /\ (item + 1) \div 2 >= 1 /\ (item + 1) \div 2 <= MaxFiles
  BY <1>1
<1> QED BY <1>2, RewrapBounds DEF FileOf, Files

\* What the job does not find in the rows has no object under any key.
LEMMA UnlistedFresh ==
  ASSUME KeysTyped, ReplacementHolds, NEW f \in Files, Quarantine(f) \notin Listed, NEW arn \in Arns
  PROVE  Fresh(f, arn)
<1>1. file[f].row \in {"none", "disposed"}
  BY DEF Listed
<1>2. file[f].row = "none" => file[f].q = None /\ file[f].e = None
  BY DEF ReplacementHolds, FilesHold, FileHolds
<1>3. None \notin Arns
  BY NoneAssumption
<1> QED BY <1>1, <1>2, <1>3 DEF Fresh

\* A page is listed.
LEMMA WorkList ==
  ASSUME KeysTyped, ReplacementHolds, NEW i \in RewrapIds, List(i),
         ~mixed' => ~mixed, mixed' \in BOOLEAN, inPlay' = inPlay
  PROVE  KeysTyped' /\ ReplacementHolds'
<1>1. /\ worker[i].pc = "list" /\ UNCHANGED <<key, file>>
  BY DEF List
<1>2. /\ rewrap[i] # Absent /\ rewrap[i].job = "queued" /\ rewrap[i].attempts < MaxTries
      /\ rewrap[i] \in RewrapRows /\ rewrap[i].status = "running" /\ ~rewrap[i].done
      /\ rewrap[i].from \in Arns /\ rewrap[i].cursor \in {0} \cup Items
  BY <1>1, AtWorkFacts, RewrapFields
<1>3. PICK page : page = After(worker[i].cursor)
  OBVIOUS
<1>4. page \in SUBSET Items
  BY <1>3, ItemsOrdered DEF After, Listed
<1>5. worker[i].cursor \in Nat
  <2>1. worker[i].cursor \in {0} \cup Items
    BY <1>1, AtWorkFacts DEF WorkerStates, Idle
  <2> QED BY <2>1, RewrapBounds DEF Items
<1>6. ASSUME LastRewrap(i), LastHolds(i), NEW f \in Files, Quarantine(f) \notin page
      PROVE  Fresh(f, rewrap[i].from)
  <2>1. CASE Quarantine(f) \notin Listed
    BY <1>2, <2>1, UnlistedFresh
  <2>2. CASE Quarantine(f) \in Listed
    <3>1. Quarantine(f) <= worker[i].cursor
      BY <1>3, <1>5, <1>6, <2>2, ItemsOrdered DEF After
    <3> QED BY <1>1, <1>6, <3>1 DEF LastHolds, Progress, FreshTo
  <2> QED BY <2>1, <2>2
<1>7. CASE page = {}
  <2>1. PICK r, next : r = [rewrap[i] EXCEPT !.done = TRUE] /\ next = [pc |-> "clear"]
    OBVIOUS
  <2>2. rewrap' = [rewrap EXCEPT ![i] = r] /\ WorkerStep(i, next)
    BY <1>3, <1>7, <2>1 DEF List
  <2>3. /\ r \in RewrapRows /\ r.from = rewrap[i].from /\ r.to = rewrap[i].to /\ r.done
        /\ r.cursor = rewrap[i].cursor /\ r.attempts = rewrap[i].attempts /\ r.job = "queued"
        /\ next \in WorkerStates /\ next.pc = "clear"
    BY <1>2, <2>1 DEF RewrapRows, WorkerStates
  <2>4. LastRewrap(i) /\ LastHolds(i) => /\ \A f \in Files : Fresh(f, r.from)
                                         /\ FreshTo(r.cursor, r.from)
    BY <1>6, <1>7, <2>3 DEF FreshTo
  <2> QED BY <1>1, <1>2, <2>2, <2>3, <2>4, WorkAside
<1>8. CASE page # {}
  <2>1. PICK r, next : r = rewrap[i] /\ next = [pc |-> "copy", page |-> page]
    OBVIOUS
  <2>2. rewrap' = [rewrap EXCEPT ![i] = r] /\ WorkerStep(i, next)
    BY <1>2, <1>3, <1>8, <2>1, RewrapFields DEF List, KeysTyped, RewrapTypeOK
  <2>3. next \in WorkerStates /\ next.pc = "copy" /\ next.page = page
    BY <1>4, <1>8, <2>1 DEF WorkerStates
  <2>4. LastRewrap(i) /\ LastHolds(i) =>
          /\ FreshTo(r.cursor, r.from)
          /\ \A f \in Files : Quarantine(f) \notin next.page => Fresh(f, r.from)
    BY <1>6, <2>1, <2>3 DEF LastHolds, Progress
  <2> QED BY <1>1, <1>2, <2>1, <2>2, <2>3, <2>4, WorkAside
<1> QED BY <1>7, <1>8

\* A set of numbers that is not empty has a least one.
LEMMA LeastOf ==
  ASSUME NEW S \in SUBSET Nat, S # {}
  PROVE  Min(S) \in S /\ \A k \in S : Min(S) <= k
<1> DEFINE R == {ss \in Nat \X Nat : ss[1] < ss[2]}
<1>1. IsWellFoundedOn(R, Nat)
  BY NatLessThanWellFounded DEF OpToRel
<1>2. PICK x \in S : \A y \in S : <<y, x>> \notin R
  <2> HIDE DEF R
  <2> QED BY <1>1, WFMin
<1>3. \A y \in S : ~(y < x)
  BY <1>2
<1>4. \A y \in S : x <= y
  BY <1>3
<1> QED BY <1>4 DEF Min

\* The next item of a page.
LEMMA NextItem ==
  ASSUME KeysTyped, NEW i \in RewrapIds, worker[i].pc \in {"copy", "save"}
  PROVE  /\ worker[i].page \in (SUBSET Items) \ {{}}
         /\ Min(worker[i].page) \in worker[i].page /\ Min(worker[i].page) \in Items
         /\ Min(worker[i].page) \in Nat
         /\ \A f \in Files : Quarantine(f) < Min(worker[i].page) => Quarantine(f) \notin worker[i].page
<1>1. worker[i].page \in (SUBSET Items) \ {{}}
  BY DEF KeysTyped, WorkerStates, Idle
<1>2. worker[i].page \in SUBSET Nat
  BY <1>1, RewrapBounds DEF Items
<1>3. /\ Min(worker[i].page) \in worker[i].page
      /\ \A k \in worker[i].page : Min(worker[i].page) <= k
  BY <1>1, <1>2, LeastOf
<1>4. \A f \in Files : Quarantine(f) \in Nat
  BY ItemsOrdered
<1> QED BY <1>1, <1>2, <1>3, <1>4

\* The checkpoint after an item.
LEMMA WorkSave ==
  ASSUME KeysTyped, ReplacementHolds, NEW i \in RewrapIds, Save(i),
         ~mixed' => ~mixed, mixed' \in BOOLEAN, inPlay' = inPlay
  PROVE  KeysTyped' /\ ReplacementHolds'
<1>1. worker[i].pc = "save" /\ UNCHANGED <<key, file>>
  BY DEF Save
<1>2. /\ rewrap[i] # Absent /\ rewrap[i].job = "queued" /\ rewrap[i].attempts < MaxTries
      /\ rewrap[i] \in RewrapRows /\ rewrap[i].status = "running" /\ ~rewrap[i].done
  BY <1>1, AtWorkFacts
<1>3. PICK item, rest : item = Min(worker[i].page) /\ rest = worker[i].page \ {item}
  OBVIOUS
<1>4. /\ item \in worker[i].page /\ item \in Items /\ item \in Nat /\ rest \in SUBSET Items
      /\ \A f \in Files : Quarantine(f) < item => Quarantine(f) \notin worker[i].page
  BY <1>1, <1>3, NextItem
<1>5. PICK next : next = IF rest = {} THEN [pc |-> "list", cursor |-> item] ELSE [pc |-> "copy", page |-> rest]
  OBVIOUS
<1>6. PICK r : r = [rewrap[i] EXCEPT !.cursor = item]
  OBVIOUS
<1>7. rewrap' = [rewrap EXCEPT ![i] = r] /\ WorkerStep(i, next)
  BY <1>3, <1>5, <1>6 DEF Save, Checkpoint
<1>8. /\ r \in RewrapRows /\ r.from = rewrap[i].from /\ r.to = rewrap[i].to /\ ~r.done
      /\ r.status = "running" /\ r.cursor = item /\ r.attempts = rewrap[i].attempts /\ r.job = "queued"
  BY <1>2, <1>4, <1>6 DEF RewrapRows
<1>9. /\ next \in WorkerStates
      /\ \/ next.pc = "list" /\ next.cursor = item
         \/ next.pc = "copy" /\ next.page = rest
  BY <1>4, <1>5 DEF WorkerStates
<1>10. ASSUME LastRewrap(i), LastHolds(i)
       PROVE  /\ FreshTo(item, r.from)
              /\ \A f \in Files : Quarantine(f) \notin rest => Fresh(f, r.from)
  <2>1. /\ \A f \in Files : Quarantine(f) \notin worker[i].page => Fresh(f, r.from)
        /\ \A f \in Files : Quarantine(f) = item => Fresh(f, r.from)
    BY <1>1, <1>3, <1>8, <1>10 DEF LastHolds, Progress
  <2>2. \A f \in Files : Quarantine(f) <= item => Quarantine(f) = item \/ Quarantine(f) \notin worker[i].page
    BY <1>4, ItemsOrdered
  <2>3. \A f \in Files : Quarantine(f) \notin rest => Quarantine(f) = item \/ Quarantine(f) \notin worker[i].page
    BY <1>3
  <2> QED BY <2>1, <2>2, <2>3 DEF FreshTo
<1> QED BY <1>1, <1>2, <1>7, <1>8, <1>9, <1>10, WorkAside

\* An object is copied under the new key.
LEMMA WorkCopy ==
  ASSUME KeysTyped, ReplacementHolds, NEW i \in RewrapIds, Copy(i),
         ~mixed' => ~mixed, mixed' \in BOOLEAN, inPlay' = inPlay
  PROVE  KeysTyped' /\ ReplacementHolds'
<1>1. worker[i].pc = "copy" /\ UNCHANGED <<key, rewrap>>
  BY DEF Copy
<1>2. /\ rewrap[i] # Absent /\ rewrap[i].job = "queued" /\ rewrap[i].attempts < MaxTries
      /\ rewrap[i] \in RewrapRows /\ rewrap[i].status = "running" /\ ~rewrap[i].done
      /\ rewrap \in [RewrapIds -> {Absent} \cup RewrapRows]
      /\ rewrap[i].from \in Arns /\ rewrap[i].to \in Arns /\ worker[i] \in WorkerStates
  BY <1>1, AtWorkFacts, RewrapFields
<1>3. PICK item : item = Min(worker[i].page)
  OBVIOUS
<1>4. PICK f : f = FileOf(item)
  OBVIOUS
<1>5. /\ item \in worker[i].page /\ item \in Items /\ f \in Files
      /\ worker[i].page \in (SUBSET Items) \ {{}}
  BY <1>1, <1>3, <1>4, NextItem, ItemFile
<1>6. /\ file[f] \in FileRows /\ FileHolds(f) /\ file \in [Files -> FileRows] /\ None \notin Arns
  BY <1>5, FileFields, NoneAssumption DEF ReplacementHolds, FilesHold
<1>7. Slot(item) \in {"e", "q"} /\ (\A g \in Files : item = Quarantine(g) => g = f /\ Slot(item) = "q")
  BY <1>4, ItemsOrdered DEF Slot
<1>8. PICK now : now = [file[f] EXCEPT ![Slot(item)] = rewrap[i].to]
  OBVIOUS
<1>9. file[f][Slot(item)] # None /\ file' = [file EXCEPT ![f] = now]
  BY <1>3, <1>4, <1>8 DEF Copy
<1>10. /\ now \in FileRows /\ now.row = file[f].row
       /\ now.q = None <=> file[f].q = None
       /\ now.e = None <=> file[f].e = None
       /\ now.q \in {file[f].q, rewrap[i].to} /\ now.e \in {file[f].e, rewrap[i].to}
       /\ Slot(item) = "q" => now.q = rewrap[i].to /\ file[f].q # None
  <2>1. CASE Slot(item) = "q"
    <3>1. file[f].q # None
      BY <1>9, <2>1
    <3> QED BY <1>2, <1>6, <1>8, <2>1, <3>1 DEF FileRows, Stored
  <2>2. CASE Slot(item) = "e"
    <3>1. file[f].e # None
      BY <1>9, <2>2
    <3> QED BY <1>2, <1>6, <1>8, <2>2, <3>1 DEF FileRows, Stored
  <2> QED BY <1>7, <2>1, <2>2
<1>11. /\ file' \in [Files -> FileRows] /\ file'[f] = now /\ \A g \in Files \ {f} : file'[g] = file[g]
  BY <1>5, <1>6, <1>9, <1>10
<1>12. PICK next : next = [worker[i] EXCEPT !.pc = "save"]
  OBVIOUS
<1>13. WorkerStep(i, next)
  BY <1>12 DEF Copy
<1>14. next \in WorkerStates /\ next.pc = "save" /\ next.page = worker[i].page
  BY <1>1, <1>2, <1>12 DEF WorkerStates, Idle
<1>15. worker'[i] = next /\ UNCHANGED <<granted, request, value>>
  BY <1>13, WorkerMoves
<1>16. FilesHold'
  <2>1. FileHolds(f)'
    BY <1>6, <1>10, <1>11 DEF FileHolds
  <2>2. ASSUME NEW d \in Requests, request[d].pc \in {"put", "promote", "settle"}, request[d].of = f
        PROVE  Uses(d, f)'
    <3>1. Uses(d, f)
      BY <2>2 DEF ReplacementHolds, FilesHold
    <3> QED BY <1>10, <1>11, <1>15, <3>1 DEF Uses, At
  <2>3. request' \in [Requests -> RequestStates] /\ FilesHold
    BY <1>15 DEF KeysTyped, ReplacementHolds
  <2> QED BY <1>5, <1>11, <1>15, <2>1, <2>2, <2>3, FilesChange
<1>17. JobHolds(i)'
  <2>1. JobHolds(i)
    BY DEF ReplacementHolds
  <2> QED BY <1>1, <1>2, <1>14, <1>15, <2>1 DEF JobHolds, At
<1>18. ASSUME LastRewrap(i), LastHolds(i) PROVE LastHolds(i)'
  <2>1. rewrap[i].to # rewrap[i].from
    BY <1>18 DEF LastHolds
  <2>2. \A g \in Files : Fresh(g, rewrap[i].from) => Fresh(g, rewrap[i].from)'
    BY <1>1, <1>10, <1>11, <2>1 DEF Fresh
  <2>3. ASSUME NEW g \in Files, Quarantine(g) = Min(next.page) PROVE Fresh(g, rewrap[i].from)'
    <3>1. g = f /\ Slot(item) = "q"
      BY <1>3, <1>7, <1>14, <2>3
    <3>2. now.q = rewrap[i].to /\ now.e = None
      BY <1>6, <1>10, <3>1 DEF FileHolds
    <3> QED BY <1>1, <1>2, <1>6, <1>11, <2>1, <3>1, <3>2 DEF Fresh
  <2>4. \A g \in Files : Quarantine(g) \notin next.page => Fresh(g, rewrap[i].from)
    BY <1>1, <1>14, <1>18 DEF LastHolds, Progress
  <2>5. FreshTo(rewrap[i].cursor, rewrap[i].from)
    BY <1>18 DEF LastHolds, Progress
  <2>6. Progress(i)'
    BY <1>1, <1>2, <1>14, <1>15, <2>2, <2>3, <2>4, <2>5 DEF Progress, FreshTo
  <2> QED BY <1>1, <1>18, <2>6 DEF LastHolds
<1>19. /\ key' \in KeyRows /\ key'.arn = key.arn /\ key'.status = "active" /\ key'.previous = key.previous
  BY <1>1, ActiveKey
<1>20. /\ rewrap'[i] \in RewrapRows /\ rewrap' \in [RewrapIds -> {Absent} \cup RewrapRows]
       /\ rewrap'[i].from = rewrap[i].from /\ (rewrap[i].done => rewrap'[i].done)
       /\ \A j \in RewrapIds : j # i => rewrap'[j] = rewrap[j]
  BY <1>1, <1>2
<1> QED BY <1>2, <1>11, <1>13, <1>14, <1>16, <1>17, <1>18, <1>19, <1>20, WorkStep

---------------------------------------------------------------------------
(* The invariant, and what follows from it.                                *)

\* Initially there is no key and nothing else, or a key and nothing else.
LEMMA KeysInitHolds ==
  ASSUME KeysInit
  PROVE  KeysInv
<1>1. /\ rewrap = [i \in RewrapIds |-> Absent] /\ worker = [i \in RewrapIds |-> Idle]
      /\ file = [f \in Files |-> NoFile] /\ value = [v \in Values |-> None]
      /\ request = [c \in Requests |-> Idle] /\ granted = Arns /\ mixed = FALSE /\ word = "on"
      /\ inPlay \in {"standing", "replacement"} /\ RewrapsInit
  BY DEF KeysInit, KeyInit, RewrapInit, RewrapsInit
<1>2. /\ inPlay = "standing" => key = None
      /\ inPlay = "replacement" => /\ key \in KeyRows /\ key # None /\ key.status = "active"
                                   /\ key.previous = None
  BY NoneAssumption DEF KeysInit, KeyInit, RewrapInit, KeyRows, Status
<1>3. Busy = {} /\ IsFiniteSet(Busy)
  <2>1. Busy = {}
    BY <1>1 DEF Busy, Idle
  <2> QED BY <2>1, FS_EmptySet
<1>4. KeysTyped
  <2>1. KeyTypeOK
    BY <1>1, <1>2 DEF KeyTypeOK, Idle
  <2>2. RewrapTypeOK
    BY <1>1, <2>1 DEF RewrapTypeOK, Stored, NoFile, Idle
  <2>3. request \in [Requests -> RequestStates] /\ worker \in [RewrapIds -> WorkerStates]
    BY <1>1 DEF RequestStates, WorkerStates
  <2> QED BY <1>1, <1>3, <2>2, <2>3 DEF KeysTyped
<1>5. StandingHolds
  BY <1>1 DEF StandingHolds, Idle
<1>6. ASSUME inPlay = "replacement" PROVE ReplacementHolds
  <2>1. FilesHold
    BY <1>1 DEF FilesHold, FileHolds, NoFile, Idle
  <2>2. \A i \in RewrapIds : JobHolds(i)
    BY <1>1 DEF JobHolds, At, Idle
  <2>3. SerialHolds
    BY <1>1, <1>2, <1>6 DEF SerialHolds, LastRewrap, InUseHolds, ValueOpens, At, Idle
  <2> QED BY <1>1, <1>2, <1>6, <2>1, <2>2, <2>3 DEF ReplacementHolds, Idle
<1> QED BY <1>1, <1>4, <1>5, <1>6 DEF KeysInv

\* A step about the standing of the key.
LEMMA StandingStep ==
  ASSUME KeysTyped, StandingHolds, Standing, inPlay' = inPlay
  PROVE  KeysTyped' /\ StandingHolds'
<1>1. StandingNext /\ Hears /\ UNCHANGED <<rewrapVars, mixed, inPlay>>
  BY DEF Standing
<1> QED BY <1>1, StandingActor, StandingSwitch, StandingMove

\* A step of a replacement.
LEMMA ReplacementStep ==
  ASSUME KeysTyped, ReplacementHolds, Replacement, inPlay' = inPlay
  PROVE  KeysTyped' /\ ReplacementHolds'
<1>1. /\ RewrapNext
      /\ mixed' = (mixed \/ (Replaces /\ (Cardinality(Busy) > 1 \/ Unfinished # {})))
  BY DEF Replacement
<1>2. (~mixed' => ~mixed) /\ mixed' \in BOOLEAN
  BY <1>1, Zenon
<1>3. CASE \E c \in Requests, i \in RewrapIds : Replace(c, i)
  BY <1>1, <1>3, ReplacementCommit
<1>4. CASE \E c \in Requests :
         \/ (\E arn \in Arns : RotateCheck(c, arn)) /\ UNCHANGED rewrapVars
         \/ OpenScope(c) /\ UNCHANGED rewrapVars
         \/ \E v \in Values : Store(c, v)
         \/ Abort(c) /\ UNCHANGED rewrapVars
  BY <1>2, <1>4, ReplacementQuiet
<1>5. CASE \E c \in Requests : Enqueue(c)
  BY <1>2, <1>5, ReplacementEnqueue
<1>6. CASE \E c \in Requests, f \in Files : RequestUpload(c, f) \/ PromoteRead(c, f)
  BY <1>2, <1>6, ReplacementUpload, ReplacementPromote
<1>7. CASE \E c \in Requests : Put(c) \/ PromoteCopy(c) \/ PromoteSettle(c)
  BY <1>2, <1>7, ReplacementPut, ReplacementMoved, ReplacementSettle
<1>8. CASE \E f \in Files : Reject(f) \/ Dispose(f)
  BY <1>2, <1>8, ReplacementRemoval
<1>9. CASE \E i \in RewrapIds : Pickup(i) \/ List(i) \/ Copy(i) \/ Save(i)
  BY <1>2, <1>9, WorkPickup, WorkList, WorkCopy, WorkSave
<1>10. CASE \E i \in RewrapIds : Clear(i) \/ Complete(i) \/ Audited(i) \/ Fails(i) \/ Killed(i)
  BY <1>2, <1>10, WorkClear, WorkFinishes, WorkFails, WorkKilled
<1> QED BY <1>1, <1>3, <1>4, <1>5, <1>6, <1>7, <1>8, <1>9, <1>10 DEF RewrapNext, Works

\* Every step, and a step that changes nothing.
LEMMA KeysStep ==
  ASSUME KeysInv, [KeysNext]_everything
  PROVE  KeysInv'
<1>1. inPlay' = inPlay /\ KeysTyped
  BY DEF KeysInv, KeysNext, everything
<1>2. CASE Standing
  <2>1. inPlay = "standing"
    BY <1>2 DEF Standing
  <2>2. KeysTyped' /\ StandingHolds'
    BY <1>1, <1>2, <2>1, StandingStep DEF KeysInv
  <2> QED BY <1>1, <2>1, <2>2 DEF KeysInv
<1>3. CASE Replacement
  <2>1. inPlay = "replacement"
    BY <1>3 DEF Replacement
  <2>2. KeysTyped' /\ ReplacementHolds'
    BY <1>1, <1>3, <2>1, ReplacementStep DEF KeysInv
  <2>3. word' = "on"
    BY <1>3, <2>1 DEF KeysInv, Replacement, standing
  <2> QED BY <1>1, <2>1, <2>2, <2>3 DEF KeysInv
<1>4. CASE UNCHANGED everything
  <2>1. /\ UNCHANGED <<key, granted, request, rewrap, worker, file, value, mixed, inPlay>>
        /\ UNCHANGED <<word, older, overruled>>
        /\ Busy' = Busy
    BY <1>4 DEF everything, vars, keyVars, rewrapVars, standing, Busy
  <2>2. KeysTyped'
    BY <1>1, <2>1 DEF KeysTyped, RewrapTypeOK, KeyTypeOK, Stored, RewrapIds, Files, Items
  <2>3. StandingHolds => StandingHolds'
    BY <2>1 DEF StandingHolds, RewrapsInit
  <2>4. ASSUME ReplacementHolds PROVE ReplacementHolds'
    <3>1. FilesHold'
      BY <2>1, <2>4, FilesAside DEF ReplacementHolds
    <3>2. \A i \in RewrapIds : JobHolds(i)'
      BY <2>1, <2>4 DEF ReplacementHolds, JobHolds, At
    <3>3. ASSUME SerialHolds PROVE SerialHolds'
      <4>1. \A f \in Files, arn \in Arns \ {key.arn} : Fresh(f, arn) => Fresh(f, arn)'
        BY <2>1 DEF Fresh
      <4>2. \A d \in Requests : InUseHolds(d)'
        BY <2>1, <3>3 DEF SerialHolds, InUseHolds, At
      <4>3. /\ \A v \in Values : value'[v] \in {value[v], key.arn}
            /\ \A d \in Requests : At(d, "enqueue")' => request'[d] = request[d]
        BY <2>1
      <4> QED BY <1>1, <2>1, <2>4, <3>3, <4>1, <4>2, <4>3, SerialStep
    <3> QED BY <2>1, <2>4, <3>1, <3>2, <3>3 DEF ReplacementHolds
  <2> QED BY <2>1, <2>2, <2>3, <2>4 DEF KeysInv
<1> QED BY <1>2, <1>3, <1>4 DEF KeysNext

\* The invariant says what a re-wrap promises.
LEMMA InvImpliesRewrapHolds ==
  ASSUME KeysInv
  PROVE  SerialRewrapHolds
<1>1. RewrapTypeOK /\ inPlay \in {"standing", "replacement"}
  BY DEF KeysInv, KeysTyped
<1>2. CASE inPlay = "standing"
  <2>1. /\ \A i \in RewrapIds : rewrap[i] = Absent
        /\ \A v \in Values : value[v] = None
    BY <1>2 DEF KeysInv, StandingHolds, RewrapsInit
  <2> QED BY <1>1, <2>1 DEF SerialRewrapHolds, StillOpens, DoneMeansNew, Runs
<1>3. CASE inPlay = "replacement"
  <2> SUFFICES ASSUME ~mixed PROVE StillOpens /\ DoneMeansNew
    BY <1>1 DEF SerialRewrapHolds
  <2>1. SerialHolds
    BY <1>3 DEF KeysInv, ReplacementHolds
  <2>2. ASSUME NEW i \in RewrapIds, Runs(i)
        PROVE  key.arn = rewrap[i].to /\ key.previous = rewrap[i].from
    <3>1. LastRewrap(i)
      BY <2>1, <2>2 DEF Runs, SerialHolds, OverHolds
    <3> QED BY <2>1, <2>2, <3>1 DEF Runs, SerialHolds, LastHolds
  <2>3. StillOpens
    BY <2>1, <2>2 DEF StillOpens, SerialHolds, ValueOpens
  <2>4. DoneMeansNew
    <3> SUFFICES ASSUME NEW i \in RewrapIds, LastRewrap(i), rewrap[i].done, NEW f \in Files,
                        file[f].row # "disposed"
                 PROVE  rewrap[i].from \notin {file[f].q, file[f].e}
      BY DEF DoneMeansNew, LastRewrap
    <3>1. Fresh(f, rewrap[i].from)
      BY <2>1 DEF SerialHolds, LastHolds, Progress
    <3> QED BY <3>1 DEF Fresh
  <2> QED BY <2>3, <2>4
<1> QED BY <1>1, <1>2, <1>3

\* The invariant holds of every behaviour.
LEMMA KeysInvariance == KeysSpec => []KeysInv
<1>1. KeysInit => KeysInv
  BY KeysInitHolds
<1>2. KeysInv /\ [KeysNext]_everything => KeysInv'
  BY KeysStep
<1> QED BY <1>1, <1>2, PTL DEF KeysSpec

\* Ciphertext opens until the job has finished, the job copies to the
\* organisation's key, and when it is done no object is under the old one.
THEOREM RewrapAlwaysHolds == KeysSpec => []SerialRewrapHolds
<1>1. KeysInv => SerialRewrapHolds
  BY InvImpliesRewrapHolds
<1> QED BY <1>1, KeysInvariance, PTL

\* Until the row says something else than people do, nothing that began since
\* they switched the key off turns it on.
THEOREM AlwaysStandsDown == KeysSpec => StandsDown
<1>1. ASSUME KeysInv, [KeysNext]_everything
      PROVE  [word # "on" /\ ~overruled /\ key' # key /\ key'.status = "active"
                => \/ Spoken
                   \/ \E c \in older : request'[c] # request[c]]_everything
  <2>1. CASE KeysNext
    BY <1>1, <2>1, OnlyAskedFor
  <2>2. CASE UNCHANGED everything
    BY <2>2
  <2> QED BY <1>1, <2>1, <2>2
<1> QED BY <1>1, KeysInvariance, PTL DEF KeysSpec, StandsDown

---------------------------------------------------------------------------
(* Webhook deliveries.                                                     *)

RowRecords == [status : {"none", "pending", "delivered", "failed"}, attempts : 0 .. MaxAttempts]
JobRecords == [at : {"none", "queued", "active", "finished"}, tries : 0 .. MaxAttempts]
CallStates == {Free} \cup [pc : {"insert", "reset", "look", "remove", "add"}, d : Deliveries]
RunStates ==
  {Free} \cup [pc : {"row", "endpoint", "post", "settle", "finish", "throw"}, d : Deliveries,
               attempts : 0 .. MaxAttempts, outcome : Outcomes, lost : BOOLEAN]

(* The receiver has taken the copy and the row is not yet written.         *)
Sends(w) == run[w].pc = "settle" /\ run[w].outcome = "accepted"

RowHolds(d) ==
  /\ Pending(d) => row[d].attempts < MaxAttempts
  /\ row[d].status = "delivered" => copies[d] > 0
  /\ job[d].at \in {"queued", "active"} => job[d].tries < MaxAttempts

(* A job has one worker that holds its lock.                               *)
RunHolds(w) ==
  /\ run[w].pc # "idle" /\ ~run[w].lost =>
       /\ job[run[w].d].at = "active"
       /\ \A x \in Workers \ {w} : run[x].pc # "idle" /\ ~run[x].lost => run[x].d # run[w].d
  /\ Sends(w) => copies[run[w].d] > 0

(* While nothing fails: a row is inserted once, a worker past it works on  *)
(* a pending row, and one more copy was asked for than was taken.          *)
CallFaultless(c) ==
  /\ CallAt(c, "insert") =>
       /\ c \in Calls /\ row[call[c].d] = NoRow
       /\ \A b \in Calls \ {c} : CallAt(b, "insert") => call[b].d # call[c].d
  /\ CallAt(c, "reset") => row[call[c].d] # NoRow
RunFaultless(w) ==
  /\ run[w].pc # "idle" => ~run[w].lost
  /\ run[w].pc \in {"endpoint", "post", "settle"} => Pending(run[w].d)
CopiesFaultless(d) ==
  /\ copies[d] <= asked[d]
  /\ Pending(d) /\ (\A w \in Workers : Sends(w) => run[w].d # d) => copies[d] < asked[d]
Faultless ==
  /\ \A c \in Callers : CallFaultless(c)
  /\ \A w \in Workers : RunFaultless(w)
  /\ \A d \in Deliveries : CopiesFaultless(d)

WebhooksInv ==
  /\ TypeOK /\ asked \in [Deliveries -> Nat]
  /\ \A d \in Deliveries : RowHolds(d)
  /\ \A w \in Workers : RunHolds(w)
  /\ faults = 0 => Faultless

(* What a step adds to the copies asked for.                               *)
AskedStep ==
  /\ asked' \in [Deliveries -> Nat]
  /\ \A d \in Deliveries : asked'[d] >= asked[d] /\ (Asks(d) => asked'[d] = asked[d] + 1)

---------------------------------------------------------------------------
\* What the variables hold.
LEMMA WebhooksTyped ==
  ASSUME TypeOK
  PROVE  /\ row \in [Deliveries -> RowRecords] /\ job \in [Deliveries -> JobRecords]
         /\ call \in [Callers -> CallStates] /\ run \in [Workers -> RunStates]
         /\ copies \in [Deliveries -> Nat] /\ faults \in Nat
BY WebhookBounds DEF TypeOK, RowRecords, JobRecords, CallStates, RunStates

\* A delivery's row and job.
LEMMA DeliveryFields ==
  ASSUME TypeOK, NEW d \in Deliveries
  PROVE  /\ row[d] \in RowRecords /\ row[d].attempts \in Nat /\ row[d].attempts <= MaxAttempts
         /\ row[d].status \in {"none", "pending", "delivered", "failed"}
         /\ job[d] \in JobRecords /\ job[d].tries \in Nat /\ job[d].tries <= MaxAttempts
         /\ job[d].at \in {"none", "queued", "active", "finished"}
         /\ copies[d] \in Nat
<1>1. row[d] \in RowRecords /\ job[d] \in JobRecords /\ copies[d] \in Nat
  BY WebhooksTyped
<1> QED BY <1>1, WebhookBounds DEF RowRecords, JobRecords

\* A worker's record.
LEMMA RunFields ==
  ASSUME NEW r \in RunStates
  PROVE  /\ r.pc = "idle" <=> r = Free
         /\ r.pc # "idle" => /\ r.d \in Deliveries /\ r.attempts \in Nat /\ r.attempts <= MaxAttempts
                             /\ r.outcome \in Outcomes /\ r.lost \in BOOLEAN
                             /\ r \in [pc : {"row", "endpoint", "post", "settle", "finish", "throw"}, d : Deliveries,
                                       attempts : 0 .. MaxAttempts, outcome : Outcomes, lost : BOOLEAN]
BY WebhookBounds DEF RunStates, Free

\* A caller's record.
LEMMA CallFields ==
  ASSUME NEW r \in CallStates
  PROVE  /\ r.pc = "idle" <=> r = Free
         /\ r.pc # "idle" => r.d \in Deliveries
         /\ r.pc \in {"idle", "insert", "reset", "look", "remove", "add"}
BY DEF CallStates, Free

\* The types of the next state.
LEMMA WebhooksTypedNext ==
  ASSUME TypeOK, open' \in BOOLEAN, row' \in [Deliveries -> RowRecords], job' \in [Deliveries -> JobRecords],
         \A d \in stale' : d \in Deliveries /\ row'[d].status = "pending",
         call' \in [Callers -> CallStates], todo' \subseteq Deliveries, run' \in [Workers -> RunStates],
         copies' \in [Deliveries -> Nat], faults' \in 0 .. MaxFaults
  PROVE  TypeOK'
BY DEF TypeOK, RowRecords, JobRecords, CallStates, RunStates

\* A run that goes on, by itself, and perhaps a copy taken.
LEMMA RunGoesOn ==
  ASSUME WebhooksInv, AskedStep, NEW w \in Workers, NEW r \in RunStates, run[w].pc # "idle",
         run' = [run EXCEPT ![w] = r], UNCHANGED <<open, row, stale, job, call, todo>>,
         NEW d \in Deliveries, d = run[w].d, NEW n \in {0, 1},
         copies' = [copies EXCEPT ![d] = copies[d] + n],
         r.pc # "idle" => r.d = d /\ (run[w].lost => r.lost),
         r.pc = "settle" /\ r.outcome = "accepted" => copies[d] + n > 0,
         faults' \in 0 .. MaxFaults, faults' = 0 => faults = 0,
         faults' = 0 =>
           /\ r.pc # "idle" => ~r.lost
           /\ r.pc \in {"endpoint", "post", "settle"} => Pending(d)
           /\ \/ n = 0 /\ ~Sends(w)
              \/ n = 1 /\ run[w].pc = "post" /\ r.pc = "settle" /\ r.outcome = "accepted"
  PROVE  WebhooksInv'
<1>1. /\ TypeOK /\ asked \in [Deliveries -> Nat] /\ run \in [Workers -> RunStates] /\ copies \in [Deliveries -> Nat]
      /\ row \in [Deliveries -> RowRecords]
  BY WebhooksTyped DEF WebhooksInv
<1>2. /\ run' \in [Workers -> RunStates] /\ run'[w] = r
      /\ \A x \in Workers : x # w => run'[x] = run[x]
  BY <1>1
<1>3. /\ copies' \in [Deliveries -> Nat] /\ copies'[d] = copies[d] + n
      /\ \A b \in Deliveries : b # d => copies'[b] = copies[b]
      /\ \A b \in Deliveries : copies'[b] >= copies[b] /\ copies[b] \in Nat
  BY <1>1
<1>4. TypeOK'
  <2>1. /\ job' \in [Deliveries -> JobRecords] /\ call' \in [Callers -> CallStates] /\ todo' \subseteq Deliveries
        /\ open' \in BOOLEAN /\ row' \in [Deliveries -> RowRecords]
        /\ \A b \in stale' : b \in Deliveries /\ row'[b].status = "pending"
    BY <1>1, WebhooksTyped DEF TypeOK
  <2> QED BY <1>1, <1>2, <1>3, <2>1, WebhooksTypedNext
<1>5. \A b \in Deliveries : RowHolds(b)'
  BY <1>3 DEF WebhooksInv, RowHolds, Pending
<1>6. ASSUME NEW x \in Workers PROVE RunHolds(x)'
  <2>1. RunHolds(x) /\ RunHolds(w)
    BY DEF WebhooksInv
  <2>2. CASE x = w
    BY <1>2, <1>3, <2>1, <2>2 DEF RunHolds, Sends
  <2>3. CASE x # w
    <3>1. run[x] \in RunStates
      BY <1>1
    <3>2. Sends(x)' => copies'[run'[x].d] > 0
      BY <1>2, <1>3, <2>1, <2>3, <3>1, RunFields DEF RunHolds, Sends
    <3> QED BY <1>2, <2>1, <2>3, <3>2 DEF RunHolds
  <2> QED BY <2>2, <2>3
<1>7. ASSUME faults' = 0 PROVE Faultless'
  <2>1. Faultless
    BY <1>7 DEF WebhooksInv
  <2>2. \A c \in Callers : CallFaultless(c)'
    BY <2>1 DEF Faultless, CallFaultless, CallAt
  <2>3. \A x \in Workers : RunFaultless(x)'
    BY <1>2, <1>7, <2>1 DEF Faultless, RunFaultless, Pending
  <2>4. ASSUME NEW b \in Deliveries, b # d PROVE CopiesFaultless(b)'
    <3>1. copies'[b] = copies[b] /\ asked'[b] >= asked[b] /\ asked[b] \in Nat /\ asked'[b] \in Nat /\ copies[b] \in Nat
      BY <1>1, <1>3, <2>4 DEF AskedStep
    <3>2. (\A x \in Workers : Sends(x)' => run'[x].d # b) => (\A x \in Workers : Sends(x) => run[x].d # b)
      BY <1>2, <2>4 DEF Sends
    <3> QED BY <2>1, <3>1, <3>2 DEF Faultless, CopiesFaultless, Pending
  <2>5. CopiesFaultless(d)'
    <3>1. /\ asked'[d] >= asked[d] /\ asked[d] \in Nat /\ asked'[d] \in Nat /\ copies[d] \in Nat
          /\ copies'[d] = copies[d] + n /\ CopiesFaultless(d)
      BY <1>1, <1>3, <2>1 DEF AskedStep, Faultless
    <3>2. CASE n = 0 /\ ~Sends(w)
      <4>1. (\A x \in Workers : Sends(x)' => run'[x].d # d) => (\A x \in Workers : Sends(x) => run[x].d # d)
        BY <1>2, <3>2 DEF Sends
      <4> QED BY <3>1, <3>2, <4>1 DEF CopiesFaultless, Pending
    <3>3. CASE n = 1 /\ run[w].pc = "post" /\ r.pc = "settle" /\ r.outcome = "accepted"
      <4>1. Sends(w)' /\ run'[w].d = d
        BY <1>2, <3>3 DEF Sends
      <4>2. Pending(d)
        BY <2>1, <3>3 DEF Faultless, RunFaultless
      <4>3. ASSUME NEW x \in Workers, Sends(x) PROVE run[x].d # d
        <5>1. x # w /\ run[x].pc # "idle" /\ ~run[x].lost /\ ~run[w].lost
          BY <2>1, <3>3, <4>3 DEF Sends, Faultless, RunFaultless
        <5> QED BY <5>1 DEF WebhooksInv, RunHolds
      <4> QED BY <3>1, <3>3, <4>1, <4>2, <4>3 DEF CopiesFaultless
    <3> QED BY <1>7, <3>2, <3>3
  <2> QED BY <2>2, <2>3, <2>4, <2>5 DEF Faultless
<1> QED BY <1>1, <1>4, <1>5, <1>6, <1>7 DEF WebhooksInv, AskedStep

\* A run at work, and what it has in hand.
LEMMA RunFacts ==
  ASSUME WebhooksInv, NEW w \in Workers, run[w].pc # "idle"
  PROVE  /\ run[w] \in RunStates /\ run[w].d \in Deliveries /\ run[w] # Free
         /\ run[w].attempts \in Nat /\ run[w].attempts <= MaxAttempts
         /\ run[w].outcome \in Outcomes /\ run[w].lost \in BOOLEAN
         /\ run[w] \in [pc : {"row", "endpoint", "post", "settle", "finish", "throw"}, d : Deliveries,
                        attempts : 0 .. MaxAttempts, outcome : Outcomes, lost : BOOLEAN]
         /\ copies \in [Deliveries -> Nat] /\ copies[run[w].d] \in Nat /\ faults \in 0 .. MaxFaults
<1>1. run[w] \in RunStates /\ copies \in [Deliveries -> Nat] /\ faults \in 0 .. MaxFaults
  BY WebhooksTyped DEF WebhooksInv, TypeOK
<1> QED BY <1>1, RunFields

\* While nothing fails the delivery of a run past its row is pending.
LEMMA RunOnPending ==
  ASSUME WebhooksInv, faults = 0, NEW w \in Workers, run[w].pc # "idle"
  PROVE  /\ ~run[w].lost
         /\ run[w].pc \in {"endpoint", "post", "settle"} => Pending(run[w].d)
BY DEF WebhooksInv, Faultless, RunFaultless

\* A fault is counted.
LEMMA FaultCounted ==
  ASSUME Fault, faults \in 0 .. MaxFaults
  PROVE  faults' \in 0 .. MaxFaults /\ faults' # 0
BY WebhookBounds DEF Fault

\* The row is read; a delivery that is not pending any more is left.
LEMMA WebhookReads ==
  ASSUME WebhooksInv, AskedStep, NEW w \in Workers, ReadRow(w) \/ ReadEndpoint(w)
  PROVE  WebhooksInv'
<1>1. /\ run[w].pc \in {"row", "endpoint"} /\ UNCHANGED <<open, row, stale, job, call, todo, copies, faults>>
  BY DEF ReadRow, ReadEndpoint, WorkUnchanged, rowVars
<1>2. PICK d : d = run[w].d
  OBVIOUS
<1>3. /\ d \in Deliveries /\ RowHolds(d) /\ row[d].attempts \in Nat /\ row[d].attempts <= MaxAttempts
      /\ copies[d] \in Nat /\ copies \in [Deliveries -> Nat] /\ faults \in 0 .. MaxFaults
  BY <1>1, <1>2, RunFacts, DeliveryFields DEF WebhooksInv
<1>4. PICK r \in RunStates :
        /\ run' = [run EXCEPT ![w] = r] /\ r.pc # "idle" /\ r.d = d /\ r.lost = run[w].lost
        /\ r.outcome = "accepted" => r.pc # "settle"
        /\ r.pc \in {"endpoint", "post", "settle"} => Pending(d) \/ run[w].pc = "endpoint"
  <2>1. CASE ReadRow(w) /\ Deliverable(d)
    <3> DEFINE r == [run[w] EXCEPT !.pc = "endpoint", !.attempts = row[d].attempts + 1]
    <3>1. row[d].attempts + 1 \in 0 .. MaxAttempts
      BY <1>3, <2>1, WebhookBounds DEF RowHolds, Deliverable
    <3>2. r \in RunStates /\ r.pc = "endpoint" /\ r.d = d /\ r.lost = run[w].lost
      BY <1>1, <1>2, <3>1, RunFacts DEF RunStates
    <3>3. run' = [run EXCEPT ![w] = r] /\ Pending(d)
      BY <1>2, <2>1 DEF ReadRow, Deliverable
    <3> HIDE DEF r
    <3> QED BY <3>2, <3>3
  <2>2. CASE ReadRow(w) /\ ~Deliverable(d)
    <3> DEFINE r == [run[w] EXCEPT !.pc = "finish"]
    <3>1. r \in RunStates /\ r.pc = "finish" /\ r.d = d /\ r.lost = run[w].lost
      BY <1>1, <1>2, RunFacts DEF RunStates
    <3>2. run' = [run EXCEPT ![w] = r]
      BY <1>2, <2>2 DEF ReadRow, Step
    <3> HIDE DEF r
    <3> QED BY <3>1, <3>2
  <2>3. CASE ReadEndpoint(w) /\ open
    <3> DEFINE r == [run[w] EXCEPT !.pc = "post"]
    <3>1. r \in RunStates /\ r.pc = "post" /\ r.d = d /\ r.lost = run[w].lost
      BY <1>1, <1>2, RunFacts DEF RunStates
    <3>2. run' = [run EXCEPT ![w] = r] /\ run[w].pc = "endpoint"
      BY <1>2, <2>3 DEF ReadEndpoint, Step
    <3> HIDE DEF r
    <3> QED BY <3>1, <3>2
  <2>4. CASE ReadEndpoint(w) /\ ~open
    <3> DEFINE r == [run[w] EXCEPT !.pc = "settle", !.outcome = "barred"]
    <3>1. r \in RunStates /\ r.pc = "settle" /\ r.d = d /\ r.lost = run[w].lost /\ r.outcome = "barred"
      BY <1>1, <1>2, RunFacts DEF RunStates, Outcomes
    <3>2. run' = [run EXCEPT ![w] = r] /\ run[w].pc = "endpoint"
      BY <1>2, <2>4 DEF ReadEndpoint, Answered
    <3> HIDE DEF r
    <3> QED BY <3>1, <3>2
  <2> QED BY <1>1, <2>1, <2>2, <2>3, <2>4
<1>5. PICK n \in {0, 1} : n = 0 /\ copies' = [copies EXCEPT ![d] = copies[d] + n]
  BY <1>1, <1>3
<1>6. faults' = 0 =>
        /\ r.pc # "idle" => ~r.lost
        /\ r.pc \in {"endpoint", "post", "settle"} => Pending(d)
        /\ n = 0 /\ ~Sends(w)
  BY <1>1, <1>2, <1>4, <1>5, RunOnPending DEF Sends
<1>7. /\ run[w].pc # "idle" /\ ~(r.pc = "settle" /\ r.outcome = "accepted")
      /\ faults' \in 0 .. MaxFaults /\ (faults' = 0 => faults = 0)
  BY <1>1, <1>3, <1>4
<1>8. UNCHANGED <<open, row, stale, job, call, todo>>
  BY <1>1
<1>9. r.pc # "idle" => r.d = d /\ (run[w].lost => r.lost)
  BY <1>4
<1>10. run' = [run EXCEPT ![w] = r]
  BY <1>4
<1> QED BY <1>2, <1>3, <1>5, <1>6, <1>7, <1>8, <1>9, <1>10, RunGoesOn

\* A copy is sent.
LEMMA WebhookPosts ==
  ASSUME WebhooksInv, AskedStep, NEW w \in Workers, Post(w) \/ AnswerLost(w)
  PROVE  WebhooksInv'
<1>1. /\ run[w].pc = "post" /\ UNCHANGED <<open, row, stale, job, call, todo>>
  BY DEF Post, AnswerLost, WorkUnchanged, rowVars
<1>2. PICK d : d = run[w].d
  OBVIOUS
<1>3. d \in Deliveries /\ copies[d] \in Nat /\ copies \in [Deliveries -> Nat] /\ faults \in 0 .. MaxFaults
  BY <1>1, <1>2, RunFacts
<1>4. /\ faults' \in 0 .. MaxFaults /\ (faults' = 0 => faults = 0)
      /\ AnswerLost(w) => faults' # 0
  BY <1>3, FaultCounted DEF Post, AnswerLost
<1>5. PICK outcome \in Outcomes, n \in {0, 1} :
        /\ Answered(w, outcome)
        /\ copies' = [copies EXCEPT ![d] = copies[d] + n]
        /\ outcome = "accepted" => n = 1
        /\ faults' = 0 => (n = 1 <=> outcome = "accepted")
  <2>1. CASE Post(w)
    <3>1. PICK outcome \in Outcomes :
            /\ Answered(w, outcome)
            /\ copies' = IF outcome = "accepted" THEN [copies EXCEPT ![d] = copies[d] + 1] ELSE copies
      BY <1>2, <2>1 DEF Post
    <3>2. CASE outcome = "accepted"
      BY <3>1, <3>2
    <3>3. CASE outcome # "accepted"
      <4>1. copies' = [copies EXCEPT ![d] = copies[d] + 0]
        BY <1>3, <3>1, <3>3
      <4> QED BY <3>1, <3>3, <4>1
    <3> QED BY <3>2, <3>3
  <2>2. CASE AnswerLost(w)
    BY <1>2, <1>4, <2>2 DEF AnswerLost, Outcomes
  <2> QED BY <2>1, <2>2
<1>6. PICK r : r = [run[w] EXCEPT !.pc = "settle", !.outcome = outcome]
  OBVIOUS
<1>7. /\ r \in RunStates /\ r.pc = "settle" /\ r.outcome = outcome /\ r.d = d /\ r.lost = run[w].lost
      /\ run' = [run EXCEPT ![w] = r]
  BY <1>1, <1>2, <1>5, <1>6, RunFacts DEF RunStates, Answered
<1>8. ASSUME faults' = 0
      PROVE  /\ ~r.lost /\ Pending(d)
             /\ \/ n = 0 /\ ~Sends(w)
                \/ n = 1 /\ run[w].pc = "post" /\ r.pc = "settle" /\ r.outcome = "accepted"
  BY <1>1, <1>2, <1>4, <1>5, <1>7, <1>8, RunOnPending DEF Sends
<1>9. r.pc = "settle" /\ r.outcome = "accepted" => copies[d] + n > 0
  BY <1>3, <1>5, <1>7
<1> QED BY <1>1, <1>2, <1>3, <1>4, <1>5, <1>7, <1>8, <1>9, RunGoesOn

\* A worker dies, loses its lock or is refused the write of the row.
LEMMA WebhookFaults ==
  ASSUME WebhooksInv, AskedStep, NEW w \in Workers, Die(w) \/ LoseLock(w) \/ SettleFails(w)
  PROVE  WebhooksInv'
<1>1. /\ run[w].pc # "idle" /\ UNCHANGED <<open, row, stale, job, call, todo, copies>> /\ Fault
  <2>1. run[w] \in RunStates
    BY WebhooksTyped DEF WebhooksInv
  <2> QED BY <2>1, RunFields DEF Die, LoseLock, SettleFails, WorkUnchanged, rowVars
<1>2. PICK d : d = run[w].d
  OBVIOUS
<1>3. d \in Deliveries /\ copies[d] \in Nat /\ copies \in [Deliveries -> Nat] /\ faults \in 0 .. MaxFaults
  BY <1>1, <1>2, RunFacts
<1>4. faults' \in 0 .. MaxFaults /\ faults' # 0
  BY <1>1, <1>3, FaultCounted
<1>5. copies' = [copies EXCEPT ![d] = copies[d] + 0]
  BY <1>1, <1>3
<1>6. PICK r \in RunStates :
        /\ run' = [run EXCEPT ![w] = r]
        /\ r.pc # "idle" => r.d = d /\ (run[w].lost => r.lost)
        /\ r.pc = "settle" /\ r.outcome = "accepted" => Sends(w)
  <2>1. CASE Die(w)
    <3>1. Free \in RunStates /\ Free.pc = "idle"
      BY DEF RunStates, Free
    <3> QED BY <2>1, <3>1 DEF Die
  <2>2. CASE LoseLock(w)
    <3> DEFINE r == [run[w] EXCEPT !.lost = TRUE]
    <3>1. r \in RunStates /\ r.d = d /\ r.lost /\ r.pc = run[w].pc /\ r.outcome = run[w].outcome
      BY <1>1, <1>2, RunFacts DEF RunStates
    <3>2. run' = [run EXCEPT ![w] = r]
      BY <2>2 DEF LoseLock
    <3> HIDE DEF r
    <3> QED BY <3>1, <3>2 DEF Sends
  <2>3. CASE SettleFails(w)
    <3> DEFINE r == [run[w] EXCEPT !.pc = "settle", !.outcome = "network"]
               s == [run[w] EXCEPT !.pc = "throw", !.attempts = 0, !.outcome = "network"]
    <3>0. 0 \in 0 .. MaxAttempts
      BY WebhookBounds
    <3>1. r \in RunStates /\ r.d = d /\ r.lost = run[w].lost /\ r.outcome = "network"
      BY <1>1, <1>2, RunFacts DEF RunStates, Outcomes
    <3>3. s \in RunStates /\ s.d = d /\ s.lost = run[w].lost /\ s.outcome = "network"
      BY <1>1, <1>2, <3>0, RunFacts DEF RunStates, Outcomes
    <3>2. run' = [run EXCEPT ![w] = r] \/ run' = [run EXCEPT ![w] = s]
      BY <2>3 DEF SettleFails, Answered, Over
    <3> HIDE DEF r, s
    <3> QED BY <3>1, <3>2, <3>3
  <2> QED BY <2>1, <2>2, <2>3
<1>7. r.pc = "settle" /\ r.outcome = "accepted" => copies[d] > 0
  BY <1>2, <1>6 DEF WebhooksInv, RunHolds
<1>8. PICK n \in {0, 1} : n = 0
  OBVIOUS
<1>9. copies' = [copies EXCEPT ![d] = copies[d] + n]
  BY <1>5, <1>8
<1>10. r.pc = "settle" /\ r.outcome = "accepted" => copies[d] + n > 0
  BY <1>3, <1>7, <1>8
<1>11. run[w].pc # "idle" /\ UNCHANGED <<open, row, stale, job, call, todo>>
  BY <1>1
<1>12. run' = [run EXCEPT ![w] = r] /\ (r.pc # "idle" => r.d = d /\ (run[w].lost => r.lost))
  BY <1>6
<1> QED BY <1>2, <1>3, <1>4, <1>9, <1>10, <1>11, <1>12, RunGoesOn

\* The row is written after an attempt.
LEMMA WebhookSettles ==
  ASSUME WebhooksInv, AskedStep, NEW w \in Workers, Settle(w)
  PROVE  WebhooksInv'
<1>1. /\ run[w].pc = "settle" /\ UNCHANGED <<open, job, call, todo, copies, faults>>
  BY DEF Settle, WorkUnchanged
<1>2. PICK d : d = run[w].d
  OBVIOUS
<1>3. PICK status : status = StatusFor(w)
  OBVIOUS
<1>4. /\ d \in Deliveries /\ copies[d] \in Nat /\ copies \in [Deliveries -> Nat] /\ faults \in 0 .. MaxFaults
      /\ run[w].attempts \in Nat /\ run[w].attempts <= MaxAttempts /\ run \in [Workers -> RunStates]
      /\ row \in [Deliveries -> RowRecords] /\ TypeOK /\ asked \in [Deliveries -> Nat]
  BY <1>1, <1>2, RunFacts, WebhooksTyped DEF WebhooksInv
<1>5. /\ status \in {"pending", "delivered", "failed"}
      /\ status = "pending" => run[w].attempts < MaxAttempts /\ run[w].outcome # "accepted"
      /\ status = "delivered" => Sends(w)
  BY <1>1, <1>3, <1>4, WebhookBounds DEF StatusFor, Spent, Sends
<1>6. PICK now : now = [status |-> status, attempts |-> run[w].attempts]
  OBVIOUS
<1>7. /\ now \in RowRecords /\ now.status = status /\ now.attempts = run[w].attempts /\ now # NoRow
      /\ row' = [row EXCEPT ![d] = now] /\ stale' = stale \ {d}
  BY <1>2, <1>3, <1>4, <1>5, <1>6, WebhookBounds DEF Settle, Write, RowRecords, NoRow
<1>8. /\ row' \in [Deliveries -> RowRecords] /\ row'[d] = now
      /\ \A b \in Deliveries : b # d => row'[b] = row[b]
  BY <1>4, <1>7
<1>9. PICK r \in RunStates : /\ run' = [run EXCEPT ![w] = r]
                             /\ r.pc \in {"throw", "finish"} /\ r.d = d /\ r.lost = run[w].lost
  <2>1. PICK pc \in {"throw", "finish"} : Over(w, pc)
    BY DEF Settle
  <2> DEFINE r == [run[w] EXCEPT !.pc = pc, !.attempts = 0, !.outcome = "network"]
  <2>2. 0 \in 0 .. MaxAttempts
    BY WebhookBounds
  <2>3. r \in RunStates /\ r.pc = pc /\ r.d = d /\ r.lost = run[w].lost
    BY <1>1, <1>2, <2>2, RunFacts DEF RunStates, Outcomes
  <2>4. run' = [run EXCEPT ![w] = r]
    BY <2>1 DEF Over
  <2> HIDE DEF r
  <2> QED BY <2>3, <2>4
<1>10. /\ run' \in [Workers -> RunStates] /\ run'[w] = r
       /\ \A x \in Workers : x # w => run'[x] = run[x]
  BY <1>4, <1>9
<1>11. TypeOK'
  <2>1. /\ job' \in [Deliveries -> JobRecords] /\ call' \in [Callers -> CallStates] /\ todo' \subseteq Deliveries
        /\ open' \in BOOLEAN /\ copies' \in [Deliveries -> Nat] /\ faults' \in 0 .. MaxFaults
    BY <1>1, <1>4, WebhooksTyped DEF TypeOK
  <2>2. \A b \in stale' : b \in Deliveries /\ row'[b].status = "pending"
    BY <1>4, <1>7, <1>8 DEF TypeOK
  <2> QED BY <1>4, <1>8, <1>10, <2>1, <2>2, WebhooksTypedNext
<1>12. ASSUME NEW b \in Deliveries PROVE RowHolds(b)'
  <2>1. RowHolds(b)
    BY DEF WebhooksInv
  <2>2. CASE b = d
    <3>1. status = "delivered" => copies[d] > 0
      BY <1>2, <1>5 DEF WebhooksInv, RunHolds
    <3> QED BY <1>1, <1>5, <1>7, <1>8, <2>1, <2>2, <3>1 DEF RowHolds, Pending
  <2>3. CASE b # d
    BY <1>1, <1>8, <2>1, <2>3 DEF RowHolds, Pending
  <2> QED BY <2>2, <2>3
<1>13. ASSUME NEW x \in Workers PROVE RunHolds(x)'
  <2>1. RunHolds(x) /\ RunHolds(w)
    BY DEF WebhooksInv
  <2>2. CASE x = w
    BY <1>1, <1>2, <1>9, <1>10, <2>1, <2>2 DEF RunHolds, Sends
  <2>3. CASE x # w
    BY <1>1, <1>2, <1>9, <1>10, <2>1, <2>3 DEF RunHolds, Sends
  <2> QED BY <2>2, <2>3
<1>14. ASSUME faults' = 0 PROVE Faultless'
  <2>1. Faultless /\ faults = 0
    BY <1>1, <1>14 DEF WebhooksInv
  <2>2. Pending(d) /\ row[d] # NoRow
    BY <1>1, <1>2, <2>1, RunOnPending DEF Pending, NoRow
  <2>3. ASSUME NEW x \in Workers, x # w, run[x].pc # "idle" PROVE run[x].d # d
    <3>1. ~run[x].lost /\ ~run[w].lost
      BY <1>1, <2>1, <2>3, RunOnPending
    <3> QED BY <1>1, <1>2, <2>3, <3>1 DEF WebhooksInv, RunHolds
  <2>4. ASSUME NEW c \in Callers PROVE CallFaultless(c)'
    <3>1. CallFaultless(c) /\ call[c] \in CallStates
      BY <2>1, <1>4, WebhooksTyped DEF Faultless
    <3>2. CallAt(c, "insert") => row'[call[c].d] = NoRow
      BY <1>8, <2>2, <3>1, CallFields DEF CallFaultless, CallAt
    <3>3. CallAt(c, "reset") => row'[call[c].d] # NoRow
      BY <1>7, <1>8, <3>1, CallFields DEF CallFaultless, CallAt
    <3> QED BY <1>1, <3>1, <3>2, <3>3 DEF CallFaultless, CallAt
  <2>5. ASSUME NEW x \in Workers PROVE RunFaultless(x)'
    <3>1. RunFaultless(x) /\ RunFaultless(w) /\ run[x] \in RunStates
      BY <1>4, <2>1 DEF Faultless
    <3>2. CASE x = w
      BY <1>1, <1>9, <1>10, <3>1, <3>2 DEF RunFaultless
    <3>3. CASE x # w
      BY <1>8, <1>10, <2>3, <3>1, <3>3, RunFields DEF RunFaultless, Pending
    <3> QED BY <3>2, <3>3
  <2>6. ASSUME NEW b \in Deliveries PROVE CopiesFaultless(b)'
    <3>1. /\ CopiesFaultless(b) /\ copies'[b] = copies[b] /\ copies[b] \in Nat
          /\ asked[b] \in Nat /\ asked'[b] \in Nat /\ asked'[b] >= asked[b]
      BY <1>1, <1>4, <2>1 DEF Faultless, AskedStep
    <3>2. CASE b = d
      <4>1. ASSUME Pending(d)' PROVE \A x \in Workers : Sends(x) => run[x].d # d
        <5>1. ~Sends(w)
          BY <1>5, <1>7, <1>8, <4>1 DEF Pending, Sends
        <5> QED BY <2>3, <5>1 DEF Sends
      <4> QED BY <2>2, <3>1, <3>2, <4>1 DEF CopiesFaultless
    <3>3. CASE b # d
      <4>1. Pending(b)' => Pending(b)
        BY <1>8, <3>3 DEF Pending
      <4>2. (\A x \in Workers : Sends(x)' => run'[x].d # b) => (\A x \in Workers : Sends(x) => run[x].d # b)
        BY <1>2, <1>10, <3>3 DEF Sends
      <4> QED BY <3>1, <4>1, <4>2 DEF CopiesFaultless
    <3> QED BY <3>2, <3>3
  <2> QED BY <2>4, <2>5, <2>6 DEF Faultless
<1> QED BY <1>11, <1>12, <1>13, <1>14 DEF WebhooksInv, AskedStep

\* A run is over, and its job with it unless the lock was lost.
LEMMA WebhookJobEnds ==
  ASSUME WebhooksInv, AskedStep, NEW w \in Workers, Finish(w) \/ Throw(w)
  PROVE  WebhooksInv'
<1>1. /\ run[w].pc \in {"finish", "throw"}
      /\ UNCHANGED <<open, row, stale, call, todo, copies, faults>>
      /\ run' = [run EXCEPT ![w] = Free]
  BY DEF Finish, Throw, JobEnds, rowVars
<1>2. PICK d : d = run[w].d
  OBVIOUS
<1>3. /\ d \in Deliveries /\ run \in [Workers -> RunStates] /\ job \in [Deliveries -> JobRecords]
      /\ TypeOK /\ asked \in [Deliveries -> Nat] /\ run[w].lost \in BOOLEAN
      /\ job[d].tries \in Nat /\ copies \in [Deliveries -> Nat]
  BY <1>1, <1>2, RunFacts, WebhooksTyped, DeliveryFields DEF WebhooksInv
<1>4. ~run[w].lost => job[d].at = "active" /\ job[d].tries < MaxAttempts
  BY <1>1, <1>2, <1>3 DEF WebhooksInv, RunHolds, RowHolds
<1>5. PICK j \in JobRecords : /\ job' = [job EXCEPT ![d] = j]
                              /\ j.at \in {"queued", "active"} => j.tries < MaxAttempts
                              /\ run[w].lost => j = job[d]
  <2>1. CASE run[w].lost
    <3>1. /\ job' = job /\ job[d] \in JobRecords
          /\ job[d].at \in {"queued", "active"} => job[d].tries < MaxAttempts
      BY <1>1, <1>3, <2>1 DEF Finish, Throw, JobEnds, WebhooksInv, RowHolds
    <3>2. job' = [job EXCEPT ![d] = job[d]]
      BY <1>3, <3>1
    <3> QED BY <3>1, <3>2
  <2>2. CASE ~run[w].lost /\ Finish(w)
    <3> DEFINE j == [at |-> "finished", tries |-> job[d].tries]
    <3>1. j \in JobRecords /\ j.at = "finished"
      BY <1>3, <1>4, <2>2, WebhookBounds DEF JobRecords
    <3>2. job' = [job EXCEPT ![d] = j]
      BY <1>2, <2>2 DEF Finish, JobEnds
    <3> HIDE DEF j
    <3> QED BY <2>2, <3>1, <3>2
  <2>3. CASE ~run[w].lost /\ Throw(w)
    <3> DEFINE j == [at |-> IF Retried(d) THEN "queued" ELSE "finished", tries |-> job[d].tries + 1]
    <3>1. /\ j \in JobRecords /\ (j.at \in {"queued", "active"} => Retried(d)) /\ j.tries = job[d].tries + 1
      BY <1>3, <1>4, <2>3, WebhookBounds DEF JobRecords
    <3>2. j.at \in {"queued", "active"} => j.tries < MaxAttempts
      BY <3>1 DEF Retried
    <3>3. job' = [job EXCEPT ![d] = j]
      BY <1>2, <2>3 DEF Throw, JobEnds
    <3> HIDE DEF j
    <3> QED BY <2>3, <3>1, <3>2, <3>3
  <2> QED BY <1>1, <1>3, <2>1, <2>2, <2>3
<1>6. Free \in RunStates /\ Free.pc = "idle"
  BY DEF RunStates, Free
<1>7. /\ run' \in [Workers -> RunStates] /\ run'[w] = Free
      /\ \A x \in Workers : x # w => run'[x] = run[x]
      /\ job' \in [Deliveries -> JobRecords] /\ job'[d] = j
      /\ \A b \in Deliveries : b # d => job'[b] = job[b]
  BY <1>1, <1>3, <1>5, <1>6
<1>8. TypeOK'
  <2>1. /\ row' \in [Deliveries -> RowRecords] /\ call' \in [Callers -> CallStates] /\ todo' \subseteq Deliveries
        /\ open' \in BOOLEAN /\ copies' \in [Deliveries -> Nat] /\ faults' \in 0 .. MaxFaults
        /\ \A b \in stale' : b \in Deliveries /\ row'[b].status = "pending"
    BY <1>1, <1>3, WebhooksTyped DEF TypeOK
  <2> QED BY <1>3, <1>7, <2>1, WebhooksTypedNext
<1>9. ASSUME NEW b \in Deliveries PROVE RowHolds(b)'
  <2>1. RowHolds(b)
    BY DEF WebhooksInv
  <2>2. job'[b].at \in {"queued", "active"} => job'[b].tries < MaxAttempts
    BY <1>3, <1>5, <1>7, <2>1 DEF RowHolds
  <2> QED BY <1>1, <2>1, <2>2 DEF RowHolds, Pending
<1>10. ASSUME NEW x \in Workers PROVE RunHolds(x)'
  <2>1. RunHolds(x) /\ RunHolds(w) /\ run[x] \in RunStates
    BY <1>3 DEF WebhooksInv
  <2>2. CASE x = w
    BY <1>6, <1>7, <2>2 DEF RunHolds, Sends
  <2>3. CASE x # w
    <3>1. run[x].pc # "idle" /\ ~run[x].lost => job'[run[x].d] = job[run[x].d]
      <4>1. CASE run[w].lost
        <5>1. job' = job
          BY <1>3, <1>5, <4>1
        <5> QED BY <5>1
      <4>2. CASE ~run[w].lost
        <5>1. run[x].pc # "idle" /\ ~run[x].lost => run[x].d # d /\ run[x].d \in Deliveries
          BY <1>1, <1>2, <2>1, <2>3, <4>2, RunFields DEF RunHolds
        <5> QED BY <1>7, <5>1
      <4> QED BY <4>1, <4>2
    <3> QED BY <1>1, <1>6, <1>7, <2>1, <2>3, <3>1 DEF RunHolds, Sends
  <2> QED BY <2>2, <2>3
<1>11. ASSUME faults' = 0 PROVE Faultless'
  <2>1. Faultless
    BY <1>1, <1>11 DEF WebhooksInv
  <2>2. \A c \in Callers : CallFaultless(c)'
    BY <1>1, <2>1 DEF Faultless, CallFaultless, CallAt
  <2>3. \A x \in Workers : RunFaultless(x)'
    BY <1>1, <1>6, <1>7, <2>1 DEF Faultless, RunFaultless, Pending
  <2>4. ASSUME NEW b \in Deliveries PROVE CopiesFaultless(b)'
    <3>1. /\ CopiesFaultless(b) /\ copies'[b] = copies[b] /\ copies[b] \in Nat
          /\ asked[b] \in Nat /\ asked'[b] \in Nat /\ asked'[b] >= asked[b]
      BY <1>1, <1>3, <2>1 DEF Faultless, AskedStep
    <3>2. (\A x \in Workers : Sends(x)' => run'[x].d # b) => (\A x \in Workers : Sends(x) => run[x].d # b)
      BY <1>1, <1>6, <1>7 DEF Sends
    <3> QED BY <1>1, <3>1, <3>2 DEF CopiesFaultless, Pending
  <2> QED BY <2>2, <2>3, <2>4 DEF Faultless
<1> QED BY <1>8, <1>9, <1>10, <1>11 DEF WebhooksInv, AskedStep

\* A worker takes a job and its lock.
LEMMA WebhookTakes ==
  ASSUME WebhooksInv, AskedStep, NEW w \in Workers, NEW d \in Deliveries, Take(w, d)
  PROVE  WebhooksInv'
<1>1. /\ run[w] = Free /\ job[d].at = "queued"
      /\ job' = [job EXCEPT ![d].at = "active"]
      /\ UNCHANGED <<open, row, stale, call, todo, copies, faults>>
  BY DEF Take, rowVars
<1>2. PICK r : r = [pc |-> "row", d |-> d, attempts |-> 0, outcome |-> "network", lost |-> FALSE]
  OBVIOUS
<1>3. /\ r \in RunStates /\ r.pc = "row" /\ r.d = d /\ ~r.lost /\ run' = [run EXCEPT ![w] = r]
  <2>1. 0 \in 0 .. MaxAttempts
    BY WebhookBounds
  <2> QED BY <1>2, <2>1 DEF Take, RunStates, Outcomes
<1>4. /\ run \in [Workers -> RunStates] /\ job \in [Deliveries -> JobRecords]
      /\ TypeOK /\ asked \in [Deliveries -> Nat] /\ copies \in [Deliveries -> Nat]
  BY WebhooksTyped DEF WebhooksInv
<1>5. /\ run' \in [Workers -> RunStates] /\ run'[w] = r
      /\ \A x \in Workers : x # w => run'[x] = run[x]
  BY <1>3, <1>4
<1>6. /\ job' \in [Deliveries -> JobRecords] /\ job'[d].at = "active" /\ job'[d].tries = job[d].tries
      /\ \A b \in Deliveries : b # d => job'[b] = job[b]
  BY <1>1, <1>4 DEF JobRecords
<1>7. TypeOK'
  <2>1. /\ row' \in [Deliveries -> RowRecords] /\ call' \in [Callers -> CallStates] /\ todo' \subseteq Deliveries
        /\ open' \in BOOLEAN /\ copies' \in [Deliveries -> Nat] /\ faults' \in 0 .. MaxFaults
        /\ \A b \in stale' : b \in Deliveries /\ row'[b].status = "pending"
    BY <1>1, <1>4, WebhooksTyped DEF TypeOK
  <2> QED BY <1>4, <1>5, <1>6, <2>1, WebhooksTypedNext
<1>8. \A b \in Deliveries : RowHolds(b)'
  BY <1>1, <1>6 DEF WebhooksInv, RowHolds, Pending
<1>9. ASSUME NEW x \in Workers, x # w, run[x].pc # "idle", ~run[x].lost PROVE run[x].d # d
  BY <1>1, <1>9 DEF WebhooksInv, RunHolds
<1>10. ASSUME NEW x \in Workers PROVE RunHolds(x)'
  <2>1. RunHolds(x) /\ run[x] \in RunStates
    BY <1>4 DEF WebhooksInv
  <2>2. CASE x = w
    BY <1>3, <1>5, <1>6, <1>9, <2>2 DEF RunHolds, Sends
  <2>3. CASE x # w
    <3>1. run[x].pc # "idle" /\ ~run[x].lost => job'[run[x].d] = job[run[x].d]
      BY <1>6, <1>9, <2>1, <2>3, RunFields
    <3> QED BY <1>1, <1>3, <1>5, <1>9, <2>1, <2>3, <3>1 DEF RunHolds, Sends
  <2> QED BY <2>2, <2>3
<1>11. ASSUME faults' = 0 PROVE Faultless'
  <2>1. Faultless
    BY <1>1, <1>11 DEF WebhooksInv
  <2>2. \A c \in Callers : CallFaultless(c)'
    BY <1>1, <2>1 DEF Faultless, CallFaultless, CallAt
  <2>3. \A x \in Workers : RunFaultless(x)'
    BY <1>1, <1>3, <1>5, <2>1 DEF Faultless, RunFaultless, Pending
  <2>4. ASSUME NEW b \in Deliveries PROVE CopiesFaultless(b)'
    <3>1. /\ CopiesFaultless(b) /\ copies'[b] = copies[b] /\ copies[b] \in Nat
          /\ asked[b] \in Nat /\ asked'[b] \in Nat /\ asked'[b] >= asked[b]
      BY <1>1, <1>4, <2>1 DEF Faultless, AskedStep
    <3>2. (\A x \in Workers : Sends(x)' => run'[x].d # b) => (\A x \in Workers : Sends(x) => run[x].d # b)
      BY <1>1, <1>5 DEF Sends, Free
    <3> QED BY <1>1, <3>1, <3>2 DEF CopiesFaultless, Pending
  <2> QED BY <2>2, <2>3, <2>4 DEF Faultless
<1> QED BY <1>7, <1>8, <1>10, <1>11 DEF WebhooksInv, AskedStep

\* What requests, the sweep and the queue may do between the writes of a row.
LEMMA CallsAndJobs ==
  ASSUME WebhooksInv, AskedStep, UNCHANGED <<row, copies, run>>, open' \in BOOLEAN, todo' \subseteq Deliveries,
         \A d \in stale' : d \in Deliveries /\ Pending(d),
         call' \in [Callers -> CallStates], job' \in [Deliveries -> JobRecords],
         \A d \in Deliveries : job'[d].at \in {"queued", "active"} => job'[d].tries < MaxAttempts,
         \A w \in Workers : run[w].pc # "idle" /\ ~run[w].lost => job'[run[w].d] = job[run[w].d],
         faults' \in 0 .. MaxFaults, faults' = 0 => faults = 0,
         faults' = 0 => \A c \in Callers : CallFaultless(c)'
  PROVE  WebhooksInv'
<1>1. /\ TypeOK /\ asked \in [Deliveries -> Nat] /\ copies \in [Deliveries -> Nat]
      /\ row' \in [Deliveries -> RowRecords] /\ run' \in [Workers -> RunStates]
  BY WebhooksTyped DEF WebhooksInv
<1>2. TypeOK'
  <2>1. copies' \in [Deliveries -> Nat] /\ \A b \in stale' : b \in Deliveries /\ row'[b].status = "pending"
    BY <1>1 DEF Pending
  <2> QED BY <1>1, <2>1, WebhooksTypedNext
<1>3. \A b \in Deliveries : RowHolds(b)'
  BY DEF WebhooksInv, RowHolds, Pending
<1>4. \A x \in Workers : RunHolds(x)'
  BY DEF WebhooksInv, RunHolds, Sends
<1>5. ASSUME faults' = 0 PROVE Faultless'
  <2>1. Faultless
    BY <1>5 DEF WebhooksInv
  <2>2. \A x \in Workers : RunFaultless(x)'
    BY <2>1 DEF Faultless, RunFaultless, Pending
  <2>3. ASSUME NEW b \in Deliveries PROVE CopiesFaultless(b)'
    <3>1. /\ CopiesFaultless(b) /\ copies'[b] = copies[b] /\ copies[b] \in Nat
          /\ asked[b] \in Nat /\ asked'[b] \in Nat /\ asked'[b] >= asked[b]
      BY <1>1, <2>1 DEF Faultless, AskedStep
    <3>2. (\A x \in Workers : Sends(x)' => run'[x].d # b) => (\A x \in Workers : Sends(x) => run[x].d # b)
      BY DEF Sends
    <3> QED BY <3>1, <3>2 DEF CopiesFaultless, Pending
  <2> QED BY <1>5, <2>2, <2>3 DEF Faultless
<1> QED BY <1>2, <1>3, <1>4, <1>5 DEF WebhooksInv, AskedStep

\* The endpoint is deleted, or an hour passes.
LEMMA WebhookEnvironment ==
  ASSUME WebhooksInv, AskedStep, DeleteEndpoint \/ TimePasses
  PROVE  WebhooksInv'
<1>1. /\ UNCHANGED <<row, copies, run, call, job, todo, faults>> /\ open' \in BOOLEAN
      /\ stale' = stale \/ stale' = {d \in Deliveries : Pending(d)}
      /\ TypeOK
  BY DEF DeleteEndpoint, TimePasses, rowVars, WebhooksInv, TypeOK
<1>2. \A d \in stale' : d \in Deliveries /\ Pending(d)
  BY <1>1 DEF TypeOK, Pending
<1>3. /\ call' \in [Callers -> CallStates] /\ job' \in [Deliveries -> JobRecords]
      /\ todo' \subseteq Deliveries /\ faults' \in 0 .. MaxFaults /\ faults' = faults
  BY <1>1, WebhooksTyped DEF TypeOK
<1>4. \A d \in Deliveries : job'[d].at \in {"queued", "active"} => job'[d].tries < MaxAttempts
  BY <1>1 DEF WebhooksInv, RowHolds
<1>5. faults' = 0 => \A c \in Callers : CallFaultless(c)'
  BY <1>1 DEF WebhooksInv, Faultless, CallFaultless, CallAt
<1>6. \A w \in Workers : run[w].pc # "idle" /\ ~run[w].lost => job'[run[w].d] = job[run[w].d]
  BY <1>1
<1> QED BY <1>1, <1>2, <1>3, <1>4, <1>5, <1>6, CallsAndJobs

\* BullMQ finds a stalled job, or forgets a finished one.
LEMMA WebhookQueue ==
  ASSUME WebhooksInv, AskedStep, NEW d \in Deliveries, StallCheck(d) \/ Forget(d)
  PROVE  WebhooksInv'
<1>1. /\ UNCHANGED <<open, row, stale, copies, run, call, todo, faults>>
      /\ TypeOK /\ job \in [Deliveries -> JobRecords] /\ RowHolds(d)
      /\ job[d].tries \in Nat
  BY WebhooksTyped, DeliveryFields DEF StallCheck, Forget, rowVars, WebhooksInv
<1>2. ASSUME NEW w \in Workers, run[w].pc # "idle", ~run[w].lost PROVE run[w].d # d
  <2>1. job[run[w].d].at = "active" /\ run[w] # Free
    BY <1>2, RunFacts DEF WebhooksInv, RunHolds
  <2> QED BY <1>2, <2>1 DEF StallCheck, Forget, Locked
<1>3. PICK j \in JobRecords : /\ job' = [job EXCEPT ![d] = j]
                              /\ j.at \in {"queued", "active"} => j.tries < MaxAttempts
  <2>1. CASE StallCheck(d)
    <3>1. PICK at \in {"queued", "finished"} : job' = [job EXCEPT ![d].at = at]
      BY <2>1 DEF StallCheck
    <3> DEFINE j == [job[d] EXCEPT !.at = at]
    <3>2. j \in JobRecords /\ j.tries = job[d].tries
      BY <1>1 DEF JobRecords
    <3>3. job' = [job EXCEPT ![d] = j] /\ job[d].tries < MaxAttempts
      BY <1>1, <2>1, <3>1 DEF StallCheck, RowHolds
    <3> HIDE DEF j
    <3> QED BY <3>2, <3>3
  <2>2. CASE Forget(d)
    <3>1. NoJob \in JobRecords /\ NoJob.at = "none"
      BY WebhookBounds DEF NoJob, JobRecords
    <3> QED BY <2>2, <3>1 DEF Forget
  <2> QED BY <2>1, <2>2
<1>4. job' \in [Deliveries -> JobRecords] /\ job'[d] = j /\ \A b \in Deliveries : b # d => job'[b] = job[b]
  BY <1>1, <1>3
<1>5. /\ open' \in BOOLEAN /\ todo' \subseteq Deliveries /\ call' \in [Callers -> CallStates]
      /\ faults' \in 0 .. MaxFaults /\ faults' = faults
      /\ \A b \in stale' : b \in Deliveries /\ Pending(b)
  BY <1>1, WebhooksTyped DEF TypeOK, Pending
<1>6. \A b \in Deliveries : job'[b].at \in {"queued", "active"} => job'[b].tries < MaxAttempts
  BY <1>3, <1>4 DEF WebhooksInv, RowHolds
<1>7. faults' = 0 => \A c \in Callers : CallFaultless(c)'
  BY <1>1 DEF WebhooksInv, Faultless, CallFaultless, CallAt
<1>8. \A w \in Workers : run[w].pc # "idle" /\ ~run[w].lost => job'[run[w].d] = job[run[w].d]
  BY <1>2, <1>4, RunFacts
<1> QED BY <1>1, <1>4, <1>5, <1>6, <1>7, <1>8, CallsAndJobs

\* A request or the sweep moves on, and with it perhaps a job that nobody
\* holds.
LEMMA CallerMoves ==
  ASSUME WebhooksInv, AskedStep, NEW c \in Callers, NEW r \in CallStates, call' = [call EXCEPT ![c] = r],
         UNCHANGED <<open, row, stale, copies, run>>, todo' \subseteq Deliveries,
         faults' \in 0 .. MaxFaults, faults' = 0 => faults = 0,
         r.pc = "insert" => /\ c \in Calls /\ row[r.d] = NoRow
                            /\ \A b \in Calls : CallAt(b, "insert") => call[b].d # r.d,
         r.pc = "reset" => row[r.d] # NoRow,
         \/ job' = job
         \/ \E d \in Deliveries, j \in {NoJob, NewJob} :
              job' = [job EXCEPT ![d] = j] /\ (~Locked(d) \/ job[d].at # "active")
  PROVE  WebhooksInv'
<1>1. /\ call \in [Callers -> CallStates] /\ job \in [Deliveries -> JobRecords] /\ TypeOK
      /\ \A d \in Deliveries : job[d].at \in {"queued", "active"} => job[d].tries < MaxAttempts
  BY WebhooksTyped DEF WebhooksInv, RowHolds
<1>2. /\ call' \in [Callers -> CallStates] /\ call'[c] = r
      /\ \A b \in Callers : b # c => call'[b] = call[b]
  BY <1>1
<1>3. /\ job' \in [Deliveries -> JobRecords]
      /\ \A d \in Deliveries : job'[d].at \in {"queued", "active"} => job'[d].tries < MaxAttempts
      /\ \A w \in Workers : run[w].pc # "idle" /\ ~run[w].lost => job'[run[w].d] = job[run[w].d]
  <2>1. CASE job' = job
    BY <1>1, <2>1
  <2>2. CASE job' # job
    <3>1. PICK d \in Deliveries, j \in {NoJob, NewJob} :
            job' = [job EXCEPT ![d] = j] /\ (~Locked(d) \/ job[d].at # "active")
      BY <2>2
    <3>2. j \in JobRecords /\ j.tries = 0
      BY WebhookBounds DEF NoJob, NewJob, JobRecords
    <3>3. ASSUME NEW w \in Workers, run[w].pc # "idle", ~run[w].lost PROVE run[w].d # d
      <4>1. job[run[w].d].at = "active" /\ run[w] # Free
        BY <3>3, RunFacts DEF WebhooksInv, RunHolds
      <4> QED BY <3>1, <3>3, <4>1 DEF Locked
    <3>4. /\ job' \in [Deliveries -> JobRecords] /\ job'[d] = j
          /\ \A b \in Deliveries : b # d => job'[b] = job[b]
      BY <1>1, <3>1, <3>2
    <3>5. 0 < MaxAttempts
      BY WebhookBounds
    <3>6. \A w \in Workers : run[w].pc # "idle" /\ ~run[w].lost => run[w].d \in Deliveries
      BY RunFacts
    <3> QED BY <1>1, <3>2, <3>3, <3>4, <3>5, <3>6
  <2> QED BY <2>1, <2>2
<1>4. ASSUME faults' = 0, NEW b \in Callers PROVE CallFaultless(b)'
  <2>1. \A a \in Callers : CallFaultless(a)
    BY <1>4 DEF WebhooksInv, Faultless
  <2>2. CASE b = c
    BY <1>2, <2>1, <2>2 DEF CallFaultless, CallAt, Callers
  <2>3. CASE b # c
    BY <1>2, <2>1, <2>3 DEF CallFaultless, CallAt, Callers
  <2> QED BY <2>2, <2>3
<1>5. open' \in BOOLEAN /\ \A b \in stale' : b \in Deliveries /\ Pending(b)
  BY <1>1 DEF TypeOK, Pending
<1> QED BY <1>2, <1>3, <1>4, <1>5, CallsAndJobs

\* A caller at work, and what it has in hand.
LEMMA CallFacts ==
  ASSUME WebhooksInv, NEW c \in Callers
  PROVE  /\ call[c] \in CallStates /\ (call[c].pc # "idle" => call[c].d \in Deliveries)
         /\ faults \in 0 .. MaxFaults /\ todo \subseteq Deliveries
         /\ Free \in CallStates /\ Free.pc = "idle"
<1>1. call[c] \in CallStates /\ faults \in 0 .. MaxFaults /\ todo \subseteq Deliveries
  BY WebhooksTyped DEF WebhooksInv, TypeOK
<1> QED BY <1>1, CallFields DEF CallStates, Free

\* An event is to be recorded, or a redelivery is asked for.
LEMMA WebhookAsks ==
  ASSUME WebhooksInv, AskedStep, NEW c \in Calls, NEW d \in Deliveries, Emit(c, d) \/ Redeliver(c, d)
  PROVE  WebhooksInv'
<1>1. /\ UNCHANGED <<open, row, stale, copies, run, job, todo, faults>> /\ c \in Callers
      /\ faults \in 0 .. MaxFaults /\ todo \subseteq Deliveries
  BY CallFacts DEF Emit, Redeliver, CallUnchanged, rowVars, Callers
<1>2. CASE Emit(c, d)
  <2>1. PICK r : r = [pc |-> "insert", d |-> d]
    OBVIOUS
  <2>2. r \in CallStates /\ r.pc = "insert" /\ r.d = d /\ call' = [call EXCEPT ![c] = r]
    BY <1>2, <2>1 DEF Emit, CallStates
  <2>3. row[d] = NoRow /\ \A b \in Calls : CallAt(b, "insert") => call[b].d # d
    BY <1>2 DEF Emit
  <2> QED BY <1>1, <2>2, <2>3, CallerMoves
<1>3. CASE Redeliver(c, d)
  <2>1. PICK r : r = [pc |-> "reset", d |-> d]
    OBVIOUS
  <2>2. r \in CallStates /\ r.pc = "reset" /\ r.d = d /\ call' = [call EXCEPT ![c] = r] /\ row[d] # NoRow
    BY <1>3, <2>1 DEF Redeliver, CallStates
  <2> QED BY <1>1, <2>2, CallerMoves
<1> QED BY <1>2, <1>3

\* The job is looked at, removed and added.
LEMMA WebhookRequeues ==
  ASSUME WebhooksInv, AskedStep, NEW c \in Callers, RequeueStep(c) \/ AddFails(c)
  PROVE  WebhooksInv'
<1>1. /\ call[c].pc \in {"look", "remove", "add"} /\ UNCHANGED <<open, row, stale, copies, run>>
  BY DEF RequeueStep, RequeueLook, RequeueRemove, AddJob, AddFails, CallUnchanged, rowVars, CallAt
<1>2. PICK d \in Deliveries : d = call[c].d
  BY <1>1, CallFacts
<1>3. /\ call[c] \in CallStates /\ faults \in 0 .. MaxFaults /\ todo \subseteq Deliveries
      /\ Free \in CallStates /\ Free.pc = "idle"
  BY CallFacts
<1>4. /\ todo' \subseteq Deliveries /\ faults' \in 0 .. MaxFaults /\ (faults' = 0 => faults = 0)
  BY <1>3, FaultCounted DEF RequeueStep, RequeueLook, RequeueRemove, AddJob, AddFails
<1>5. PICK r \in CallStates : call' = [call EXCEPT ![c] = r] /\ r.pc \notin {"insert", "reset"}
  <2>1. CASE call' = [call EXCEPT ![c] = Free]
    BY <1>3, <2>1
  <2>2. CASE \E pc \in {"add", "remove"} : To(c, pc)
    <3>1. PICK pc \in {"add", "remove"} : To(c, pc)
      BY <2>2
    <3> DEFINE r == [call[c] EXCEPT !.pc = pc]
    <3>2. r \in CallStates /\ r.pc = pc
      BY <1>1, <1>3 DEF CallStates, Free
    <3>3. call' = [call EXCEPT ![c] = r]
      BY <3>1 DEF To
    <3> HIDE DEF r
    <3> QED BY <3>2, <3>3
  <2> QED BY <2>1, <2>2 DEF RequeueStep, RequeueLook, RequeueRemove, AddJob, AddFails
<1>6. \/ job' = job
      \/ \E b \in Deliveries, j \in {NoJob, NewJob} :
           job' = [job EXCEPT ![b] = j] /\ (~Locked(b) \/ job[b].at # "active")
  <2>1. CASE RequeueRemove(c)
    BY <1>2, <2>1 DEF RequeueRemove
  <2>2. CASE AddJob(c)
    <3>1. job' = job \/ (job[d] = NoJob /\ job' = [job EXCEPT ![d] = NewJob])
      BY <1>2, <2>2 DEF AddJob
    <3> QED BY <3>1 DEF NoJob
  <2> QED BY <2>1, <2>2 DEF RequeueStep, RequeueLook, AddFails
<1> QED BY <1>1, <1>4, <1>5, <1>6, CallerMoves

\* The sweep selects, and takes the next one.
LEMMA WebhookSweeps ==
  ASSUME WebhooksInv, AskedStep, SweepSelect \/ \E d \in Deliveries : SweepNext(d)
  PROVE  WebhooksInv'
<1>1. /\ UNCHANGED <<open, row, stale, copies, run, job, faults>> /\ Sweep \in Callers
      /\ faults \in 0 .. MaxFaults /\ todo \subseteq Deliveries /\ call[Sweep] \in CallStates
      /\ stale \subseteq Deliveries /\ call \in [Callers -> CallStates]
  BY CallFacts, WebhooksTyped DEF SweepSelect, SweepNext, CallUnchanged, rowVars, Callers, WebhooksInv, TypeOK
<1>2. todo' \subseteq Deliveries
  BY <1>1 DEF SweepSelect, SweepNext
<1>3. PICK r \in CallStates : call' = [call EXCEPT ![Sweep] = r] /\ r.pc \notin {"insert", "reset"}
  <2>1. CASE SweepSelect
    <3>1. call' = call /\ call[Sweep].pc = "idle"
      BY <2>1 DEF SweepSelect, CallAt
    <3>2. call' = [call EXCEPT ![Sweep] = call[Sweep]]
      BY <1>1, <3>1
    <3> QED BY <1>1, <3>1, <3>2
  <2>2. CASE \E d \in Deliveries : SweepNext(d)
    <3>1. PICK d \in Deliveries : SweepNext(d)
      BY <2>2
    <3> DEFINE r == [pc |-> "look", d |-> d]
    <3>2. r \in CallStates /\ r.pc = "look" /\ call' = [call EXCEPT ![Sweep] = r]
      BY <3>1 DEF SweepNext, CallStates
    <3> HIDE DEF r
    <3> QED BY <3>2
  <2> QED BY <2>1, <2>2
<1> QED BY <1>1, <1>2, <1>3, CallerMoves

\* A row is inserted, or set back: one more copy is asked for.
LEMMA WebhookRows ==
  ASSUME WebhooksInv, AskedStep, NEW c \in Calls, EmitInsert(c) \/ RedeliverReset(c)
  PROVE  WebhooksInv'
<1>1. /\ call[c].pc \in {"insert", "reset"} /\ UNCHANGED <<open, copies, run, job, todo, faults>> /\ c \in Callers
  BY DEF EmitInsert, RedeliverReset, CallUnchanged, CallAt, Callers
<1>2. PICK d \in Deliveries : d = call[c].d
  BY <1>1, CallFacts
<1>3. /\ call[c] \in CallStates /\ faults \in 0 .. MaxFaults /\ todo \subseteq Deliveries
      /\ Free \in CallStates /\ Free.pc = "idle"
  BY <1>1, CallFacts
<1>4. CASE call' = [call EXCEPT ![c] = Free] /\ UNCHANGED rowVars
  <2>1. UNCHANGED <<row, stale>> /\ faults' \in 0 .. MaxFaults /\ faults' = faults /\ todo' \subseteq Deliveries
    BY <1>1, <1>3, <1>4 DEF rowVars
  <2> QED BY <1>1, <1>3, <1>4, <2>1, CallerMoves
<1>5. CASE ~(call' = [call EXCEPT ![c] = Free] /\ UNCHANGED rowVars)
  <2>1. PICK pc \in {"add", "look"} : To(c, pc) /\ Write(d, "pending", 0)
    BY <1>2, <1>5 DEF EmitInsert, RedeliverReset
  <2>2. PICK r : r = [call[c] EXCEPT !.pc = pc]
    OBVIOUS
  <2>3. r \in CallStates /\ r.pc = pc /\ call' = [call EXCEPT ![c] = r]
    BY <1>1, <1>3, <2>1, <2>2 DEF CallStates, Free, To
  <2>4. PICK now : now = [status |-> "pending", attempts |-> 0]
    OBVIOUS
  <2>5. /\ now \in RowRecords /\ now.status = "pending" /\ now.attempts = 0 /\ now # NoRow
        /\ row' = [row EXCEPT ![d] = now] /\ stale' = stale \ {d}
    BY <2>1, <2>4, WebhookBounds DEF Write, RowRecords, NoRow
  <2>6. /\ TypeOK /\ row \in [Deliveries -> RowRecords] /\ call \in [Callers -> CallStates]
        /\ asked \in [Deliveries -> Nat] /\ copies \in [Deliveries -> Nat]
        /\ run' \in [Workers -> RunStates] /\ job' \in [Deliveries -> JobRecords]
    BY <1>1, WebhooksTyped DEF WebhooksInv
  <2>7. /\ row' \in [Deliveries -> RowRecords] /\ row'[d] = now
        /\ \A b \in Deliveries : b # d => row'[b] = row[b]
        /\ call' \in [Callers -> CallStates] /\ call'[c] = r
        /\ \A b \in Callers : b # c => call'[b] = call[b]
    <3>1. /\ row' \in [Deliveries -> RowRecords] /\ row'[d] = now
          /\ \A b \in Deliveries : b # d => row'[b] = row[b]
      BY <2>5, <2>6
    <3>2. /\ call' \in [Callers -> CallStates] /\ call'[c] = r
          /\ \A b \in Callers : b # c => call'[b] = call[b]
      BY <1>1, <2>3, <2>6
    <3> QED BY <3>1, <3>2
  <2>8. TypeOK'
    <3>1. \A b \in stale' : b \in Deliveries /\ row'[b].status = "pending"
      BY <2>5, <2>6, <2>7 DEF TypeOK
    <3>2. open' \in BOOLEAN /\ todo' \subseteq Deliveries /\ copies' \in [Deliveries -> Nat] /\ faults' \in 0 .. MaxFaults
      BY <1>1, <2>6 DEF TypeOK
    <3> QED BY <2>6, <2>7, <3>1, <3>2, WebhooksTypedNext
  <2>9. ASSUME NEW b \in Deliveries PROVE RowHolds(b)'
    <3>1. RowHolds(b) /\ 0 < MaxAttempts
      BY WebhookBounds DEF WebhooksInv
    <3> QED BY <1>1, <2>5, <2>7, <3>1 DEF RowHolds, Pending
  <2>10. \A x \in Workers : RunHolds(x)'
    BY <1>1 DEF WebhooksInv, RunHolds, Sends
  <2>11. ASSUME faults' = 0 PROVE Faultless'
    <3>1. Faultless
      BY <1>1, <2>11 DEF WebhooksInv
    <3>2. ~Pending(d)
      <4>1. CASE EmitInsert(c)
        BY <1>1, <1>2, <3>1, <4>1 DEF EmitInsert, Faultless, CallFaultless, Pending, NoRow
      <4>2. CASE RedeliverReset(c)
        BY <1>2, <1>5, <4>2 DEF RedeliverReset, MayReset
      <4> QED BY <4>1, <4>2
    <3>3. asked'[d] = asked[d] + 1
      BY <2>4, <2>5, <2>7, <3>2 DEF AskedStep, Asks
    <3>4. ASSUME NEW b \in Callers PROVE CallFaultless(b)'
      <4>1. CallFaultless(b) /\ CallFaultless(c) /\ call[b] \in CallStates
        BY <1>1, <2>6, <3>1 DEF Faultless
      <4>2. CASE b = c
        BY <2>3, <2>7, <4>2 DEF CallFaultless, CallAt
      <4>3. CASE b # c
        <5>1. CallAt(b, "insert") => call[b].d # d \/ row[d] # NoRow
          <6>1. CASE call[c].pc = "insert"
            BY <1>2, <4>1, <4>3, <6>1 DEF CallFaultless, CallAt
          <6>2. CASE call[c].pc = "reset"
            BY <1>2, <4>1, <6>2 DEF CallFaultless, CallAt
          <6> QED BY <1>1, <6>1, <6>2
        <5>2. CallAt(b, "insert") => call[b].d # d
          BY <4>1, <5>1 DEF CallFaultless
        <5>3. CallAt(b, "insert") => call[b].d \in Deliveries /\ row'[call[b].d] = NoRow
          BY <2>7, <4>1, <5>2, CallFields DEF CallFaultless, CallAt
        <5>4. CallAt(b, "reset") => row'[call[b].d] # NoRow
          BY <2>5, <2>7, <4>1, CallFields DEF CallFaultless, CallAt
        <5> QED BY <2>3, <2>7, <4>1, <4>3, <5>3, <5>4 DEF CallFaultless, CallAt, Callers
      <4> QED BY <4>2, <4>3
    <3>5. ASSUME NEW x \in Workers PROVE RunFaultless(x)'
      <4>1. RunFaultless(x) /\ run[x] \in RunStates
        BY <1>1, <2>6, <3>1 DEF Faultless
      <4> QED BY <1>1, <2>5, <2>7, <4>1, RunFields DEF RunFaultless, Pending
    <3>6. ASSUME NEW b \in Deliveries PROVE CopiesFaultless(b)'
      <4>1. /\ CopiesFaultless(b) /\ copies'[b] = copies[b] /\ copies[b] \in Nat
            /\ asked[b] \in Nat /\ asked'[b] \in Nat /\ asked'[b] >= asked[b]
        BY <1>1, <2>6, <3>1 DEF Faultless, AskedStep
      <4>2. CASE b = d
        BY <3>3, <4>1, <4>2 DEF CopiesFaultless
      <4>3. CASE b # d
        <5>1. (\A x \in Workers : Sends(x)' => run'[x].d # b) => (\A x \in Workers : Sends(x) => run[x].d # b)
          BY <1>1 DEF Sends
        <5> QED BY <2>7, <4>1, <4>3, <5>1 DEF CopiesFaultless, Pending
      <4> QED BY <4>2, <4>3
    <3> QED BY <3>4, <3>5, <3>6 DEF Faultless
  <2> QED BY <2>8, <2>9, <2>10, <2>11 DEF WebhooksInv, AskedStep
<1> QED BY <1>4, <1>5

\* A step of a webhook's request, sweep, job or worker, or of the world.
LEMMA WebhooksStep ==
  ASSUME WebhooksInv, AskedStep, Next
  PROVE  WebhooksInv'
<1>1. CASE DeleteEndpoint \/ TimePasses
  BY <1>1, WebhookEnvironment
<1>2. CASE SweepStep
  <2>1. Sweep \in Callers
    BY DEF Callers
  <2>2. CASE SweepSelect \/ \E d \in Deliveries : SweepNext(d)
    BY <2>2, WebhookSweeps
  <2>3. CASE RequeueStep(Sweep)
    BY <2>1, <2>3, WebhookRequeues
  <2> QED BY <1>2, <2>2, <2>3 DEF SweepStep
<1>3. ASSUME NEW c \in Calls, CallStep(c) \/ \E d \in Deliveries : Emit(c, d) \/ Redeliver(c, d)
      PROVE  WebhooksInv'
  <2>1. c \in Callers
    BY DEF Callers
  <2>2. CASE EmitInsert(c) \/ RedeliverReset(c)
    BY <2>2, WebhookRows
  <2>3. CASE RequeueStep(c)
    BY <2>1, <2>3, WebhookRequeues
  <2>4. ASSUME NEW d \in Deliveries, Emit(c, d) \/ Redeliver(c, d) PROVE WebhooksInv'
    BY <2>4, WebhookAsks
  <2> QED BY <1>3, <2>2, <2>3, <2>4 DEF CallStep
<1>4. ASSUME NEW c \in Callers, AddFails(c) PROVE WebhooksInv'
  BY <1>4, WebhookRequeues
<1>5. ASSUME NEW d \in Deliveries, StallCheck(d) \/ Forget(d) \/ \E w \in Workers : Take(w, d)
      PROVE  WebhooksInv'
  BY <1>5, WebhookQueue, WebhookTakes
<1>6. ASSUME NEW w \in Workers, RunStep(w) \/ Die(w) \/ LoseLock(w) \/ AnswerLost(w) \/ SettleFails(w)
      PROVE  WebhooksInv'
  <2>1. CASE ReadRow(w) \/ ReadEndpoint(w)
    BY <2>1, WebhookReads
  <2>2. CASE Post(w) \/ AnswerLost(w)
    BY <2>2, WebhookPosts
  <2>3. CASE Settle(w)
    BY <2>3, WebhookSettles
  <2>4. CASE Finish(w) \/ Throw(w)
    BY <2>4, WebhookJobEnds
  <2>5. CASE Die(w) \/ LoseLock(w) \/ SettleFails(w)
    BY <2>5, WebhookFaults
  <2> QED BY <1>6, <2>1, <2>2, <2>3, <2>4, <2>5 DEF RunStep
<1> QED BY <1>1, <1>2, <1>3, <1>4, <1>5, <1>6 DEF Next

\* The copies asked for are counted as the step asks for them.
LEMMA AskedCounted ==
  ASSUME WebhooksInv, asked' = [d \in Deliveries |-> asked[d] + IF Asks(d) THEN 1 ELSE 0]
  PROVE  AskedStep
<1>1. asked \in [Deliveries -> Nat]
  BY DEF WebhooksInv
<1>2. ASSUME NEW d \in Deliveries
      PROVE  asked'[d] \in Nat /\ asked'[d] >= asked[d] /\ (Asks(d) => asked'[d] = asked[d] + 1)
  <2>1. CASE Asks(d)
    BY <1>1, <2>1
  <2>2. CASE ~Asks(d)
    BY <1>1, <2>2
  <2> QED BY <2>1, <2>2
<1>3. asked' \in [Deliveries -> Nat]
  BY <1>2
<1> QED BY <1>2, <1>3 DEF AskedStep

\* Before anything was emitted.
LEMMA WebhooksInit ==
  ASSUME Init, asked = [d \in Deliveries |-> 0]
  PROVE  WebhooksInv
<1>1. TypeOK
  <2>1. NoRow \in RowRecords /\ NoJob \in JobRecords /\ Free \in CallStates /\ Free \in RunStates
    BY WebhookBounds DEF NoRow, NoJob, RowRecords, JobRecords, CallStates, RunStates
  <2>2. /\ row \in [Deliveries -> RowRecords] /\ job \in [Deliveries -> JobRecords]
        /\ call \in [Callers -> CallStates] /\ run \in [Workers -> RunStates]
    BY <2>1 DEF Init
  <2> QED BY <2>2, WebhookBounds DEF Init, TypeOK, RowRecords, JobRecords, CallStates, RunStates
<1>2. asked \in [Deliveries -> Nat]
  OBVIOUS
<1>3. \A d \in Deliveries : RowHolds(d)
  BY DEF Init, RowHolds, Pending, NoRow, NoJob
<1>4. \A w \in Workers : RunHolds(w)
  BY DEF Init, RunHolds, Sends, Free
<1>5. Faultless
  <2>1. \A c \in Callers : CallFaultless(c)
    BY DEF Init, CallFaultless, CallAt, Free
  <2>2. \A w \in Workers : RunFaultless(w)
    BY DEF Init, RunFaultless, Free
  <2>3. \A d \in Deliveries : CopiesFaultless(d)
    <3>1. ASSUME NEW d \in Deliveries PROVE copies[d] = 0 /\ asked[d] = 0 /\ ~Pending(d)
      BY DEF Init, Pending, NoRow
    <3>2. ASSUME NEW d \in Deliveries PROVE CopiesFaultless(d)
      <4>1. copies[d] <= asked[d] /\ ~Pending(d)
        BY <3>1
      <4> QED BY <4>1 DEF CopiesFaultless
    <3> QED BY <3>2
  <2> QED BY <2>1, <2>2, <2>3 DEF Faultless
<1> QED BY <1>1, <1>2, <1>3, <1>4, <1>5 DEF WebhooksInv

\* Nothing moves.
LEMMA WebhooksRest ==
  ASSUME WebhooksInv, UNCHANGED <<webhookVars, asked>>
  PROVE  WebhooksInv'
<1>1. TypeOK'
  BY DEF webhookVars, WebhooksInv, TypeOK
<1>2. /\ \A d \in Deliveries : RowHolds(d)'
      /\ \A w \in Workers : RunHolds(w)'
  BY DEF webhookVars, WebhooksInv, RowHolds, RunHolds, Pending, Sends
<1>3. Faultless => Faultless'
  <2>1. ASSUME \A c \in Callers : CallFaultless(c) PROVE \A c \in Callers : CallFaultless(c)'
    BY <2>1 DEF webhookVars, CallFaultless, CallAt
  <2>2. ASSUME \A w \in Workers : RunFaultless(w) PROVE \A w \in Workers : RunFaultless(w)'
    BY <2>2 DEF webhookVars, RunFaultless, Pending
  <2>3. ASSUME \A d \in Deliveries : CopiesFaultless(d) PROVE \A d \in Deliveries : CopiesFaultless(d)'
    BY <2>3 DEF webhookVars, CopiesFaultless, Pending, Sends
  <2> QED BY <2>1, <2>2, <2>3 DEF Faultless
<1> QED BY <1>1, <1>2, <1>3 DEF WebhooksInv, webhookVars

---------------------------------------------------------------------------
(* Report exports.                                                         *)

ExportRecords ==
  [status : {"none", "pending", "processing", "ready", "failed", "expired"},
   attempts : 0 .. MaxClaims, file : 0 .. MaxClaims, stale : BOOLEAN, past : BOOLEAN]
ExportQueues == [Report!JobIds -> {"none", "queued", "active", "finished"}]
MakerStates ==
  {Report!Idle} \cup [pc : {"claim", "upload", "settle", "fail", "end", "throw"}, e : Exports,
                      job : Report!JobIds, claim : 0 .. MaxClaims]
SweeperStates ==
  {Report!Idle} \cup [pc : {"expire"}, todo : SUBSET Exports]
    \cup [pc : {"mark"}, todo : SUBSET Exports, e : Exports]
    \cup [pc : {"recover"}, todo : SUBSET [e : Exports, attempts : 0 .. MaxClaims]]

AtWorkOn(w, e) == maker[w].pc \in {"upload", "settle", "fail"} /\ maker[w].e = e

(* Whatever was lost: a worker past its claim has one that was made, what  *)
(* it is to settle for a waiting row is there, and the sweep expires rows  *)
(* that are ready and past.                                                *)
ExportHolds(e) ==
  /\ \A w \in Workers : AtWorkOn(w, e) =>
       /\ maker[w].claim > 0 /\ maker[w].claim <= export[e].attempts
       /\ maker[w].pc = "settle" /\ Report!Waiting(e) => stored[e] # 0
  /\ sweeper.pc \in {"expire", "mark"} /\ e \in sweeper.todo => export[e].status = "ready" /\ export[e].past
  /\ sweeper.pc = "mark" /\ e = sweeper.e =>
       export[e].status = "ready" /\ export[e].past /\ e \notin sweeper.todo
  /\ export[e].status = "ready" => export[e].file = export[e].attempts /\ (stored[e] # 0 \/ export[e].past)

(* While no worker has outlived its claim, one at a time is past it, and   *)
(* the object is its own.                                                  *)
Undisturbed(e) ==
  /\ \A w \in Workers : AtWorkOn(w, e) =>
       /\ export[e].status = "processing" /\ ~export[e].stale /\ export[e].attempts = maker[w].claim
       /\ \A v \in Workers \ {w} : ~AtWorkOn(v, e)
       /\ maker[w].pc = "settle" => stored[e] = maker[w].claim
  /\ export[e].status = "ready" => stored[e] = export[e].file \/ export[e].past
  /\ export[e].status = "expired" => stored[e] = 0
  /\ sweeper.pc = "mark" /\ e = sweeper.e => stored[e] = 0

Stands(e) == ExportHolds(e) /\ (e \notin outlived => Undisturbed(e))
ExportsInv == Report!TypeOK /\ \A e \in Exports : Stands(e)

OutlivedStep == outlived' = outlived \cup {e \in Exports : Outlives(e)}

\* What the variables hold.
LEMMA ExportsTyped ==
  Report!TypeOK <=>
    /\ export \in [Exports -> ExportRecords] /\ stored \in [Exports -> 0 .. MaxClaims]
    /\ unqueued \subseteq Exports /\ queue \in [Exports -> ExportQueues]
    /\ maker \in [Workers -> MakerStates] /\ sweeper \in SweeperStates /\ mishaps \in 0 .. MaxMishaps
BY DEF Report!TypeOK, ExportRecords, ExportQueues, MakerStates, SweeperStates

\* The types of the next state.
LEMMA ExportsTypedNext ==
  ASSUME export' \in [Exports -> ExportRecords], stored' \in [Exports -> 0 .. MaxClaims],
         unqueued' \subseteq Exports, queue' \in [Exports -> ExportQueues],
         maker' \in [Workers -> MakerStates], sweeper' \in SweeperStates, mishaps' \in 0 .. MaxMishaps
  PROVE  Report!TypeOK'
BY DEF Report!TypeOK, ExportRecords, ExportQueues, MakerStates, SweeperStates

\* A row.
LEMMA ExportFields ==
  ASSUME NEW r \in ExportRecords
  PROVE  /\ r.status \in {"none", "pending", "processing", "ready", "failed", "expired"}
         /\ r.attempts \in Nat /\ r.attempts <= MaxClaims /\ r.file \in Nat
         /\ r.stale \in BOOLEAN /\ r.past \in BOOLEAN
BY QueueBounds DEF ExportRecords

\* A worker's record.
LEMMA MakerFields ==
  ASSUME NEW r \in MakerStates
  PROVE  /\ r.pc = "idle" <=> r = Report!Idle
         /\ r.pc # "idle" => /\ r.e \in Exports /\ r.job \in Report!JobIds
                             /\ r.claim \in Nat /\ r.claim <= MaxClaims
                             /\ r \in [pc : {"claim", "upload", "settle", "fail", "end", "throw"}, e : Exports,
                                       job : Report!JobIds, claim : 0 .. MaxClaims]
BY QueueBounds DEF MakerStates, Report!Idle

\* The sweep's record.
LEMMA SweeperFields ==
  ASSUME NEW r \in SweeperStates
  PROVE  /\ r.pc = "idle" <=> r = Report!Idle
         /\ r.pc \in {"expire", "mark"} => r.todo \subseteq Exports
         /\ r.pc = "mark" => r.e \in Exports
         /\ r.pc = "recover" => r.todo \subseteq [e : Exports, attempts : 0 .. MaxClaims]
BY DEF SweeperStates, Report!Idle

\* An export that no step has touched.
LEMMA ExportUntouched ==
  ASSUME ExportsInv, OutlivedStep, NEW e \in Exports, export'[e] = export[e], stored'[e] = stored[e],
         \A w \in Workers : AtWorkOn(w, e)' =>
           /\ AtWorkOn(w, e) /\ maker'[w].claim = maker[w].claim
           /\ maker'[w].pc = "settle" => maker[w].pc = "settle",
         sweeper'.pc \in {"expire", "mark"} /\ e \in sweeper'.todo => export[e].status = "ready" /\ export[e].past,
         sweeper'.pc = "mark" /\ e = sweeper'.e => sweeper' = sweeper
  PROVE  Stands(e)'
<1>1. Stands(e) /\ (e \notin outlived' => e \notin outlived)
  BY DEF ExportsInv, OutlivedStep
<1>2. ExportHolds(e)'
  BY <1>1 DEF Stands, ExportHolds, Report!Waiting
<1>3. ASSUME e \notin outlived' PROVE Undisturbed(e)'
  BY <1>1, <1>3 DEF Stands, Undisturbed
<1> QED BY <1>2, <1>3 DEF Stands

\* Nothing of the rows, the objects, the workers and the sweep moves.
LEMMA ExportQueueMoves ==
  ASSUME ExportsInv, OutlivedStep, UNCHANGED <<export, stored, maker, sweeper>>,
         unqueued' \subseteq Exports, queue' \in [Exports -> ExportQueues], mishaps' \in 0 .. MaxMishaps
  PROVE  ExportsInv'
<1>1. Report!TypeOK'
  BY ExportsTyped, ExportsTypedNext DEF ExportsInv
<1>2. ASSUME NEW e \in Exports PROVE Stands(e)'
  <2>1. ExportHolds(e)
    BY DEF ExportsInv, Stands
  <2>2. \A w \in Workers : AtWorkOn(w, e)' => AtWorkOn(w, e)
    BY DEF AtWorkOn
  <2> QED BY <2>1, <2>2, ExportUntouched DEF ExportHolds
<1> QED BY <1>1, <1>2 DEF ExportsInv

\* A job that comes to be somewhere else.
LEMMA JobBecomesTyped ==
  ASSUME Report!TypeOK, NEW e \in Exports, NEW j \in Report!JobIds,
         NEW at \in {"none", "queued", "active", "finished"}
  PROVE  Report!JobBecomes(e, j, at) \in [Exports -> ExportQueues]
<1>1. queue \in [Exports -> ExportQueues] /\ queue[e] \in ExportQueues
  BY ExportsTyped
<1>2. [queue[e] EXCEPT ![j] = at] \in ExportQueues
  BY <1>1 DEF ExportQueues
<1> QED BY <1>1, <1>2 DEF Report!JobBecomes

\* A job that is added, unless its id is known.
LEMMA AddedTyped ==
  ASSUME Report!TypeOK, NEW e \in Exports, NEW j \in Report!JobIds
  PROVE  Report!Added(e, j) \in [Exports -> ExportQueues]
BY JobBecomesTyped, ExportsTyped DEF Report!Added

\* A mishap is counted.
LEMMA MishapCounted ==
  ASSUME Report!TypeOK, Report!Mishap
  PROVE  mishaps' \in 0 .. MaxMishaps
BY QueueBounds DEF Report!TypeOK, Report!Mishap

\* The request adds its job, or is lost; a job is stalled, or forgotten.
LEMMA ExportJobs ==
  ASSUME ExportsInv, OutlivedStep, NEW e \in Exports,
         \/ Report!RequestAdds(e) \/ Report!RequestLost(e)
         \/ \E j \in Report!JobIds : Report!Stalled(e, j) \/ Report!Forget(e, j)
  PROVE  ExportsInv'
<1>1. /\ Report!TypeOK /\ unqueued \subseteq Exports /\ queue \in [Exports -> ExportQueues]
      /\ mishaps \in 0 .. MaxMishaps
  BY ExportsTyped DEF ExportsInv
<1>2. CASE Report!RequestAdds(e)
  <2>1. Report!Own \in Report!JobIds
    BY QueueBounds DEF Report!Own, Report!JobIds
  <2>2. queue' \in [Exports -> ExportQueues]
    BY <1>1, <1>2, <2>1, AddedTyped DEF Report!RequestAdds
  <2>3. unqueued' \subseteq Exports /\ mishaps' \in 0 .. MaxMishaps /\ UNCHANGED <<export, stored, maker, sweeper>>
    BY <1>1, <1>2 DEF Report!RequestAdds
  <2> QED BY <2>2, <2>3, ExportQueueMoves
<1>3. CASE Report!RequestLost(e)
  <2>1. mishaps' \in 0 .. MaxMishaps
    BY <1>1, <1>3, MishapCounted DEF Report!RequestLost
  <2>2. /\ unqueued' \subseteq Exports /\ queue' \in [Exports -> ExportQueues]
        /\ UNCHANGED <<export, stored, maker, sweeper>>
    BY <1>1, <1>3 DEF Report!RequestLost
  <2> QED BY <2>1, <2>2, ExportQueueMoves
<1>4. ASSUME NEW j \in Report!JobIds, Report!Stalled(e, j) \/ Report!Forget(e, j) PROVE ExportsInv'
  <2>1. /\ unqueued' \subseteq Exports /\ mishaps' \in 0 .. MaxMishaps
        /\ UNCHANGED <<export, stored, maker, sweeper>>
    BY <1>1, <1>4 DEF Report!Stalled, Report!Forget
  <2>2. PICK at \in {"none", "queued", "finished"} : queue' = Report!JobBecomes(e, j, at)
    BY <1>4 DEF Report!Stalled, Report!Forget
  <2>3. queue' \in [Exports -> ExportQueues]
    BY <1>1, <2>2, JobBecomesTyped
  <2> QED BY <2>1, <2>3, ExportQueueMoves
<1> QED BY <1>2, <1>3, <1>4

\* A worker moves, and not on to another claim or to the end of its upload.
LEMMA MakerMoves ==
  ASSUME ExportsInv, OutlivedStep, NEW w \in Workers, NEW r \in MakerStates,
         maker' = [maker EXCEPT ![w] = r], UNCHANGED <<export, stored, unqueued, sweeper>>,
         queue' \in [Exports -> ExportQueues], mishaps' \in 0 .. MaxMishaps,
         r.pc # "upload" /\ r.pc # "settle",
         r.pc = "fail" => /\ maker[w].pc \in {"upload", "settle", "fail"}
                          /\ r.e = maker[w].e /\ r.claim = maker[w].claim
  PROVE  ExportsInv'
<1>1. /\ export' \in [Exports -> ExportRecords] /\ stored' \in [Exports -> 0 .. MaxClaims]
      /\ unqueued' \subseteq Exports /\ sweeper' \in SweeperStates /\ maker \in [Workers -> MakerStates]
  BY ExportsTyped DEF ExportsInv
<1>2. /\ maker' \in [Workers -> MakerStates] /\ maker'[w] = r
      /\ \A v \in Workers : v # w => maker'[v] = maker[v]
  BY <1>1
<1>3. Report!TypeOK'
  BY <1>1, <1>2, ExportsTypedNext
<1>4. ASSUME NEW e \in Exports PROVE Stands(e)'
  <2>1. ExportHolds(e)
    BY DEF ExportsInv, Stands
  <2>2. ASSUME NEW v \in Workers, AtWorkOn(v, e)'
        PROVE  /\ AtWorkOn(v, e) /\ maker'[v].claim = maker[v].claim
               /\ maker'[v].pc = "settle" => maker[v].pc = "settle"
    <3>1. CASE v = w
      BY <1>2, <2>2, <3>1 DEF AtWorkOn
    <3>2. CASE v # w
      BY <1>2, <2>2, <3>2 DEF AtWorkOn
    <3> QED BY <3>1, <3>2
  <2>3. /\ export'[e] = export[e] /\ stored'[e] = stored[e]
        /\ sweeper'.pc \in {"expire", "mark"} /\ e \in sweeper'.todo => export[e].status = "ready" /\ export[e].past
        /\ sweeper'.pc = "mark" /\ e = sweeper'.e => sweeper' = sweeper
    BY <2>1 DEF ExportHolds
  <2> QED BY <2>2, <2>3, ExportUntouched
<1> QED BY <1>3, <1>4 DEF ExportsInv

\* What is known of a worker that has a job.
LEMMA MakerFacts ==
  ASSUME ExportsInv, NEW w \in Workers, maker[w].pc # "idle"
  PROVE  /\ maker[w] \in MakerStates /\ maker[w].e \in Exports /\ maker[w].job \in Report!JobIds
         /\ maker[w].claim \in Nat /\ maker[w].claim <= MaxClaims
         /\ maker[w] \in [pc : {"claim", "upload", "settle", "fail", "end", "throw"}, e : Exports,
                          job : Report!JobIds, claim : 0 .. MaxClaims]
         /\ Stands(maker[w].e) /\ Report!TypeOK /\ export[maker[w].e] \in ExportRecords
         /\ stored[maker[w].e] \in Nat
<1>1. Report!TypeOK /\ maker[w] \in MakerStates
  BY ExportsTyped DEF ExportsInv
<1>2. maker[w].e \in Exports
  BY <1>1, MakerFields
<1>3. export[maker[w].e] \in ExportRecords /\ stored[maker[w].e] \in Nat /\ Stands(maker[w].e)
  BY <1>1, <1>2, ExportsTyped, QueueBounds DEF ExportsInv
<1> QED BY <1>1, <1>2, <1>3, MakerFields

\* A worker takes a job, ends it or throws, or dies.
LEMMA MakerJobs ==
  ASSUME ExportsInv, OutlivedStep, NEW w \in Workers,
         \/ \E e \in Exports, j \in Report!JobIds : Report!Take(w, e, j)
         \/ Report!Ends(w) \/ Report!Throws(w) \/ Report!WorkerDies(w)
  PROVE  ExportsInv'
<1>1. /\ Report!TypeOK /\ queue \in [Exports -> ExportQueues] /\ mishaps \in 0 .. MaxMishaps
      /\ maker[w] \in MakerStates
  BY ExportsTyped DEF ExportsInv
<1>2. Report!Idle \in MakerStates /\ Report!Idle.pc = "idle"
  BY DEF MakerStates, Report!Idle
<1>3. ASSUME NEW e \in Exports, NEW j \in Report!JobIds, Report!Take(w, e, j) PROVE ExportsInv'
  <2>1. PICK r : r = [pc |-> "claim", e |-> e, job |-> j, claim |-> 0]
    OBVIOUS
  <2>2. r \in MakerStates /\ r.pc = "claim"
    BY <2>1, QueueBounds DEF MakerStates
  <2>3. queue' \in [Exports -> ExportQueues]
    BY <1>1, <1>3, JobBecomesTyped DEF Report!Take
  <2>4. /\ maker' = [maker EXCEPT ![w] = r] /\ mishaps' \in 0 .. MaxMishaps
        /\ UNCHANGED <<export, stored, unqueued, sweeper>>
    BY <1>1, <1>3, <2>1 DEF Report!Take
  <2> QED BY <2>2, <2>3, <2>4, MakerMoves
<1>4. CASE Report!Ends(w) \/ Report!Throws(w)
  <2>1. /\ maker' = [maker EXCEPT ![w] = Report!Idle] /\ mishaps' \in 0 .. MaxMishaps
        /\ UNCHANGED <<export, stored, unqueued, sweeper>> /\ maker[w].pc # "idle"
    BY <1>1, <1>4 DEF Report!Ends, Report!Throws
  <2>2. PICK at \in {"queued", "finished"} : queue' = Report!JobBecomes(maker[w].e, maker[w].job, at)
    BY <1>4 DEF Report!Ends, Report!Throws
  <2>3. queue' \in [Exports -> ExportQueues]
    BY <1>1, <2>1, <2>2, MakerFacts, JobBecomesTyped
  <2> QED BY <1>2, <2>1, <2>3, MakerMoves
<1>5. CASE Report!WorkerDies(w)
  <2>1. mishaps' \in 0 .. MaxMishaps
    BY <1>1, <1>5, MishapCounted DEF Report!WorkerDies
  <2>2. /\ maker' = [maker EXCEPT ![w] = Report!Idle] /\ queue' \in [Exports -> ExportQueues]
        /\ UNCHANGED <<export, stored, unqueued, sweeper>>
    BY <1>1, <1>5 DEF Report!WorkerDies
  <2> QED BY <1>2, <2>1, <2>2, MakerMoves
<1> QED BY <1>3, <1>4, <1>5

\* A worker goes on without settling a row: it did not get the claim, does
\* not hold it any more, or a store refuses.
LEMMA MakerGivesUp ==
  ASSUME ExportsInv, OutlivedStep, NEW w \in Workers,
         \/ Report!Claim(w) /\ ~Report!Claimable(maker[w].e)
         \/ (Report!SettleReady(w) \/ Report!SettleFailed(w)) /\ ~Report!Holds(w)
         \/ Report!StoreRefuses(w)
  PROVE  ExportsInv'
<1>1. maker[w].pc \in {"claim", "upload", "settle", "fail"}
  BY DEF Report!Claim, Report!SettleReady, Report!SettleFailed, Report!StoreRefuses
<1>2. /\ Report!TypeOK /\ queue \in [Exports -> ExportQueues] /\ mishaps \in 0 .. MaxMishaps
      /\ UNCHANGED <<export, stored, unqueued, queue, sweeper>>
  BY ExportsTyped DEF ExportsInv, Report!Claim, Report!SettleReady, Report!SettleFailed,
       Report!StoreRefuses, Report!WorkUnchanged
<1>3. mishaps' \in 0 .. MaxMishaps
  <2>1. mishaps' = mishaps \/ Report!Mishap
    BY DEF Report!Claim, Report!SettleReady, Report!SettleFailed, Report!StoreRefuses
  <2> QED BY <1>2, <2>1, MishapCounted
<1>4. PICK pc \in {"end", "fail", "throw"} :
        /\ Report!Goto(w, pc)
        /\ pc = "fail" => maker[w].pc \in {"upload", "settle"}
  BY DEF Report!Claim, Report!SettleReady, Report!SettleFailed, Report!StoreRefuses
<1>5. PICK r : r = [maker[w] EXCEPT !.pc = pc]
  OBVIOUS
<1>6. maker' = [maker EXCEPT ![w] = r]
  BY <1>4, <1>5 DEF Report!Goto
<1>7. /\ r \in MakerStates /\ r.pc = pc /\ r.e = maker[w].e /\ r.claim = maker[w].claim
  BY <1>1, <1>5, MakerFacts DEF MakerStates
<1> QED BY <1>2, <1>3, <1>4, <1>6, <1>7, MakerMoves

\* A worker and the export it is about move, and no other.
LEMMA MakerAndExport ==
  ASSUME ExportsInv, OutlivedStep, NEW w \in Workers, NEW r \in MakerStates, NEW e \in Exports,
         maker' = [maker EXCEPT ![w] = r], r.e = e,
         NEW x \in ExportRecords, export' = [export EXCEPT ![e] = x],
         NEW n \in 0 .. MaxClaims, stored' = [stored EXCEPT ![e] = n],
         UNCHANGED <<unqueued, queue, sweeper, mishaps>>, Stands(e)'
  PROVE  ExportsInv'
<1>1. /\ export \in [Exports -> ExportRecords] /\ stored \in [Exports -> 0 .. MaxClaims]
      /\ maker \in [Workers -> MakerStates] /\ unqueued' \subseteq Exports /\ sweeper' \in SweeperStates
      /\ queue' \in [Exports -> ExportQueues] /\ mishaps' \in 0 .. MaxMishaps
  BY ExportsTyped DEF ExportsInv
<1>2. /\ export' \in [Exports -> ExportRecords] /\ stored' \in [Exports -> 0 .. MaxClaims]
      /\ maker' \in [Workers -> MakerStates]
  BY <1>1
<1>3. Report!TypeOK'
  BY <1>1, <1>2, ExportsTypedNext
<1>4. ASSUME NEW y \in Exports, y # e PROVE Stands(y)'
  <2>1. ExportHolds(y)
    BY DEF ExportsInv, Stands
  <2>2. export'[y] = export[y] /\ stored'[y] = stored[y]
    BY <1>1, <1>4
  <2>3. ASSUME NEW v \in Workers, AtWorkOn(v, y)'
        PROVE  /\ AtWorkOn(v, y) /\ maker'[v].claim = maker[v].claim
               /\ maker'[v].pc = "settle" => maker[v].pc = "settle"
    <3>1. v # w
      BY <1>1, <1>4, <2>3 DEF AtWorkOn
    <3>2. maker'[v] = maker[v]
      BY <1>1, <3>1
    <3> QED BY <2>3, <3>2 DEF AtWorkOn
  <2>4. /\ sweeper'.pc \in {"expire", "mark"} /\ y \in sweeper'.todo => export[y].status = "ready" /\ export[y].past
        /\ sweeper'.pc = "mark" /\ y = sweeper'.e => sweeper' = sweeper
    BY <2>1 DEF ExportHolds
  <2> QED BY <2>2, <2>3, <2>4, ExportUntouched
<1> QED BY <1>3, <1>4 DEF ExportsInv

\* An attempt claims a row that no worker in time is at work on.
LEMMA MakerClaims ==
  ASSUME ExportsInv, OutlivedStep, NEW w \in Workers, Report!Claim(w), Report!Claimable(maker[w].e)
  PROVE  ExportsInv'
<1>1. PICK e : e = maker[w].e
  OBVIOUS
<1>2. /\ maker[w].pc = "claim" /\ e \in Exports /\ Stands(e) /\ Report!TypeOK
      /\ maker[w] \in [pc : {"claim", "upload", "settle", "fail", "end", "throw"}, e : Exports,
                       job : Report!JobIds, claim : 0 .. MaxClaims]
      /\ export[e] \in ExportRecords /\ export[e].attempts \in Nat
  BY <1>1, MakerFacts, ExportFields DEF Report!Claim
<1>3. PICK next : next = export[e].attempts + 1
  OBVIOUS
<1>4. /\ next \in 0 .. MaxClaims /\ next \in Nat /\ next > 0 /\ next > export[e].attempts
      /\ export[e].status = "pending" \/ (export[e].status = "processing" /\ export[e].stale)
  BY <1>1, <1>2, <1>3, QueueBounds DEF Report!Claimable
<1>5. PICK x : x = [export[e] EXCEPT !.status = "processing", !.attempts = next, !.stale = FALSE]
  OBVIOUS
<1>6. x \in ExportRecords /\ x.status = "processing" /\ x.attempts = next /\ ~x.stale
  BY <1>2, <1>4, <1>5 DEF ExportRecords
<1>7. PICK r : r = [maker[w] EXCEPT !.pc = "upload", !.claim = next]
  OBVIOUS
<1>8. r \in MakerStates /\ r.pc = "upload" /\ r.claim = next /\ r.e = e
  BY <1>1, <1>2, <1>4, <1>7 DEF MakerStates
<1>9. /\ export' = [export EXCEPT ![e] = x] /\ maker' = [maker EXCEPT ![w] = r]
      /\ UNCHANGED <<stored, unqueued, queue, sweeper, mishaps>>
  BY <1>1, <1>3, <1>5, <1>7 DEF Report!Claim, Report!WorkUnchanged
<1>10. /\ export \in [Exports -> ExportRecords] /\ stored \in [Exports -> 0 .. MaxClaims]
       /\ maker \in [Workers -> MakerStates]
  BY <1>2, ExportsTyped
<1>11. stored' = [stored EXCEPT ![e] = stored[e]] /\ stored[e] \in 0 .. MaxClaims
  BY <1>2, <1>9, <1>10
<1>12. export'[e] = x /\ maker'[w] = r /\ \A v \in Workers : v # w => maker'[v] = maker[v]
  BY <1>2, <1>9, <1>10
<1>13. ASSUME NEW v \in Workers, v # w, AtWorkOn(v, e)'
       PROVE  AtWorkOn(v, e) /\ maker'[v] = maker[v] /\ maker[v] \in MakerStates /\ maker[v].claim \in Nat
  <2>1. AtWorkOn(v, e) /\ maker'[v] = maker[v] /\ maker[v] \in MakerStates
    BY <1>10, <1>12, <1>13 DEF AtWorkOn
  <2> QED BY <2>1, MakerFields DEF AtWorkOn
<1>14. ExportHolds(e)'
  <2>1. ASSUME NEW v \in Workers, AtWorkOn(v, e)'
        PROVE  /\ maker'[v].claim > 0 /\ maker'[v].claim <= export'[e].attempts
               /\ maker'[v].pc = "settle" /\ Report!Waiting(e)' => stored'[e] # 0
    <3>1. CASE v = w
      BY <1>4, <1>6, <1>8, <1>12, <3>1
    <3>2. CASE v # w
      <4>1. /\ maker[v].claim > 0 /\ maker[v].claim <= export[e].attempts
            /\ maker[v].pc = "settle" => stored[e] # 0
        BY <1>2, <1>4, <1>13, <2>1, <3>2 DEF Stands, ExportHolds, Report!Waiting
      <4> QED BY <1>2, <1>4, <1>6, <1>9, <1>12, <1>13, <2>1, <3>2, <4>1
    <3> QED BY <3>1, <3>2
  <2>2. ~(sweeper.pc \in {"expire", "mark"} /\ e \in sweeper.todo) /\ ~(sweeper.pc = "mark" /\ e = sweeper.e)
    BY <1>2, <1>4 DEF Stands, ExportHolds
  <2> QED BY <1>6, <1>9, <1>12, <2>1, <2>2 DEF ExportHolds
<1>15. ASSUME e \notin outlived' PROVE Undisturbed(e)'
  <2>1. Undisturbed(e) /\ ExportHolds(e)
    BY <1>2, <1>15 DEF Stands, OutlivedStep
  <2>2. \A v \in Workers : v # w => ~AtWorkOn(v, e)'
    BY <1>4, <1>13, <2>1 DEF Undisturbed
  <2>3. ~(sweeper.pc = "mark" /\ e = sweeper.e)
    BY <1>4, <2>1 DEF ExportHolds
  <2>4. ASSUME NEW v \in Workers, AtWorkOn(v, e)'
        PROVE  /\ export'[e].status = "processing" /\ ~export'[e].stale /\ export'[e].attempts = maker'[v].claim
               /\ \A u \in Workers \ {v} : ~AtWorkOn(u, e)'
               /\ maker'[v].pc = "settle" => stored'[e] = maker'[v].claim
    BY <1>6, <1>8, <1>12, <2>2, <2>4
  <2> QED BY <1>6, <1>9, <1>12, <2>3, <2>4 DEF Undisturbed
<1> QED BY <1>2, <1>6, <1>8, <1>9, <1>11, <1>14, <1>15, MakerAndExport DEF Stands

\* The object of an attempt appears.
LEMMA MakerUploads ==
  ASSUME ExportsInv, OutlivedStep, NEW w \in Workers, Report!Upload(w)
  PROVE  ExportsInv'
<1>1. PICK e : e = maker[w].e
  OBVIOUS
<1>2. /\ maker[w].pc = "upload" /\ e \in Exports /\ Stands(e) /\ Report!TypeOK
      /\ maker[w] \in [pc : {"claim", "upload", "settle", "fail", "end", "throw"}, e : Exports,
                       job : Report!JobIds, claim : 0 .. MaxClaims]
      /\ export[e] \in ExportRecords /\ AtWorkOn(w, e)
  BY <1>1, MakerFacts DEF Report!Upload, AtWorkOn
<1>3. PICK n : n = maker[w].claim
  OBVIOUS
<1>4. n \in 0 .. MaxClaims /\ n # 0 /\ n \in Nat
  BY <1>2, <1>3, QueueBounds DEF Stands, ExportHolds
<1>5. PICK r : r = [maker[w] EXCEPT !.pc = "settle"]
  OBVIOUS
<1>6. r \in MakerStates /\ r.pc = "settle" /\ r.claim = n /\ r.e = e
  BY <1>1, <1>2, <1>3, <1>5 DEF MakerStates
<1>7. /\ stored' = [stored EXCEPT ![e] = n] /\ maker' = [maker EXCEPT ![w] = r]
      /\ UNCHANGED <<export, unqueued, queue, sweeper, mishaps>>
  BY <1>1, <1>3, <1>5 DEF Report!Upload, Report!Goto, Report!WorkUnchanged
<1>8. /\ export \in [Exports -> ExportRecords] /\ stored \in [Exports -> 0 .. MaxClaims]
      /\ maker \in [Workers -> MakerStates]
  BY <1>2, ExportsTyped
<1>9. export' = [export EXCEPT ![e] = export[e]]
  BY <1>2, <1>7, <1>8
<1>10. stored'[e] = n /\ maker'[w] = r /\ \A v \in Workers : v # w => maker'[v] = maker[v]
  BY <1>2, <1>7, <1>8
<1>11. ASSUME NEW v \in Workers, AtWorkOn(v, e)' PROVE AtWorkOn(v, e) /\ maker'[v].claim = maker[v].claim
  BY <1>2, <1>3, <1>6, <1>10, <1>11 DEF AtWorkOn
<1>12. ExportHolds(e)'
  <2>1. ASSUME NEW v \in Workers, AtWorkOn(v, e)'
        PROVE  maker'[v].claim > 0 /\ maker'[v].claim <= export'[e].attempts
    BY <1>2, <1>7, <1>11, <2>1 DEF Stands, ExportHolds
  <2> QED BY <1>2, <1>4, <1>7, <1>10, <2>1 DEF Stands, ExportHolds
<1>13. ASSUME e \notin outlived' PROVE Undisturbed(e)'
  <2>1. Undisturbed(e) /\ ExportHolds(e)
    BY <1>2, <1>13 DEF Stands, OutlivedStep
  <2>2. /\ export[e].status = "processing" /\ ~export[e].stale /\ export[e].attempts = maker[w].claim
        /\ \A v \in Workers \ {w} : ~AtWorkOn(v, e)
    BY <1>2, <2>1 DEF Undisturbed
  <2>3. \A v \in Workers \ {w} : ~AtWorkOn(v, e)'
    BY <1>11, <2>2
  <2>4. ASSUME NEW v \in Workers, AtWorkOn(v, e)'
        PROVE  /\ export'[e].status = "processing" /\ ~export'[e].stale /\ export'[e].attempts = maker'[v].claim
               /\ \A u \in Workers \ {v} : ~AtWorkOn(u, e)'
               /\ maker'[v].pc = "settle" => stored'[e] = maker'[v].claim
    <3>1. v = w
      BY <2>3, <2>4
    <3> QED BY <1>3, <1>6, <1>7, <1>10, <2>2, <2>3, <3>1
  <2>5. ~(sweeper.pc = "mark" /\ e = sweeper.e)
    BY <2>1, <2>2 DEF ExportHolds
  <2> QED BY <1>7, <2>2, <2>4, <2>5 DEF Undisturbed
<1> QED BY <1>2, <1>4, <1>6, <1>7, <1>9, <1>12, <1>13, MakerAndExport DEF Stands

\* The attempt that holds the claim settles the row.
LEMMA MakerSettles ==
  ASSUME ExportsInv, OutlivedStep, NEW w \in Workers, Report!SettleReady(w) \/ Report!SettleFailed(w),
         Report!Holds(w)
  PROVE  ExportsInv'
<1>1. PICK e : e = maker[w].e
  OBVIOUS
<1>2. /\ maker[w].pc \in {"settle", "fail"} /\ e \in Exports /\ Stands(e) /\ Report!TypeOK
      /\ maker[w] \in [pc : {"claim", "upload", "settle", "fail", "end", "throw"}, e : Exports,
                       job : Report!JobIds, claim : 0 .. MaxClaims]
      /\ export[e] \in ExportRecords /\ AtWorkOn(w, e)
      /\ export[e].status = "processing" /\ export[e].attempts = maker[w].claim
  BY <1>1, MakerFacts DEF Report!SettleReady, Report!SettleFailed, AtWorkOn, Report!Holds
<1>3. PICK r : r = [maker[w] EXCEPT !.pc = "end"]
  OBVIOUS
<1>4. r \in MakerStates /\ r.pc = "end" /\ r.e = e
  BY <1>1, <1>2, <1>3 DEF MakerStates
<1>5. PICK x \in ExportRecords :
        /\ export' = [export EXCEPT ![e] = x] /\ x.attempts = export[e].attempts /\ ~x.stale
        /\ \/ x.status = "ready" /\ x.file = maker[w].claim /\ maker[w].pc = "settle"
           \/ x.status = "failed"
  <2>1. CASE Report!SettleReady(w)
    <3>1. PICK x : x = [export[e] EXCEPT !.status = "ready", !.file = maker[w].claim, !.stale = FALSE]
      OBVIOUS
    <3>2. /\ x \in ExportRecords /\ x.status = "ready" /\ x.file = maker[w].claim
          /\ x.attempts = export[e].attempts /\ ~x.stale
      BY <1>2, <3>1 DEF ExportRecords
    <3>3. export' = [export EXCEPT ![e] = x] /\ maker[w].pc = "settle"
      BY <1>1, <2>1, <3>1 DEF Report!SettleReady
    <3> QED BY <3>2, <3>3
  <2>2. CASE Report!SettleFailed(w)
    <3>1. PICK x : x = [export[e] EXCEPT !.status = "failed", !.stale = FALSE]
      OBVIOUS
    <3>2. /\ x \in ExportRecords /\ x.status = "failed" /\ x.attempts = export[e].attempts /\ ~x.stale
      BY <1>2, <3>1 DEF ExportRecords
    <3>3. export' = [export EXCEPT ![e] = x]
      BY <1>1, <2>2, <3>1 DEF Report!SettleFailed
    <3> QED BY <3>2, <3>3
  <2> QED BY <2>1, <2>2
<1>6. maker' = [maker EXCEPT ![w] = r] /\ UNCHANGED <<stored, unqueued, queue, sweeper, mishaps>>
  BY <1>1, <1>3 DEF Report!SettleReady, Report!SettleFailed, Report!Goto, Report!WorkUnchanged
<1>7. /\ export \in [Exports -> ExportRecords] /\ stored \in [Exports -> 0 .. MaxClaims]
      /\ maker \in [Workers -> MakerStates]
  BY <1>2, ExportsTyped
<1>8. stored' = [stored EXCEPT ![e] = stored[e]] /\ stored[e] \in 0 .. MaxClaims
  BY <1>2, <1>6, <1>7
<1>9. export'[e] = x /\ maker'[w] = r /\ \A v \in Workers : v # w => maker'[v] = maker[v]
  BY <1>2, <1>5, <1>6, <1>7
<1>10. ASSUME NEW v \in Workers, AtWorkOn(v, e)' PROVE v # w /\ AtWorkOn(v, e) /\ maker'[v] = maker[v]
  BY <1>4, <1>9, <1>10 DEF AtWorkOn
<1>11. ~(sweeper.pc \in {"expire", "mark"} /\ e \in sweeper.todo) /\ ~(sweeper.pc = "mark" /\ e = sweeper.e)
  BY <1>2 DEF Stands, ExportHolds
<1>12. maker[w].pc = "settle" => stored[e] # 0
  BY <1>2 DEF Stands, ExportHolds, Report!Waiting
<1>13. ExportHolds(e)'
  <2>1. ASSUME NEW v \in Workers, AtWorkOn(v, e)'
        PROVE  maker'[v].claim > 0 /\ maker'[v].claim <= export'[e].attempts
    BY <1>2, <1>5, <1>9, <1>10, <2>1 DEF Stands, ExportHolds
  <2>2. ~Report!Waiting(e)'
    BY <1>5, <1>9 DEF Report!Waiting
  <2> QED BY <1>2, <1>5, <1>6, <1>9, <1>11, <1>12, <2>1, <2>2 DEF ExportHolds
<1>14. ASSUME e \notin outlived' PROVE Undisturbed(e)'
  <2>1. Undisturbed(e)
    BY <1>2, <1>14 DEF Stands, OutlivedStep
  <2>2. \A v \in Workers : ~AtWorkOn(v, e)'
    BY <1>2, <1>10, <2>1 DEF Undisturbed
  <2>3. maker[w].pc = "settle" => stored[e] = maker[w].claim
    BY <1>2, <2>1 DEF Undisturbed
  <2> QED BY <1>5, <1>6, <1>9, <1>11, <2>2, <2>3 DEF Undisturbed
<1> QED BY <1>2, <1>4, <1>5, <1>6, <1>8, <1>13, <1>14, MakerAndExport DEF Stands

\* The row of one export moves, its object may, and the sweep goes no further
\* than to it.
LEMMA RowAndSweep ==
  ASSUME ExportsInv, OutlivedStep, NEW e \in Exports,
         NEW x \in ExportRecords, export' = [export EXCEPT ![e] = x],
         NEW n \in 0 .. MaxClaims, stored' = [stored EXCEPT ![e] = n],
         UNCHANGED <<queue, maker, mishaps>>, unqueued' \subseteq Exports, sweeper' \in SweeperStates,
         sweeper'.pc \in {"expire", "mark"} =>
           sweeper.pc \in {"expire", "mark"} /\ sweeper'.todo \subseteq sweeper.todo,
         sweeper'.pc = "mark" => sweeper' = sweeper \/ sweeper'.e = e,
         Stands(e)'
  PROVE  ExportsInv'
<1>1. /\ export \in [Exports -> ExportRecords] /\ stored \in [Exports -> 0 .. MaxClaims]
      /\ maker' \in [Workers -> MakerStates] /\ queue' \in [Exports -> ExportQueues]
      /\ mishaps' \in 0 .. MaxMishaps
  BY ExportsTyped DEF ExportsInv
<1>2. export' \in [Exports -> ExportRecords] /\ stored' \in [Exports -> 0 .. MaxClaims]
  BY <1>1
<1>3. Report!TypeOK'
  BY <1>1, <1>2, ExportsTypedNext
<1>4. ASSUME NEW y \in Exports, y # e PROVE Stands(y)'
  <2>1. ExportHolds(y)
    BY DEF ExportsInv, Stands
  <2>2. export'[y] = export[y] /\ stored'[y] = stored[y]
    BY <1>1, <1>4
  <2>3. \A v \in Workers : AtWorkOn(v, y)' => AtWorkOn(v, y)
    BY DEF AtWorkOn
  <2>4. sweeper'.pc \in {"expire", "mark"} /\ y \in sweeper'.todo => export[y].status = "ready" /\ export[y].past
    BY <2>1 DEF ExportHolds
  <2>5. sweeper'.pc = "mark" /\ y = sweeper'.e => sweeper' = sweeper
    BY <1>4
  <2> QED BY <2>2, <2>3, <2>4, <2>5, ExportUntouched
<1> QED BY <1>3, <1>4 DEF ExportsInv

\* What is known of an export.
LEMMA ExportFacts ==
  ASSUME ExportsInv, NEW e \in Exports
  PROVE  /\ export[e] \in ExportRecords /\ stored[e] \in 0 .. MaxClaims /\ stored = [stored EXCEPT ![e] = stored[e]]
         /\ 0 \in 0 .. MaxClaims
         /\ Stands(e) /\ Report!TypeOK /\ unqueued \subseteq Exports /\ sweeper \in SweeperStates
         /\ \A x : export' = [export EXCEPT ![e] = x] => export'[e] = x
         /\ \A n : stored' = [stored EXCEPT ![e] = n] => stored'[e] = n
BY ExportsTyped, QueueBounds DEF ExportsInv

\* An export is asked for, waits for too long, or runs out.
LEMMA ExportTime ==
  ASSUME ExportsInv, OutlivedStep, NEW e \in Exports,
         Report!RequestExport(e) \/ Report!GoesStale(e) \/ Report!RunsOut(e)
  PROVE  ExportsInv'
<1>1. /\ UNCHANGED <<stored, queue, maker, sweeper, mishaps>> /\ unqueued' \subseteq Exports
      /\ export[e] \in ExportRecords /\ Stands(e) /\ sweeper' \in SweeperStates
      /\ stored' = [stored EXCEPT ![e] = stored[e]] /\ stored[e] \in 0 .. MaxClaims
      /\ export[e].attempts \in Nat
  BY ExportFacts, ExportFields DEF Report!RequestExport, Report!GoesStale, Report!RunsOut
<1>2. \A v \in Workers : AtWorkOn(v, e)' <=> AtWorkOn(v, e)
  BY <1>1 DEF AtWorkOn
<1>3. CASE Report!RequestExport(e)
  <2>1. PICK x : x = [export[e] EXCEPT !.status = "pending"]
    OBVIOUS
  <2>2. /\ x \in ExportRecords /\ x.status = "pending" /\ export' = [export EXCEPT ![e] = x]
        /\ export[e].status = "none" /\ export[e].attempts = 0
    <3>1. x \in ExportRecords /\ x.status = "pending"
      BY <1>1, <2>1 DEF ExportRecords
    <3>2. export[e].status = "none" /\ export[e].attempts = 0
      BY <1>3 DEF Report!RequestExport, Report!NoExport
    <3>3. export' = [export EXCEPT ![e] = x]
      BY <1>3, <2>1 DEF Report!RequestExport
    <3> QED BY <3>1, <3>2, <3>3
  <2>3. export'[e] = x
    BY <2>2, ExportFacts
  <2>4. \A v \in Workers : ~AtWorkOn(v, e)
    <3>1. ASSUME NEW v \in Workers, AtWorkOn(v, e) PROVE FALSE
      <4>1. maker[v].claim \in Nat
        BY <3>1, MakerFacts DEF AtWorkOn
      <4> QED BY <1>1, <2>2, <3>1, <4>1 DEF Stands, ExportHolds
    <3> QED BY <3>1
  <2>5. Stands(e)'
    BY <1>1, <1>2, <2>2, <2>3, <2>4 DEF Stands, ExportHolds, Undisturbed
  <2> QED BY <1>1, <2>2, <2>5, RowAndSweep
<1>4. CASE Report!GoesStale(e)
  <2>1. PICK x : x = [export[e] EXCEPT !.stale = TRUE]
    OBVIOUS
  <2>2. /\ x \in ExportRecords /\ x.status = export[e].status /\ x.attempts = export[e].attempts /\ x.stale
        /\ export' = [export EXCEPT ![e] = x]
        /\ export[e].status \in {"pending", "processing"} /\ ~export[e].stale
    BY <1>1, <1>4, <2>1 DEF Report!GoesStale, Report!Waiting, ExportRecords
  <2>3. export'[e] = x
    BY <2>2, ExportFacts
  <2>4. ~(sweeper.pc \in {"expire", "mark"} /\ e \in sweeper.todo) /\ ~(sweeper.pc = "mark" /\ e = sweeper.e)
    BY <1>1, <2>2 DEF Stands, ExportHolds
  <2>5. ExportHolds(e)'
    BY <1>1, <1>2, <2>2, <2>3, <2>4 DEF Stands, ExportHolds, Report!Waiting
  <2>6. ASSUME e \notin outlived' PROVE Undisturbed(e)'
    <3>1. \A v \in Workers : ~AtWorkOn(v, e)
      BY <2>2, <2>3, <2>6 DEF OutlivedStep, Outlives, AtWork, AtWorkOn
    <3> QED BY <1>1, <1>2, <2>2, <2>3, <2>4, <3>1 DEF Undisturbed
  <2> QED BY <1>1, <2>2, <2>5, <2>6, RowAndSweep DEF Stands
<1>5. CASE Report!RunsOut(e)
  <2>1. PICK x : x = [export[e] EXCEPT !.past = TRUE]
    OBVIOUS
  <2>2. /\ x \in ExportRecords /\ x.status = "ready" /\ x.attempts = export[e].attempts /\ x.past
        /\ x.file = export[e].file /\ export' = [export EXCEPT ![e] = x] /\ export[e].status = "ready"
    BY <1>1, <1>5, <2>1 DEF Report!RunsOut, ExportRecords
  <2>3. export'[e] = x
    BY <2>2, ExportFacts
  <2>4. ExportHolds(e)'
    <3>1. \A v \in Workers : AtWorkOn(v, e)' => maker'[v].claim > 0 /\ maker'[v].claim <= export'[e].attempts
      BY <1>1, <1>2, <2>2, <2>3 DEF Stands, ExportHolds
    <3> QED BY <1>1, <2>2, <2>3, <3>1 DEF Stands, ExportHolds, Report!Waiting
  <2>5. ASSUME e \notin outlived' PROVE Undisturbed(e)'
    <3>1. Undisturbed(e)
      BY <1>1, <2>5 DEF Stands, OutlivedStep
    <3> QED BY <1>1, <1>2, <2>2, <2>3, <3>1 DEF Undisturbed
  <2> QED BY <1>1, <2>2, <2>4, <2>5, RowAndSweep DEF Stands
<1> QED BY <1>3, <1>4, <1>5

\* The sweep moves on, without a row or an object.
LEMMA SweepMoves ==
  ASSUME ExportsInv, OutlivedStep, UNCHANGED <<export, stored, unqueued, maker>>,
         queue' \in [Exports -> ExportQueues], mishaps' \in 0 .. MaxMishaps,
         sweeper' \in SweeperStates, sweeper'.pc # "mark",
         sweeper'.pc = "expire" =>
           \A e \in sweeper'.todo : export[e].status = "ready" /\ export[e].past
  PROVE  ExportsInv'
<1>1. Report!TypeOK'
  BY ExportsTyped, ExportsTypedNext DEF ExportsInv
<1>2. ASSUME NEW e \in Exports PROVE Stands(e)'
  <2>1. \A w \in Workers : AtWorkOn(w, e)' => AtWorkOn(w, e)
    BY DEF AtWorkOn
  <2> QED BY <2>1, ExportUntouched
<1> QED BY <1>1, <1>2 DEF ExportsInv

\* The sweep begins, fails to purge, selects what is stranded, or dies.
LEMMA SweepSteps ==
  ASSUME ExportsInv, OutlivedStep,
         \/ Report!SweepBegins \/ Report!SelectStranded \/ Report!SweepDies
         \/ \E e \in Exports : Report!PurgeFails(e)
  PROVE  ExportsInv'
<1>1. /\ Report!TypeOK /\ queue \in [Exports -> ExportQueues] /\ mishaps \in 0 .. MaxMishaps
      /\ sweeper \in SweeperStates /\ export \in [Exports -> ExportRecords]
      /\ Report!Idle \in SweeperStates /\ Report!Idle.pc = "idle"
  BY ExportsTyped DEF ExportsInv, SweeperStates, Report!Idle
<1>2. /\ UNCHANGED <<export, stored, unqueued, maker>> /\ queue' \in [Exports -> ExportQueues]
      /\ mishaps' = mishaps \/ Report!Mishap
  BY <1>1 DEF Report!SweepBegins, Report!SelectStranded, Report!SweepDies, Report!PurgeFails, Report!SweepUnchanged
<1>3. mishaps' \in 0 .. MaxMishaps
  BY <1>1, <1>2, MishapCounted
<1>4. CASE Report!SweepBegins
  <2>1. PICK due : due = Report!Due
    OBVIOUS
  <2>2. due \subseteq Exports /\ \A e \in due : export[e].status = "ready" /\ export[e].past
    BY <2>1 DEF Report!Due
  <2>3. sweeper' = [pc |-> "expire", todo |-> due]
    BY <1>4, <2>1 DEF Report!SweepBegins
  <2>4. sweeper' \in SweeperStates /\ sweeper'.pc = "expire" /\ sweeper'.todo = due
    BY <2>2, <2>3 DEF SweeperStates
  <2> QED BY <1>2, <1>3, <2>2, <2>4, SweepMoves
<1>5. CASE Report!SelectStranded
  <2>1. PICK found : found = {[e |-> e, attempts |-> export[e].attempts] : e \in {x \in Exports : Report!Stranded(x)}}
    OBVIOUS
  <2>2. sweeper' = IF found = {} THEN Report!Idle ELSE [pc |-> "recover", todo |-> found]
    BY <1>5, <2>1 DEF Report!SelectStranded
  <2>3. found \subseteq [e : Exports, attempts : 0 .. MaxClaims]
    <3>1. \A e \in Exports : export[e].attempts \in 0 .. MaxClaims
      BY <1>1 DEF ExportRecords
    <3> QED BY <2>1, <3>1
  <2>4. CASE found = {}
    BY <1>1, <1>2, <1>3, <2>2, <2>4, SweepMoves
  <2>5. CASE found # {}
    <3>1. sweeper' \in SweeperStates /\ sweeper'.pc = "recover"
      BY <2>2, <2>3, <2>5 DEF SweeperStates
    <3> QED BY <1>2, <1>3, <3>1, SweepMoves
  <2> QED BY <2>4, <2>5
<1>6. CASE Report!SweepDies
  <2>1. sweeper' = Report!Idle
    BY <1>6 DEF Report!SweepDies
  <2> QED BY <1>1, <1>2, <1>3, <2>1, SweepMoves
<1>7. ASSUME NEW e \in Exports, Report!PurgeFails(e) PROVE ExportsInv'
  <2>1. /\ sweeper.pc = "expire" /\ sweeper' = [sweeper EXCEPT !.todo = sweeper.todo \ {e}]
    BY <1>7 DEF Report!PurgeFails
  <2>2. sweeper \in [pc : {"expire"}, todo : SUBSET Exports]
    BY <1>1, <2>1 DEF SweeperStates, Report!Idle
  <2>3. PICK rest : rest = sweeper.todo \ {e}
    OBVIOUS
  <2>4. rest \subseteq sweeper.todo /\ rest \in SUBSET Exports
    BY <2>2, <2>3
  <2>5. sweeper' \in SweeperStates /\ sweeper'.pc = "expire" /\ sweeper'.todo = rest
    BY <2>1, <2>2, <2>3, <2>4 DEF SweeperStates
  <2>6. \A y \in rest : export[y].status = "ready" /\ export[y].past
    BY <2>1, <2>2, <2>4 DEF ExportsInv, Stands, ExportHolds
  <2> QED BY <1>2, <1>3, <2>5, <2>6, SweepMoves
<1> QED BY <1>4, <1>5, <1>6, <1>7

\* The objects of an export are deleted, and then its row is marked.
LEMMA SweepExpires ==
  ASSUME ExportsInv, OutlivedStep, Report!MarkExpired \/ \E e \in Exports : Report!Purge(e)
  PROVE  ExportsInv'
<1>1. Report!TypeOK /\ sweeper \in SweeperStates /\ UNCHANGED <<queue, maker, mishaps, unqueued>>
  BY ExportsTyped DEF ExportsInv, Report!MarkExpired, Report!Purge, Report!SweepUnchanged
<1>2. ASSUME NEW e \in Exports PROVE \A v \in Workers : AtWorkOn(v, e)' <=> AtWorkOn(v, e)
  BY <1>1 DEF AtWorkOn
<1>3. ASSUME NEW e \in Exports, Report!Purge(e) PROVE ExportsInv'
  <2>1. /\ sweeper.pc = "expire" /\ e \in sweeper.todo /\ sweeper.todo \subseteq Exports
        /\ stored' = [stored EXCEPT ![e] = 0] /\ export' = export
    BY <1>1, <1>3, SweeperFields DEF Report!Purge
  <2>2. PICK rest : rest = sweeper.todo \ {e}
    OBVIOUS
  <2>3. rest \in SUBSET Exports /\ rest \subseteq sweeper.todo /\ e \notin rest
    BY <2>1, <2>2
  <2>4. sweeper' = [pc |-> "mark", todo |-> rest, e |-> e]
    BY <1>3, <2>2 DEF Report!Purge
  <2>5. sweeper' \in SweeperStates /\ sweeper'.pc = "mark" /\ sweeper'.todo = rest /\ sweeper'.e = e
    BY <2>3, <2>4 DEF SweeperStates
  <2>6. /\ export[e] \in ExportRecords /\ Stands(e) /\ 0 \in 0 .. MaxClaims /\ unqueued' \subseteq Exports
        /\ stored'[e] = 0
    BY <1>1, <2>1, ExportFacts
  <2>7. export' = [export EXCEPT ![e] = export[e]]
    BY <1>1, <2>1, ExportsTyped
  <2>8. export[e].status = "ready" /\ export[e].past
    BY <2>1, <2>6 DEF Stands, ExportHolds
  <2>9. ExportHolds(e)'
    <3>1. \A v \in Workers : AtWorkOn(v, e)' => maker'[v].claim > 0 /\ maker'[v].claim <= export'[e].attempts
      BY <1>1, <1>2, <2>1, <2>6 DEF Stands, ExportHolds
    <3> QED BY <2>1, <2>3, <2>5, <2>6, <2>8, <3>1 DEF Stands, ExportHolds, Report!Waiting
  <2>10. ASSUME e \notin outlived' PROVE Undisturbed(e)'
    <3>1. Undisturbed(e)
      BY <2>6, <2>10 DEF Stands, OutlivedStep
    <3> QED BY <1>2, <2>1, <2>6, <2>8, <3>1 DEF Undisturbed
  <2>11. Stands(e)'
    BY <2>9, <2>10 DEF Stands
  <2>12. sweeper'.pc \in {"expire", "mark"} => sweeper.pc \in {"expire", "mark"} /\ sweeper'.todo \subseteq sweeper.todo
    BY <2>1, <2>3, <2>5
  <2> QED BY <1>1, <2>1, <2>5, <2>6, <2>7, <2>11, <2>12, RowAndSweep
<1>4. CASE Report!MarkExpired
  <2>1. PICK e : e = sweeper.e
    OBVIOUS
  <2>2. PICK rest : rest = sweeper.todo
    OBVIOUS
  <2>3. sweeper.pc = "mark" /\ e \in Exports /\ rest \in SUBSET Exports /\ stored' = stored
    BY <1>1, <1>4, <2>1, <2>2, SweeperFields DEF Report!MarkExpired
  <2>4. sweeper' = [pc |-> "expire", todo |-> rest]
    BY <1>4, <2>2 DEF Report!MarkExpired
  <2>5. sweeper' \in SweeperStates /\ sweeper'.pc = "expire" /\ sweeper'.todo = rest
    BY <2>3, <2>4 DEF SweeperStates
  <2>6. /\ export[e] \in ExportRecords /\ Stands(e) /\ stored[e] \in 0 .. MaxClaims /\ unqueued' \subseteq Exports
        /\ stored' = [stored EXCEPT ![e] = stored[e]] /\ 0 \in 0 .. MaxClaims
    BY <1>1, <2>3, ExportFacts
  <2>7. export[e].status = "ready" /\ e \notin rest
    BY <2>1, <2>2, <2>3, <2>6 DEF Stands, ExportHolds
  <2>8. PICK x : x = [export[e] EXCEPT !.status = "expired", !.file = 0]
    OBVIOUS
  <2>9. /\ x \in ExportRecords /\ x.status = "expired" /\ x.attempts = export[e].attempts
        /\ export' = [export EXCEPT ![e] = x]
    <3>1. x \in ExportRecords /\ x.status = "expired" /\ x.attempts = export[e].attempts
      BY <2>6, <2>8 DEF ExportRecords
    <3>2. export' = [export EXCEPT ![e] = x]
      BY <1>4, <2>1, <2>7, <2>8 DEF Report!MarkExpired
    <3> QED BY <3>1, <3>2
  <2>10. export'[e] = x
    BY <2>3, <2>9, ExportFacts
  <2>11. ExportHolds(e)'
    <3>1. \A v \in Workers : AtWorkOn(v, e)' => maker'[v].claim > 0 /\ maker'[v].claim <= export'[e].attempts
      BY <1>1, <1>2, <2>3, <2>6, <2>9, <2>10 DEF Stands, ExportHolds
    <3> QED BY <2>5, <2>7, <2>9, <2>10, <3>1 DEF ExportHolds, Report!Waiting
  <2>12. ASSUME e \notin outlived' PROVE Undisturbed(e)'
    <3>1. Undisturbed(e)
      BY <2>6, <2>12 DEF Stands, OutlivedStep
    <3>2. stored'[e] = 0 /\ \A v \in Workers : ~AtWorkOn(v, e)'
      BY <1>2, <2>1, <2>3, <2>7, <3>1 DEF Undisturbed
    <3> QED BY <2>5, <2>9, <2>10, <3>2 DEF Undisturbed
  <2>13. Stands(e)'
    BY <2>11, <2>12 DEF Stands
  <2>14. /\ sweeper'.pc \in {"expire", "mark"} =>
              sweeper.pc \in {"expire", "mark"} /\ sweeper'.todo \subseteq sweeper.todo
         /\ sweeper'.pc = "mark" => sweeper' = sweeper \/ sweeper'.e = e
    BY <2>2, <2>3, <2>5
  <2> QED BY <1>1, <2>3, <2>5, <2>6, <2>9, <2>13, <2>14, RowAndSweep
<1> QED BY <1>3, <1>4

\* The sweep takes one stranded row after the other.
LEMMA SweepRecovers ==
  ASSUME ExportsInv, NEW seen \in [e : Exports, attempts : 0 .. MaxClaims], Report!RecoverNext(seen)
  PROVE  /\ sweeper' \in SweeperStates /\ sweeper'.pc \in {"idle", "recover"}
         /\ UNCHANGED <<stored, unqueued, maker, mishaps>>
<1>1. sweeper \in SweeperStates /\ sweeper.pc = "recover"
  BY ExportsTyped DEF ExportsInv, Report!RecoverNext
<1>2. sweeper \in [pc : {"recover"}, todo : SUBSET [e : Exports, attempts : 0 .. MaxClaims]]
  BY <1>1 DEF SweeperStates, Report!Idle
<1>3. CASE sweeper.todo = {seen}
  BY <1>3 DEF Report!RecoverNext, SweeperStates, Report!Idle, Report!SweepUnchanged
<1>4. CASE sweeper.todo # {seen}
  <2>1. PICK rest : rest = sweeper.todo \ {seen}
    OBVIOUS
  <2>2. rest \in SUBSET [e : Exports, attempts : 0 .. MaxClaims]
    BY <1>2, <2>1
  <2>3. sweeper' = [sweeper EXCEPT !.todo = rest] /\ UNCHANGED <<stored, unqueued, maker, mishaps>>
    BY <1>4, <2>1 DEF Report!RecoverNext, Report!SweepUnchanged
  <2>4. sweeper' \in SweeperStates /\ sweeper'.pc = "recover"
    BY <1>2, <2>2, <2>3 DEF SweeperStates
  <2> QED BY <2>3, <2>4
<1> QED BY <1>3, <1>4

\* A stranded row is given a new job, or given up.
LEMMA SweepSettles ==
  ASSUME ExportsInv, OutlivedStep, NEW seen \in [e : Exports, attempts : 0 .. MaxClaims],
         Report!Abandon(seen) \/ Report!Requeue(seen)
  PROVE  ExportsInv'
<1>1. PICK e \in Exports : e = seen.e
  OBVIOUS
<1>2. /\ sweeper' \in SweeperStates /\ sweeper'.pc \in {"idle", "recover"}
      /\ UNCHANGED <<stored, unqueued, maker, mishaps>>
  BY SweepRecovers DEF Report!Abandon, Report!Requeue
<1>3. /\ Report!TypeOK /\ queue \in [Exports -> ExportQueues] /\ mishaps \in 0 .. MaxMishaps
      /\ unqueued' \subseteq Exports
  BY <1>2, ExportsTyped DEF ExportsInv
<1>4. CASE Report!Requeue(seen)
  <2>1. seen.attempts \in Report!JobIds
    BY DEF Report!JobIds, Report!Own
  <2>2. queue' \in [Exports -> ExportQueues] /\ export' = export
    BY <1>1, <1>3, <1>4, <2>1, AddedTyped DEF Report!Requeue
  <2> QED BY <1>2, <1>3, <2>2, SweepMoves
<1>5. CASE Report!Abandon(seen) /\ ~Report!Stranded(seen.e)
  BY <1>2, <1>3, <1>5, SweepMoves DEF Report!Abandon
<1>6. CASE Report!Abandon(seen) /\ Report!Stranded(seen.e)
  <2>1. /\ export[e] \in ExportRecords /\ Stands(e) /\ stored[e] \in 0 .. MaxClaims
        /\ stored' = [stored EXCEPT ![e] = stored[e]]
    BY <1>2, ExportFacts
  <2>2. PICK x : x = [export[e] EXCEPT !.status = "failed", !.stale = FALSE]
    OBVIOUS
  <2>3. x \in ExportRecords /\ x.status = "failed" /\ x.attempts = export[e].attempts
    BY <2>1, <2>2 DEF ExportRecords
  <2>4. export' = [export EXCEPT ![e] = x] /\ queue' = queue
    BY <1>1, <1>6, <2>2 DEF Report!Abandon
  <2>5. export'[e] = x
    BY <2>4, ExportFacts
  <2>6. \A v \in Workers : AtWorkOn(v, e)' <=> AtWorkOn(v, e)
    BY <1>2 DEF AtWorkOn
  <2>7. ExportHolds(e)'
    <3>1. \A v \in Workers : AtWorkOn(v, e)' => maker'[v].claim > 0 /\ maker'[v].claim <= export'[e].attempts
      BY <1>2, <2>1, <2>3, <2>5, <2>6 DEF Stands, ExportHolds
    <3> QED BY <1>2, <2>3, <2>5, <3>1 DEF ExportHolds, Report!Waiting
  <2>8. ASSUME e \notin outlived' PROVE Undisturbed(e)'
    <3>1. Undisturbed(e)
      BY <2>1, <2>8 DEF Stands, OutlivedStep
    <3>2. \A v \in Workers : ~AtWorkOn(v, e)'
      BY <1>1, <1>6, <2>6, <3>1 DEF Undisturbed, Report!Stranded
    <3> QED BY <1>2, <2>3, <2>5, <3>2 DEF Undisturbed
  <2>9. Stands(e)'
    BY <2>7, <2>8 DEF Stands
  <2>10. /\ sweeper'.pc \in {"expire", "mark"} =>
              sweeper.pc \in {"expire", "mark"} /\ sweeper'.todo \subseteq sweeper.todo
         /\ sweeper'.pc = "mark" => sweeper' = sweeper \/ sweeper'.e = e
    BY <1>2
  <2> QED BY <1>2, <1>3, <2>1, <2>3, <2>4, <2>9, <2>10, RowAndSweep
<1> QED BY <1>4, <1>5, <1>6

\* A step of an export's request, worker, job or sweep, or of the world.
LEMMA ExportsStep ==
  ASSUME ExportsInv, OutlivedStep, Report!Next
  PROVE  ExportsInv'
<1>1. CASE Report!SweepStep \/ Report!SweepDies
  <2>1. CASE Report!SweepBegins \/ Report!SelectStranded \/ Report!SweepDies
    BY <2>1, SweepSteps
  <2>2. CASE Report!MarkExpired \/ \E e \in Exports : Report!Purge(e)
    BY <2>2, SweepExpires
  <2>3. ASSUME NEW e \in Exports, NEW n \in 0 .. MaxClaims, NEW seen, seen = [e |-> e, attempts |-> n],
               Report!Abandon(seen) \/ Report!Requeue(seen)
        PROVE  ExportsInv'
    <3>1. seen \in [e : Exports, attempts : 0 .. MaxClaims]
      BY <2>3
    <3> QED BY <2>3, <3>1, SweepSettles
  <2> QED BY <1>1, <2>1, <2>2, <2>3 DEF Report!SweepStep
<1>2. ASSUME NEW e \in Exports,
             \/ Report!RequestExport(e) \/ Report!RequestAdds(e) \/ Report!RequestLost(e)
             \/ Report!GoesStale(e) \/ Report!RunsOut(e) \/ Report!PurgeFails(e)
             \/ \E j \in Report!JobIds : \/ Report!Stalled(e, j) \/ Report!Forget(e, j)
                                         \/ \E w \in Workers : Report!Take(w, e, j)
      PROVE  ExportsInv'
  <2>1. CASE Report!RequestExport(e) \/ Report!GoesStale(e) \/ Report!RunsOut(e)
    BY <2>1, ExportTime
  <2>2. CASE \/ Report!RequestAdds(e) \/ Report!RequestLost(e)
             \/ \E j \in Report!JobIds : Report!Stalled(e, j) \/ Report!Forget(e, j)
    BY <2>2, ExportJobs
  <2>3. CASE Report!PurgeFails(e)
    BY <2>3, SweepSteps
  <2>4. CASE \E j \in Report!JobIds, w \in Workers : Report!Take(w, e, j)
    BY <2>4, MakerJobs
  <2> QED BY <1>2, <2>1, <2>2, <2>3, <2>4
<1>3. ASSUME NEW w \in Workers, Report!RunStep(w) \/ Report!WorkerDies(w) \/ Report!StoreRefuses(w)
      PROVE  ExportsInv'
  <2>1. CASE Report!Claim(w)
    BY <2>1, MakerClaims, MakerGivesUp
  <2>2. CASE Report!SettleReady(w) \/ Report!SettleFailed(w)
    BY <2>2, MakerSettles, MakerGivesUp
  <2>3. CASE Report!Upload(w)
    BY <2>3, MakerUploads
  <2>4. CASE Report!Ends(w) \/ Report!Throws(w) \/ Report!WorkerDies(w)
    BY <2>4, MakerJobs
  <2>5. CASE Report!StoreRefuses(w)
    BY <2>5, MakerGivesUp
  <2> QED BY <1>3, <2>1, <2>2, <2>3, <2>4, <2>5 DEF Report!RunStep
<1> QED BY <1>1, <1>2, <1>3 DEF Report!Next

\* Before anything was asked for.
LEMMA ExportsInit ==
  ASSUME Report!Init, outlived = {}
  PROVE  ExportsInv
<1>1. Report!TypeOK
  <2>1. Report!NoExport \in ExportRecords /\ Report!Idle \in MakerStates /\ Report!Idle \in SweeperStates
    BY QueueBounds DEF Report!NoExport, Report!Idle, ExportRecords, MakerStates, SweeperStates
  <2>2. export \in [Exports -> ExportRecords] /\ maker \in [Workers -> MakerStates] /\ sweeper \in SweeperStates
    BY <2>1 DEF Report!Init
  <2>3. /\ stored \in [Exports -> 0 .. MaxClaims] /\ unqueued \subseteq Exports
        /\ queue \in [Exports -> ExportQueues] /\ mishaps \in 0 .. MaxMishaps
    BY QueueBounds DEF Report!Init, ExportQueues
  <2> QED BY <2>2, <2>3, ExportsTyped
<1>2. ASSUME NEW e \in Exports PROVE Stands(e)
  <2>1. export[e].status = "none" /\ sweeper.pc = "idle" /\ \A w \in Workers : maker[w].pc = "idle"
    BY DEF Report!Init, Report!NoExport, Report!Idle
  <2>2. \A w \in Workers : ~AtWorkOn(w, e)
    BY <2>1 DEF AtWorkOn
  <2> QED BY <2>1, <2>2 DEF Stands, ExportHolds, Undisturbed
<1> QED BY <1>1, <1>2 DEF ExportsInv

\* Nothing moves.
LEMMA ExportsRest ==
  ASSUME ExportsInv, UNCHANGED <<exportVars, outlived>>
  PROVE  ExportsInv'
<1>1. /\ UNCHANGED <<export, stored, maker, sweeper>> /\ unqueued' \subseteq Exports
      /\ queue' \in [Exports -> ExportQueues] /\ mishaps' \in 0 .. MaxMishaps
  BY ExportsTyped DEF ExportsInv, exportVars
<1>2. OutlivedStep
  BY <1>1 DEF OutlivedStep, Outlives, exportVars
<1> QED BY <1>1, <1>2, ExportQueueMoves

---------------------------------------------------------------------------
(* Both.                                                                   *)

QueuesInv == WebhooksInv /\ ExportsInv

\* The invariant of the queues.
LEMMA QueuesHold == QueuesSpec => []QueuesInv
<1>1. QueuesInit => QueuesInv
  BY WebhooksInit, ExportsInit DEF QueuesInit, QueuesInv
<1>2. QueuesInv /\ [QueuesNext]_allQueues => QueuesInv'
  <2> SUFFICES ASSUME QueuesInv, [QueuesNext]_allQueues PROVE QueuesInv'
    OBVIOUS
  <2>1. ASSUME Next, asked' = [d \in Deliveries |-> asked[d] + IF Asks(d) THEN 1 ELSE 0],
               UNCHANGED <<exportVars, outlived>>
        PROVE  QueuesInv'
    BY <2>1, AskedCounted, WebhooksStep, ExportsRest DEF QueuesInv
  <2>2. ASSUME Report!Next, outlived' = outlived \cup {e \in Exports : Outlives(e)},
               UNCHANGED <<webhookVars, asked>>
        PROVE  QueuesInv'
    BY <2>2, WebhooksRest, ExportsStep DEF QueuesInv, OutlivedStep
  <2>3. CASE UNCHANGED allQueues
    BY <2>3, WebhooksRest, ExportsRest DEF QueuesInv, allQueues
  <2> QED BY <2>1, <2>2, <2>3 DEF QueuesNext
<1> QED BY <1>1, <1>2, PTL DEF QueuesSpec

(* A receiver takes at most one copy of a webhook for each time one was    *)
(* asked for while nothing fails, whoever asks and however often, and a    *)
(* delivery never succeeds without a copy taken: for any numbers of        *)
(* deliveries, requests, workers, attempts and failures.                   *)
THEOREM CopiesAlwaysAsAsked == QueuesSpec => []CopiesAsAsked
<1>1. QueuesInv => CopiesAsAsked
  BY DEF QueuesInv, WebhooksInv, Faultless, CopiesFaultless, RowHolds, CopiesAsAsked
<1> QED BY <1>1, QueuesHold, PTL

(* Only the attempt that holds the newest claim settles an export, what it *)
(* is ready with is there, and it is the object of that very attempt as    *)
(* long as no worker outlives its claim: for any numbers of exports,       *)
(* workers, claims and mishaps.                                            *)
THEOREM ExportsAlwaysHold == QueuesSpec => []ExportsHold
<1>1. QueuesInv => ExportsHold
  BY DEF QueuesInv, ExportsInv, Stands, ExportHolds, Undisturbed, ExportsHold,
       Report!NewestClaimSettles, Report!ObjectIsTheRows
<1> QED BY <1>1, QueuesHold, PTL
=============================================================================
