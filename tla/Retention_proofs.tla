-------------------------- MODULE Retention_proofs ---------------------------
(***************************************************************************)
(* Disposal under retention, for any records, sweeps, policies, sign-offs, *)
(* clients and requests: what sweeps, the gate and the anonymisations of   *)
(* clients keep to, by an inductive invariant of each of the three parts.  *)
(***************************************************************************)
EXTENDS MCRetention, FiniteSetTheorems, TLAPS

-----------------------------------------------------------------------------
(* The sweeps.                                                             *)

Acts(s) == sweep[s].pc \in {"delete", "commit"}
Walks(s) == sweep[s].pc \in {"walk", "delete", "commit"}

\* A sweep knows the case of the row it is at, unless the row had none or is gone.
KnowsCase(s) ==
  Acts(s) =>
    /\ sweep[s].row \in Apps => sweep[s].app = sweep[s].row
    /\ sweep[s].row \in gone \/ sweep[s].app \in {None, Case(sweep[s].row)}
    /\ sweep[s].row \in Responses => sweep[s].pc = "commit"

\* What a sweep removes has stood its thirty days.
StoodGrace(s) ==
  /\ Walks(s) /\ sweep[s].phase = "hard" => sweep[s].page \subseteq matured
  /\ Acts(s) /\ sweep[s].phase = "hard" => sweep[s].row \in matured

\* Nothing a sweep is to dispose of is held, as long as nothing has disturbed it.
SparesHeld(s) ==
  /\ Walks(s) => \A r \in sweep[s].page : NotHeld(r)
  /\ Acts(s) => NotHeld(sweep[s].row)

\* The objects it is to delete are of its case, or of none.
SparesOfficial(s) ==
  sweep[s].pc = "delete" =>
    /\ \A k \in sweep[s].targets : link[k[1]] \in {sweep[s].app, None}
    /\ sweep[s].gate.authority \/ sweep[s].app \notin official

\* It knows of all objects of the files it reaches, and they are gone before the rows.
Disposed == anonymised \cup tombstoned \cup gone
ReachesAll(s) ==
  /\ sweep[s].pc = "delete" => \A e \in Cascade(sweep[s].row) \cap Evidence :
       e \in stray \/ (scan[e] = "none" /\ \A o \in objects : o[1] = e => o \in sweep[s].targets)
  /\ sweep[s].pc = "commit" => \A e \in Cascade(sweep[s].row) \cap Evidence :
       e \in stray \/ (scan[e] = "none" /\ ~Stored(e))
NamedWhereStored ==
  \A e \in Evidence : <<e, "quarantine">> \in objects => <<e, "quarantine">> \in keys \/ e \in Disposed

\* A sweep alone registers what is not yet disposed of.
Purges(s) == Walks(s) /\ sweep[s].phase = "soft" /\ sweep[s].gate.action = "purge"
RegistersNew(s) ==
  Purges(s) =>
    /\ sweep[s].page \subseteq Kind(sweep[s].gate) \ (tombstoned \cup gone)
    /\ Acts(s) => sweep[s].row \in Kind(sweep[s].gate) \ (tombstoned \cup gone \cup sweep[s].page)
OneSweep ==
  /\ \A s, t \in Busy : s = t
  /\ \A r \in Records : registered[r] <= 1 /\ (registered[r] = 1 => r \in tombstoned \cup gone)
  /\ \A s \in Sweeps : RegistersNew(s)

SweepHolds ==
  /\ TypeOK /\ PurgedIsRegistered /\ NothingLeft /\ NamedWhereStored /\ ripe \subseteq matured
  /\ \A s \in Sweeps : KnowsCase(s) /\ StoodGrace(s) /\ ReachesAll(s)
  /\ late \in BOOLEAN /\ (~late => \A s \in Sweeps : SparesHeld(s) /\ SparesOfficial(s))
  /\ overlap \in BOOLEAN /\ (~overlap => OneSweep)

-----------------------------------------------------------------------------
(* Sign-offs.                                                              *)

\* The sign-off made last is the current one, and one request knows it.
SignsAlone ==
  /\ \A c, d \in Signings : signing[c] # Idle /\ signing[d] # Idle => c = d
  /\ \A d \in Authority!SignoffIds : signoff[d].state = "current" <=>
       signoff[d] # Authority!Absent /\ \A q \in Authority!SignoffIds : signoff[q] # Authority!Absent => q <= d
  /\ \A c \in Signings :
       /\ signing[c].pc = "supersede" => signing[c].seen = Authority!Current
       /\ signing[c].pc = "insert" => signing[c].superseded = Authority!Current
\* Requests know only what there is.
KnowsOnlySigned ==
  /\ \A c \in Activations : activation[c].pc = "commit" => policy[activation[c].id] # Authority!Absent
  /\ \A c \in Signings :
       /\ signing[c].pc = "supersede" => \A d \in signing[c].seen : signoff[d] # Authority!Absent
       /\ signing[c].pc = "insert" => \A d \in signing[c].superseded : signoff[d] # Authority!Absent
\* Sign-offs come one after another, whoever makes them.
Contiguous == \A d \in Authority!SignoffIds : signoff[d] # Authority!Absent =>
                \A q \in 1 .. d - 1 : signoff[q] # Authority!Absent
AuthorityHolds ==
  /\ Authority!TypeOK /\ KnowsOnlySigned /\ Contiguous
  /\ ~crossed => SignsAlone

-----------------------------------------------------------------------------
(* Clients.                                                                *)

AnonymisesAlone ==
  /\ \A i, j \in Jobs : job[i] # Idle /\ job[j] # Idle => i = j
  /\ \A j \in Jobs, a \in Cases : job[j] # Idle /\ job[j].id = a =>
       /\ a \notin erased \cup purged
       /\ ~job[j].others => Client!Others(a) = {}
ClientHolds ==
  /\ Client!TypeOK
  /\ ~crossed => Client!BlankHasNoCase /\ Client!ErasedLeadsNowhere /\ AnonymisesAlone

RetentionHolds == /\ SweepHolds /\ AuthorityHolds /\ ClientHolds
                  /\ crossed \in BOOLEAN

-----------------------------------------------------------------------------
(* What the sweeps do.                                                     *)

\* A sweep is idle, walking or acting.
LEMMA SweepShape ==
  ASSUME TypeOK, NEW s \in Sweeps
  PROVE  /\ sweep[s] = Idle \/ sweep[s] \in Walking \/ sweep[s] \in Acting
         /\ sweep[s] # Idle <=> Walks(s)
         /\ sweep[s].pc = "walk" <=> sweep[s] \in Walking
         /\ Acts(s) <=> sweep[s] \in Acting
<1>1. sweep[s] \in {Idle} \cup Walking \cup Acting
  BY DEF TypeOK
<1>2. Idle.pc = "idle" /\ (\A x \in Walking : x.pc = "walk") /\ \A x \in Acting : x.pc \in {"delete", "commit"}
  BY DEF Idle, Walking, Acting
<1>3. \A x : x \in Walking => x # Idle /\ x \notin Acting
  BY <1>2
<1> QED BY <1>1, <1>2, <1>3 DEF Walks, Acts

\* A walk has ended or goes on with its page.
LEMMA WalkShape ==
  ASSUME NEW g \in Policies, NEW phase \in {"soft", "hard"}, NEW page \in SUBSET Records
  PROVE  \/ Walk(g, phase, page) = Idle
         \/ Walk(g, phase, page) = [pc |-> "walk", gate |-> g, phase |-> phase, page |-> page]
  BY DEF Walk

\* The case of a record is a case that is there, or none.
LEMMA CaseShape ==
  ASSUME TypeOK, NEW r \in Records
  PROVE  Case(r) \in Parents
<1>1. \A q \in Responses : FormApp[q] \in Parents
  BY RecordsAssumption DEF Parents
<1>2. \A q \in Evidence : link[q] \in Parents
  BY DEF TypeOK
<1> QED BY <1>1, <1>2 DEF Case, Parents, Records

\* What a row takes along is of its case.
LEMMA CascadeIs ==
  ASSUME NEW r \in Records
  PROVE  /\ Cascade(r) \subseteq Records \ gone
         /\ r \notin gone => r \in Cascade(r)
         /\ \A q \in Cascade(r) : q = r \/ (r \in Apps /\ Case(q) = r)
         /\ r \notin Apps => Cascade(r) \subseteq {r}
  BY DEF Cascade

\* What is due is of the policy's kind.
LEMMA DueIs ==
  ASSUME TypeOK, NEW g \in Policies
  PROVE  /\ Kind(g) \subseteq Records /\ DueSoft(g) \subseteq Kind(g) \ (gone \cup tombstoned)
         /\ DueHard(g) \subseteq Kind(g) \cap ripe
         /\ \A r \in DueSoft(g) \cup DueHard(g) : NotHeld(r)
<1>1. g.kind \in {"application", "evidence", "form_response"}
  BY RecordsAssumption DEF Gates
<1>2. Kind(g) \subseteq Records
  BY <1>1 DEF Kind, Records
<1> QED BY <1>2 DEF DueSoft, DueHard

\* What a sweep does with its own record.
Ends(s) == sweep'[s] = Idle
GoesOn(s) ==
  /\ sweep[s] # Idle /\ sweep'[s].pc = "walk" /\ sweep'[s].gate = sweep[s].gate
  /\ sweep'[s].phase = sweep[s].phase /\ sweep'[s].page \subseteq sweep[s].page
Loads(s) ==
  /\ sweep[s] = Idle /\ sweep'[s].pc = "walk" /\ sweep'[s].gate \in Policies
  /\ sweep'[s].phase = "soft" /\ sweep'[s].page \subseteq DueSoft(sweep'[s].gate)
LoadsHard(s) ==
  /\ sweep[s].pc = "walk" /\ sweep'[s].pc = "walk" /\ sweep'[s].gate = sweep[s].gate
  /\ sweep'[s].phase = "hard" /\ sweep'[s].page = DueHard(sweep'[s].gate)
Begins(s) ==
  /\ sweep[s].pc = "walk" /\ sweep'[s].row \in sweep[s].page
  /\ sweep'[s].pc = (IF sweep'[s].row \in Responses THEN "commit" ELSE "delete")
  /\ sweep'[s].gate = sweep[s].gate /\ sweep'[s].phase = sweep[s].phase
  /\ sweep'[s].page = sweep[s].page \ {sweep'[s].row}
  /\ sweep'[s].app = Case(sweep'[s].row) /\ sweep'[s].targets = ObjectTargets(sweep'[s].row)
  /\ ~DisposalBlocked(sweep'[s].app, sweep[s].gate.authority)
  /\ sweep'[s].row \notin gone \/ sweep'[s].row \in Responses
  /\ UNCHANGED <<rows, world, objects>>
Deletes(s) ==
  /\ sweep[s].pc = "delete" /\ sweep'[s].pc = "commit" /\ sweep'[s].gate = sweep[s].gate
  /\ sweep'[s].phase = sweep[s].phase /\ sweep'[s].page = sweep[s].page /\ sweep'[s].row = sweep[s].row
  /\ sweep'[s].app = sweep[s].app
  /\ objects' = objects \ sweep[s].targets /\ UNCHANGED <<rows, world>>

\* A sweep moves by itself: the actions of one leave the others' records alone.
OwnMove(s) ==
  \/ \E g \in Policies : \E page \in SUBSET DueSoft(g) : LoadSoft(s, g, page)
  \/ LoadHard(s) \/ (\E r \in Records : BeginRow(s, r))
  \/ DeleteTargets(s) \/ DeletionFails(s) \/ CommitRow(s) \/ CommitFails(s) \/ Crash(s)

LEMMA SweepMoves ==
  ASSUME TypeOK, NEW s \in Sweeps, OwnMove(s)
  PROVE  /\ \E x : sweep' = [sweep EXCEPT ![s] = x]
         /\ sweep'[s] = Idle \/ sweep'[s] \in Walking \/ sweep'[s] \in Acting
         /\ Ends(s) \/ GoesOn(s) \/ Loads(s) \/ LoadsHard(s) \/ Begins(s) \/ Deletes(s)
<1> DEFINE Good == /\ \E x : sweep' = [sweep EXCEPT ![s] = x]
                   /\ sweep'[s] = Idle \/ sweep'[s] \in Walking \/ sweep'[s] \in Acting
                   /\ Ends(s) \/ GoesOn(s) \/ Loads(s) \/ LoadsHard(s) \/ Begins(s) \/ Deletes(s)
<1>0. sweep \in [Sweeps -> {Idle} \cup Walking \cup Acting]
  BY DEF TypeOK
<1>1. ASSUME NEW g \in Policies, NEW page \in SUBSET DueSoft(g), LoadSoft(s, g, page) PROVE Good
  <2>1. sweep[s] = Idle /\ sweep' = [sweep EXCEPT ![s] = Walk(g, "soft", page)]
    BY <1>1 DEF LoadSoft
  <2>2. page \in SUBSET Records
    BY <1>1, DueIs
  <2>3. sweep'[s] = Idle \/ sweep'[s] = [pc |-> "walk", gate |-> g, phase |-> "soft", page |-> page]
    BY <1>0, <2>1, <2>2, WalkShape
  <2>4. sweep'[s] = [pc |-> "walk", gate |-> g, phase |-> "soft", page |-> page] => sweep'[s] \in Walking /\ Loads(s)
    BY <1>1, <2>1, <2>2 DEF Walking, Loads
  <2> QED BY <2>1, <2>3, <2>4 DEF Ends
<1>2. CASE LoadHard(s)
  <2>1. sweep[s] \in Walking /\ sweep[s].pc = "walk"
    BY <1>2, SweepShape DEF LoadHard
  <2>2. PICK g \in Policies : g = sweep[s].gate
    BY <2>1 DEF Walking
  <2>3. sweep' = [sweep EXCEPT ![s] = Walk(g, "hard", DueHard(g))]
    BY <1>2, <2>2 DEF LoadHard
  <2>4. DueHard(g) \in SUBSET Records
    BY DueIs
  <2>5. sweep'[s] = Idle \/ sweep'[s] = [pc |-> "walk", gate |-> g, phase |-> "hard", page |-> DueHard(g)]
    BY <1>0, <2>3, <2>4, WalkShape
  <2>6. sweep'[s] = [pc |-> "walk", gate |-> g, phase |-> "hard", page |-> DueHard(g)]
          => sweep'[s] \in Walking /\ LoadsHard(s)
    BY <2>1, <2>2, <2>4 DEF Walking, LoadsHard
  <2> QED BY <2>3, <2>5, <2>6 DEF Ends
<1>3. ASSUME sweep[s] # Idle, sweep[s] \in Walking \/ sweep[s] \in Acting, NEW page \in SUBSET sweep[s].page,
             sweep' = [sweep EXCEPT ![s] = Walk(sweep[s].gate, sweep[s].phase, page)]
      PROVE  Good
  <2>1. PICK g, phase : g = sweep[s].gate /\ phase = sweep[s].phase
    OBVIOUS
  <2>2. g \in Policies /\ phase \in {"soft", "hard"} /\ page \in SUBSET Records
    BY <1>3, <2>1 DEF Walking, Acting
  <2>3. sweep'[s] = Idle \/ sweep'[s] = [pc |-> "walk", gate |-> g, phase |-> phase, page |-> page]
    BY <1>0, <1>3, <2>1, <2>2, WalkShape
  <2>4. sweep'[s] = [pc |-> "walk", gate |-> g, phase |-> phase, page |-> page] => sweep'[s] \in Walking /\ GoesOn(s)
    BY <1>3, <2>1, <2>2 DEF Walking, GoesOn
  <2> QED BY <1>3, <2>3, <2>4 DEF Ends
<1>4. ASSUME NEW r \in Records, BeginRow(s, r) PROVE Good
  <2>1. sweep[s] \in Walking /\ sweep[s].pc = "walk" /\ sweep[s] # Idle /\ r \in sweep[s].page
    BY <1>4, SweepShape DEF BeginRow, Walks
  <2>2. PICK w : w = sweep[s]
    OBVIOUS
  <2> DEFINE x == [pc |-> IF r \in Responses THEN "commit" ELSE "delete",
                   gate |-> w.gate, phase |-> w.phase, page |-> w.page \ {r},
                   row |-> r, app |-> Case(r), targets |-> ObjectTargets(r)]
  <2>3. \/ sweep' = [sweep EXCEPT ![s] = Walk(w.gate, w.phase, w.page \ {r})]
        \/ /\ ~(DisposalBlocked(Case(r), w.gate.authority) \/ (r \in gone /\ r \notin Responses))
           /\ sweep' = [sweep EXCEPT ![s] = x]
    BY <1>4, <2>2 DEF BeginRow
  <2>4. CASE sweep' = [sweep EXCEPT ![s] = Walk(w.gate, w.phase, w.page \ {r})]
    <3>1. w.page \ {r} \in SUBSET sweep[s].page
      BY <2>2
    <3> QED BY <1>3, <2>1, <2>2, <2>4, <3>1
  <2>5. ASSUME ~(DisposalBlocked(Case(r), w.gate.authority) \/ (r \in gone /\ r \notin Responses)),
               sweep' = [sweep EXCEPT ![s] = x]
        PROVE  Good
    <3>1. sweep'[s] = x
      BY <1>0, <2>5
    <3>2. ObjectTargets(r) \subseteq Objects /\ Case(r) \in Parents
      BY CaseShape DEF ObjectTargets, TypeOK
    <3>3. x \in Acting
      BY <2>1, <2>2, <3>2 DEF Acting, Walking
    <3>4. Begins(s)
      BY <1>4, <2>1, <2>2, <2>5, <3>1 DEF Begins, BeginRow
    <3> QED BY <2>5, <3>1, <3>3, <3>4
  <2> QED BY <2>3, <2>4, <2>5
<1>5. CASE DeleteTargets(s)
  <2>1. sweep[s] \in Acting /\ sweep[s].pc = "delete"
    BY <1>5, SweepShape DEF DeleteTargets, Acts
  <2>2. sweep' = [sweep EXCEPT ![s].pc = "commit"] /\ sweep'[s] = [sweep[s] EXCEPT !.pc = "commit"]
    BY <1>0, <1>5 DEF DeleteTargets
  <2>3. sweep'[s] \in Acting /\ Deletes(s)
    BY <1>5, <2>1, <2>2 DEF Acting, Deletes, DeleteTargets
  <2> QED BY <2>2, <2>3
<1>6. CASE DeletionFails(s) \/ CommitRow(s) \/ CommitFails(s)
  <2>1. sweep[s] \in Acting /\ sweep[s] # Idle
    BY <1>6, SweepShape DEF DeletionFails, CommitRow, CommitFails, Acts, Walks
  <2>2. sweep' = [sweep EXCEPT ![s] = Walk(sweep[s].gate, sweep[s].phase, sweep[s].page)]
    BY <1>6 DEF DeletionFails, CommitRow, CommitFails, Resume
  <2> QED BY <1>3, <2>1, <2>2
<1>7. CASE Crash(s)
  BY <1>0, <1>7 DEF Crash, Ends
<1> QED BY <1>1, <1>2, <1>4, <1>5, <1>6, <1>7 DEF OwnMove

\* Only its own move changes what a sweep does.
LEMMA MovesItself ==
  ASSUME TypeOK, Next, NEW s \in Sweeps, sweep'[s] # sweep[s]
  PROVE  OwnMove(s)
<1>1. ASSUME NEW t \in Sweeps, t # s, OwnMove(t) PROVE FALSE
  <2>1. PICK x : sweep' = [sweep EXCEPT ![t] = x]
    BY <1>1, SweepMoves
  <2> QED BY <1>1, <2>1 DEF TypeOK
<1>2. (\E t \in Sweeps : OwnMove(t)) \/ UNCHANGED sweep
  BY DEF Next, OwnMove, GracePasses, DecideCase, AttachResponse, PlaceHold, ReleaseHold, ScanPromote, ScanSettle, ScanDies
<1> QED BY <1>1, <1>2

\* What a commit does to the rows.
LEMMA Commits ==
  ASSUME TypeOK, NEW s \in Sweeps, CommitRow(s)
  PROVE  /\ sweep[s] \in Acting /\ sweep[s].pc = "commit"
         /\ ~DisposalBlocked(sweep[s].app, sweep[s].gate.authority)
         /\ UNCHANGED <<official, held, scan, objects>>
         /\ \/ sweep[s].phase = "hard" /\ HardDelete(sweep[s].row)
            \/ sweep[s].phase = "soft" /\ sweep[s].gate.action = "anonymise" /\ Anonymise(sweep[s].row)
            \/ sweep[s].phase = "soft" /\ sweep[s].gate.action = "purge" /\ Tombstone(sweep[s].row)
<1>1. sweep[s] \in Acting /\ sweep[s].pc = "commit"
  BY SweepShape DEF CommitRow, Acts
<1> QED BY <1>1 DEF CommitRow, StillAllowed, world

\* The rows change by a commit, an attachment, the passing of time and the end of a scan.
LEMMA RowsMove ==
  ASSUME Next
  PROVE  \/ UNCHANGED rows
         \/ \E s \in Sweeps : CommitRow(s)
         \/ \E a \in Apps : \E f \in Responses : AttachResponse(f, a)
         \/ GracePasses
         \/ \E e \in Evidence : ScanSettle(e)
  BY DEF Next, LoadSoft, LoadHard, BeginRow, DeleteTargets, DeletionFails, CommitFails, Crash, DecideCase, PlaceHold,
         ReleaseHold, ScanPromote, ScanDies, rows

\* A row that is gone stays so, and takes what links to it along.
LEMMA LinksStay ==
  ASSUME TypeOK, Next
  PROVE  /\ gone \subseteq gone'
         /\ \A q \in Evidence \ gone' :
              link'[q] = link[q] \/ (link[q] = None /\ q \notin tombstoned)
         /\ \A r \in Records \ gone' : r \notin Evidence \/ link'[r] = link[r] => Case(r)' = Case(r)
         /\ \A r \in gone' : Case(r)' = None
         /\ \A q \in Evidence \cup Responses : link'[q] \in Parents \ gone'
<1>0. link \in [Evidence \cup Responses -> Parents \ gone] /\ Apps \subseteq Records /\ Evidence \subseteq Records
      /\ Apps \cap Evidence = {} /\ Apps \cap Responses = {} /\ Evidence \cap Responses = {}
      /\ None \notin Records /\ gone \subseteq Records
  BY RecordsAssumption DEF TypeOK, Records
<1>1. ASSUME NEW a \in Apps, NEW f \in Responses, AttachResponse(f, a)
      PROVE  /\ gone' = gone
             /\ \A q \in Evidence : link'[q] = link[q] \/ (link[q] = None /\ q \notin tombstoned)
             /\ \A q \in Evidence \cup Responses : link'[q] \in Parents \ gone'
  BY <1>0, <1>1 DEF AttachResponse, Parents
<1>2. ASSUME NEW s \in Sweeps, CommitRow(s)
      PROVE  /\ gone \subseteq gone'
             /\ \A q \in Evidence \ gone' : link'[q] = link[q]
             /\ \A q \in Evidence \cup Responses : link'[q] \in Parents \ gone'
  <2>1. PICK r : r = sweep[s].row
    OBVIOUS
  <2>2. r \in Records
    BY <1>2, <2>1, Commits DEF Acting
  <2>3. CASE HardDelete(r)
    <3>1. gone' = gone \cup Cascade(r) /\ link' = [q \in DOMAIN link |-> LinkWithout(q, Cascade(r))]
      BY <2>3 DEF HardDelete
    <3>2. ASSUME NEW q \in Evidence \ gone', link[q] \in Cascade(r) PROVE FALSE
      <4>1. link[q] \in Apps
        BY <1>0, <2>2, <3>2, CascadeIs DEF Parents
      <4>2. link[q] = r
        <5>1. r \notin Apps => link[q] = r
          BY <2>2, <3>2, CascadeIs
        <5>2. r \in Apps => link[q] = r \/ Case(link[q]) = r
          BY <2>2, <3>2, CascadeIs
        <5>3. Case(link[q]) \in {None, link[q]}
          BY <4>1 DEF Case
        <5> QED BY <1>0, <2>2, <5>1, <5>2, <5>3
      <4>3. Case(q) = r /\ q \in Records \ gone
        BY <1>0, <3>1, <3>2, <4>2 DEF Case
      <4> QED BY <3>1, <3>2, <4>1, <4>2, <4>3 DEF Cascade
    <3> QED BY <1>0, <2>2, <3>1, <3>2, CascadeIs DEF LinkWithout, Parents
  <2>4. CASE Anonymise(r) \/ Tombstone(r)
    BY <1>0, <2>4 DEF Anonymise, Tombstone
  <2> QED BY <1>2, <2>1, <2>3, <2>4, Commits
<1>3. ASSUME UNCHANGED <<link, gone>>
      PROVE  /\ gone' = gone /\ \A q \in Evidence : link'[q] = link[q]
             /\ \A q \in Evidence \cup Responses : link'[q] \in Parents \ gone'
  BY <1>0, <1>3
<1>4. /\ gone \subseteq gone'
      /\ \A q \in Evidence \ gone' : link'[q] = link[q] \/ (link[q] = None /\ q \notin tombstoned)
      /\ \A q \in Evidence \cup Responses : link'[q] \in Parents \ gone'
  BY <1>1, <1>2, <1>3, RowsMove DEF rows, GracePasses, ScanSettle
<1>5. \A r \in Records \ gone' : r \notin Evidence \/ link'[r] = link[r] => Case(r)' = Case(r)
  BY <1>0, <1>4 DEF Case
<1>6. \A r \in gone' : Case(r)' = None
  BY DEF Case
<1> QED BY <1>4, <1>5, <1>6

\* Objects are only made where a scan moves one, and removed as a sweep's targets.
LEMMA ObjectsMove ==
  ASSUME TypeOK, Next
  PROVE  \/ UNCHANGED objects
         \/ \E s \in Sweeps : /\ sweep[s].pc = "delete" /\ sweep'[s] # sweep[s]
                              /\ objects' \subseteq objects /\ objects \ objects' \subseteq sweep[s].targets
         \/ \E e \in Evidence : ScanPromote(e)
<1>1. ASSUME NEW s \in Sweeps, DeleteTargets(s) \/ DeletionFails(s)
      PROVE  /\ sweep[s].pc = "delete" /\ sweep'[s] # sweep[s]
             /\ objects' \subseteq objects /\ objects \ objects' \subseteq sweep[s].targets
  <2>1. sweep[s].pc = "delete"
    BY <1>1 DEF DeleteTargets, DeletionFails
  <2>2. sweep'[s].pc # "delete"
    <3>1. OwnMove(s)
      BY <1>1 DEF OwnMove
    <3>2. Ends(s) \/ GoesOn(s) \/ Loads(s) \/ LoadsHard(s) \/ Begins(s) \/ Deletes(s)
      BY <3>1, SweepMoves
    <3> QED BY <2>1, <3>2 DEF Ends, GoesOn, Loads, LoadsHard, Begins, Deletes, Idle
  <2>3. CASE DeleteTargets(s)
    BY <2>1, <2>2, <2>3 DEF DeleteTargets
  <2>4. CASE DeletionFails(s)
    BY <2>1, <2>2, <2>4 DEF DeletionFails
  <2> QED BY <1>1, <2>3, <2>4
<1> QED BY <1>1 DEF Next, LoadSoft, LoadHard, BeginRow, CommitRow, CommitFails, Crash,
                    GracePasses, DecideCase, AttachResponse, PlaceHold, ReleaseHold, ScanSettle, ScanDies

\* Every step keeps to the types of the variables.
LEMMA TypeStep == ASSUME TypeOK, Next PROVE TypeOK'
<1>0. /\ official \subseteq Apps /\ held \subseteq Records
      /\ anonymised \subseteq Records /\ gone \subseteq Records
      /\ tombstoned \subseteq Records /\ ripe \subseteq tombstoned
      /\ registered \in [Records -> 0 .. MaxRegister]
      /\ keys \subseteq Objects /\ objects \subseteq Objects
      /\ scan \in [Evidence -> {"none", "promoted"}]
      /\ sweep \in [Sweeps -> {Idle} \cup Walking \cup Acting] /\ DOMAIN link = Evidence \cup Responses
      /\ Apps \subseteq Records /\ MaxRegister \in Nat
  BY RecordsAssumption DEF TypeOK, Records
<1>1. sweep' \in [Sweeps -> {Idle} \cup Walking \cup Acting]
  <2>1. \A s \in Sweeps : sweep'[s] \in {Idle} \cup Walking \cup Acting
    BY <1>0, MovesItself, SweepMoves
  <2>2. ASSUME NEW s \in Sweeps, OwnMove(s) PROVE \E x : sweep' = [sweep EXCEPT ![s] = x]
    BY <2>2, SweepMoves
  <2>3. (\E s \in Sweeps : OwnMove(s)) \/ UNCHANGED sweep
    BY DEF Next, OwnMove, GracePasses, DecideCase, AttachResponse, PlaceHold, ReleaseHold, ScanPromote, ScanSettle,
           ScanDies
  <2> QED BY <1>0, <2>1, <2>2, <2>3
<1>2. link' \in [Evidence \cup Responses -> Parents \ gone']
  <2>1. \A q \in Evidence \cup Responses : link'[q] \in Parents \ gone'
    BY LinksStay
  <2>2. link' = [q \in Evidence \cup Responses |-> link'[q]]
    <3>1. UNCHANGED link \/ \E F : link' = [q \in DOMAIN link |-> F[q]]
      <4>1. ASSUME NEW s \in Sweeps, CommitRow(s) PROVE UNCHANGED link \/ \E F : link' = [q \in DOMAIN link |-> F[q]]
        <5>1. ASSUME NEW r, HardDelete(r) PROVE \E F : link' = [q \in DOMAIN link |-> F[q]]
          <6>1. link' = [q \in DOMAIN link |-> LinkWithout(q, Cascade(r))]
            BY <5>1 DEF HardDelete
          <6> WITNESS [q \in DOMAIN link |-> LinkWithout(q, Cascade(r))]
          <6> QED BY <6>1
        <5> QED BY <4>1, <5>1, Commits DEF Anonymise, Tombstone
      <4>2. ASSUME NEW a \in Apps, NEW f \in Responses, AttachResponse(f, a)
            PROVE  \E F : link' = [q \in DOMAIN link |-> F[q]]
        <5>1. DOMAIN link' = DOMAIN link /\ link' = [q \in DOMAIN link |-> link'[q]]
          BY <4>2 DEF AttachResponse
        <5> WITNESS link'
        <5> QED BY <5>1
      <4> QED BY <4>1, <4>2, RowsMove DEF rows, GracePasses, ScanSettle
    <3> QED BY <1>0, <3>1 DEF TypeOK
  <2> QED BY <2>1, <2>2
<1>3. ASSUME NEW s \in Sweeps, CommitRow(s)
      PROVE  /\ anonymised' \subseteq Records /\ gone' \subseteq Records /\ tombstoned' \subseteq Records
             /\ ripe' \subseteq tombstoned' /\ registered' \in [Records -> 0 .. MaxRegister]
             /\ keys' \subseteq Objects
  <2>1. PICK r \in Records : r = sweep[s].row
    BY <1>3, Commits DEF Acting
  <2>2. Cascade(r) \subseteq Records
    BY <2>1, CascadeIs
  <2> QED BY <1>0, <1>3, <2>1, <2>2, Commits DEF HardDelete, Anonymise, Tombstone
<1>4. /\ anonymised' \subseteq Records /\ gone' \subseteq Records /\ tombstoned' \subseteq Records
      /\ ripe' \subseteq tombstoned' /\ registered' \in [Records -> 0 .. MaxRegister]
      /\ keys' \subseteq Objects
  BY <1>0, <1>3, RowsMove DEF rows, AttachResponse, GracePasses, ScanSettle, Objects
<1>5. official' \subseteq Apps /\ held' \subseteq Records /\ scan' \in [Evidence -> {"none", "promoted"}]
  BY <1>0 DEF Next, LoadSoft, LoadHard, BeginRow, DeleteTargets, DeletionFails, CommitRow, CommitFails, Crash,
              GracePasses, DecideCase, AttachResponse, PlaceHold, ReleaseHold, ScanPromote, ScanSettle, ScanDies, world
<1>6. objects' \subseteq Objects
  <2>1. ASSUME NEW e \in Evidence, ScanPromote(e) PROVE objects' \subseteq Objects
    BY <1>0, <2>1 DEF ScanPromote, Objects
  <2>2. objects' \subseteq objects \/ \E e \in Evidence : ScanPromote(e)
    BY ObjectsMove
  <2> QED BY <1>0, <2>1, <2>2
<1> QED BY <1>1, <1>2, <1>4, <1>5, <1>6 DEF TypeOK

-----------------------------------------------------------------------------
(* What they may dispose of.                                               *)

\* A sweep that has found the case of its row knows it until the row is gone.
LEMMA CaseStaysKnown ==
  ASSUME TypeOK, Next, NEW s \in Sweeps, KnowsCase(s)
  PROVE  KnowsCase(s)'
<1>0. TypeOK' /\ None \notin Records /\ Apps \cap Evidence = {} /\ Apps \cap Responses = {} /\ Apps \subseteq Records
  BY TypeStep, RecordsAssumption DEF Records
<1>a. CASE ~Acts(s)'
  BY <1>a DEF KnowsCase
<1>1. ASSUME Acts(s)' PROVE sweep'[s] \in Acting /\ sweep'[s].row \in Records
  <2>1. sweep'[s] \in {Idle} \cup Walking \cup Acting
    BY <1>0 DEF TypeOK
  <2>2. Idle.pc = "idle" /\ \A x \in Walking : x.pc = "walk"
    BY DEF Idle, Walking
  <2> QED BY <1>1, <2>1, <2>2 DEF Acts, Acting
<1>b. CASE Acts(s)'
  <2>0. PICK r \in Records, app \in Parents : r = sweep'[s].row /\ app = sweep'[s].app
    BY <1>b, <1>1 DEF Acting
  <2>1. ASSUME r \notin gone', app \in {None, Case(r)} PROVE app \in {None, Case(r)'}
    <3>1. r \in Evidence => link'[r] = link[r] \/ link[r] = None
      BY <2>1, LinksStay
    <3>2. r \notin gone
      BY <2>1, LinksStay
    <3>3. CASE r \notin Evidence \/ link'[r] = link[r]
      BY <2>1, <3>3, LinksStay
    <3>4. CASE r \in Evidence /\ link[r] = None
      BY <1>0, <2>1, <3>2, <3>4 DEF Case
    <3> QED BY <3>1, <3>3, <3>4
  <2> DEFINE Known == /\ r \in Apps => app = r
                      /\ r \in gone' \/ app \in {None, Case(r)'}
                      /\ r \in Responses => sweep'[s].pc = "commit"
  <2> SUFFICES Known
    BY <2>0 DEF KnowsCase
  <2>3. CASE Acts(s) /\ sweep[s].row = r /\ app = sweep[s].app
             /\ (sweep'[s].pc = sweep[s].pc \/ sweep'[s].pc = "commit")
    <3>1. /\ r \in Apps => app = r
          /\ r \in gone \/ app \in {None, Case(r)}
          /\ r \in Responses => sweep'[s].pc = "commit"
      BY <2>3 DEF KnowsCase
    <3> QED BY <2>1, <3>1, LinksStay
  <2>4. CASE Begins(s)
    <3>1. app = Case(sweep'[s].row) /\ app = Case(r)
      BY <2>0, <2>4 DEF Begins
    <3>2. r \notin gone \/ r \in Responses
      BY <2>0, <2>4 DEF Begins
    <3>3. r \in Responses => sweep'[s].pc = "commit"
      BY <2>0, <2>4 DEF Begins
    <3>4. r \in Apps => app = r
      BY <1>0, <3>1, <3>2 DEF Case
    <3> QED BY <2>1, <3>1, <3>3, <3>4
  <2>5. CASE sweep'[s] = sweep[s]
    BY <1>b, <2>0, <2>3, <2>5 DEF Acts
  <2>6. CASE Deletes(s)
    BY <2>0, <2>3, <2>6 DEF Acts, Deletes
  <2>7. CASE Ends(s) \/ GoesOn(s) \/ Loads(s) \/ LoadsHard(s)
    BY <1>b, <2>7 DEF Ends, GoesOn, Loads, LoadsHard, Acts, Idle
  <2> QED BY <2>4, <2>5, <2>6, <2>7, MovesItself, SweepMoves
<1> QED BY <1>a, <1>b

\* What is disposed of is disposed of by a commit that reaches it.
LEMMA FateMoves ==
  ASSUME TypeOK, Next, NEW r \in Records, Fate(r)' # Fate(r)
  PROVE  \E s \in Sweeps : CommitRow(s) /\ r \in Cascade(sweep[s].row) /\ sweep'[s] # sweep[s]
<1>1. Fate(r)' = <<r \in anonymised', r \in tombstoned', r \in gone'>>
  BY DEF Fate
<1>2. ~UNCHANGED <<anonymised, tombstoned, gone>>
  BY <1>1 DEF Fate
<1>3. PICK s \in Sweeps : CommitRow(s)
  BY <1>2, RowsMove DEF rows, AttachResponse, GracePasses, ScanSettle
<1>4. r \in Cascade(sweep[s].row)
  <2>1. ASSUME r \notin Cascade(sweep[s].row)
        PROVE  (r \in anonymised' <=> r \in anonymised) /\ (r \in tombstoned' <=> r \in tombstoned)
               /\ (r \in gone' <=> r \in gone)
    BY <1>3, <2>1, Commits DEF HardDelete, Anonymise, Tombstone
  <2> QED BY <1>1, <2>1 DEF Fate
<1>5. sweep'[s] # sweep[s]
  <2>1. OwnMove(s) /\ sweep[s].pc = "commit"
    BY <1>3 DEF OwnMove, CommitRow
  <2>2. Ends(s) \/ GoesOn(s) \/ Loads(s) \/ LoadsHard(s) \/ Begins(s) \/ Deletes(s)
    BY <2>1, SweepMoves
  <2> QED BY <2>1, <2>2 DEF Ends, GoesOn, Loads, LoadsHard, Begins, Deletes, Idle
<1> QED BY <1>3, <1>4, <1>5

\* An official record is disposed of only with authority.
LEMMA OfficialStep ==
  ASSUME TypeOK, Next, \A s \in Sweeps : KnowsCase(s), NEW r \in Records,
         Fate(r)' # Fate(r), Case(r) \in official
  PROVE  \E s \in Sweeps : /\ sweep[s].pc = "commit" /\ sweep'[s] # sweep[s]
                           /\ sweep[s].gate.authority \/ sweep[s].app = None
<1>1. PICK s \in Sweeps : CommitRow(s) /\ r \in Cascade(sweep[s].row) /\ sweep'[s] # sweep[s]
  BY FateMoves
<1>2. PICK row \in Records, app \in Parents : row = sweep[s].row /\ app = sweep[s].app
  BY <1>1, Commits DEF Acting
<1>3. /\ sweep[s].pc = "commit" /\ ~DisposalBlocked(app, sweep[s].gate.authority)
      /\ row \in Apps => app = row
      /\ row \in gone \/ app \in {None, Case(row)}
  BY <1>1, <1>2, Commits DEF KnowsCase, Acts
<1>4. app = None \/ (app \notin gone /\ (sweep[s].gate.authority \/ app \notin official))
  BY <1>3 DEF DisposalBlocked
<1>5. r \notin gone /\ (r = row \/ (row \in Apps /\ Case(r) = row))
  BY <1>1, <1>2, CascadeIs
<1>6. app = None \/ app = Case(r)
  <2>1. CASE row \in Apps
    <3>1. r = row => Case(r) = row
      BY <1>5, <2>1 DEF Case
    <3> QED BY <1>3, <1>5, <2>1, <3>1
  <2>2. CASE row \notin Apps
    BY <1>3, <1>5, <2>2
  <2> QED BY <2>1, <2>2
<1>7. sweep[s].gate.authority \/ sweep[s].app = None
  BY <1>2, <1>4, <1>6
<1> QED BY <1>1, <1>3, <1>7

\* A row is removed only when it, or its case, has stood its thirty days.
LEMMA GraceStep ==
  ASSUME TypeOK, Next, \A s \in Sweeps : StoodGrace(s), NEW r \in gone' \ gone
  PROVE  r \in matured \/ Case(r) \in matured
<1>1. r \in Records
  BY TypeStep DEF TypeOK
<1>2. Fate(r)' # Fate(r)
  BY DEF Fate
<1>3. PICK s \in Sweeps : CommitRow(s) /\ r \in Cascade(sweep[s].row)
  BY <1>1, <1>2, FateMoves
<1>4. PICK row \in Records : row = sweep[s].row
  BY <1>3, Commits DEF Acting
<1>5. sweep[s].phase = "hard" /\ sweep[s].pc = "commit"
  BY <1>3, Commits DEF Anonymise, Tombstone
<1>6. row \in matured
  BY <1>4, <1>5 DEF StoodGrace, Acts
<1> QED BY <1>3, <1>4, <1>6, CascadeIs

\* The thirty days pass only when no sweep is at work.
LEMMA GraceStays ==
  ASSUME TypeOK, Next, ripe \subseteq matured, \A s \in Sweeps : StoodGrace(s),
         matured' = IF GracePasses THEN tombstoned ELSE matured
  PROVE  ripe' \subseteq matured' /\ \A s \in Sweeps : StoodGrace(s)'
<1>1. CASE GracePasses
  <2>1. ripe' \subseteq matured'
    BY <1>1 DEF GracePasses
  <2>2. ASSUME NEW s \in Sweeps PROVE StoodGrace(s)'
    BY <1>1, <2>2 DEF GracePasses, StoodGrace, Walks, Acts, Idle
  <2> QED BY <2>1, <2>2
<1>2. CASE ~GracePasses
  <2>1. matured' = matured
    BY <1>2
  <2>2. ripe' \subseteq ripe
    BY <1>2, RowsMove, Commits DEF rows, HardDelete, Anonymise, Tombstone, AttachResponse, ScanSettle
  <2>3. ASSUME NEW s \in Sweeps PROVE StoodGrace(s)'
    <3>0. /\ Walks(s) /\ sweep[s].phase = "hard" => sweep[s].page \subseteq matured
          /\ Acts(s) /\ sweep[s].phase = "hard" => sweep[s].row \in matured
      BY DEF StoodGrace
    <3>1. CASE sweep'[s] = sweep[s]
      BY <2>1, <3>0, <3>1 DEF StoodGrace, Walks, Acts
    <3>2. CASE Ends(s) \/ Loads(s)
      BY <3>2 DEF StoodGrace, Walks, Acts, Ends, Loads, Idle
    <3>3. CASE GoesOn(s)
      <4>1. Walks(s)
        BY <3>3, SweepShape DEF GoesOn
      <4> QED BY <2>1, <3>0, <3>3, <4>1 DEF StoodGrace, Acts, GoesOn
    <3>4. CASE LoadsHard(s)
      <4>1. PICK g \in Policies : g = sweep[s].gate
        BY <3>4, SweepShape DEF LoadsHard, Walking
      <4>2. sweep'[s].page = DueHard(g)
        BY <3>4, <4>1 DEF LoadsHard
      <4>3. sweep'[s].page \subseteq matured'
        BY <2>1, <4>1, <4>2, DueIs
      <4> QED BY <3>4, <4>3 DEF StoodGrace, Acts, LoadsHard
    <3>5. CASE Begins(s)
      BY <2>1, <3>0, <3>5 DEF StoodGrace, Walks, Begins
    <3>6. CASE Deletes(s)
      BY <2>1, <3>0, <3>6 DEF StoodGrace, Walks, Acts, Deletes
    <3> QED BY <3>1, <3>2, <3>3, <3>4, <3>5, <3>6, MovesItself, SweepMoves
  <2> QED BY <2>1, <2>2, <2>3
<1> QED BY <1>1, <1>2

-----------------------------------------------------------------------------
(* What is held.                                                           *)

\* Without a disturbance records lose the case they had, if anything.
Undisturbed == /\ held' = held /\ official' = official
               /\ \A f \in Responses : link[f] = link'[f] \/ f \in gone'

LEMMA CasesOnlyLost ==
  ASSUME TypeOK, Next, Undisturbed
  PROVE  /\ \A q \in Evidence \cup Responses : link'[q] \in {link[q], None}
         /\ \A q \in Records : Case(q)' \in {Case(q), None}
         /\ \A q \in Records : NotHeld(q) => NotHeld(q)'
<1>0. None \notin Records /\ held \subseteq Records /\ Apps \subseteq Records
  BY RecordsAssumption DEF TypeOK, Records
<1>1. \A q \in Evidence \cup Responses : link'[q] \in {link[q], None}
  <2>1. ASSUME NEW a \in Apps, NEW f \in Responses, AttachResponse(f, a) PROVE FALSE
    <3>1. link[f] = None /\ f \notin gone /\ gone' = gone
      BY <2>1 DEF AttachResponse
    <3>2. link'[f] = a
      BY <2>1 DEF AttachResponse, TypeOK
    <3> QED BY <1>0, <3>1, <3>2 DEF Undisturbed
  <2>2. ASSUME NEW s \in Sweeps, CommitRow(s) PROVE \A q \in Evidence \cup Responses : link'[q] \in {link[q], None}
    <3>1. ASSUME NEW r, HardDelete(r) PROVE \A q \in Evidence \cup Responses : link'[q] \in {link[q], None}
      BY <3>1 DEF HardDelete, LinkWithout, TypeOK
    <3> QED BY <2>2, <3>1, Commits DEF Anonymise, Tombstone
  <2> QED BY <2>1, <2>2, RowsMove DEF rows, GracePasses, ScanSettle
<1>2. ASSUME NEW q \in Records PROVE Case(q)' \in {Case(q), None}
  BY <1>1, LinksStay DEF Case, Records
<1>3. ASSUME NEW q \in Records, NotHeld(q) PROVE NotHeld(q)'
  <2>1. ASSUME NEW h \in held PROVE h # q /\ h # Case(q)' /\ (q \in Apps => Case(h)' # q)
    <3>1. h # q /\ h # Case(q) /\ (q \in Apps => Case(h) # q)
      BY <1>3 DEF NotHeld
    <3>2. Case(q)' \in {Case(q), None} /\ Case(h)' \in {Case(h), None} /\ h # None
      BY <1>0, <1>2
    <3> QED BY <1>0, <3>1, <3>2
  <2> QED BY <2>1 DEF NotHeld, Undisturbed
<1> QED BY <1>1, <1>2, <1>3

\* No sweep disposes of what was held when it began.
LEMMA HeldStep ==
  ASSUME TypeOK, Next, \A s \in Sweeps : SparesHeld(s), NEW r \in Records, Fate(r)' # Fate(r), NEW h \in held
  PROVE  ~Protects(h, r)
<1>1. PICK s \in Sweeps : CommitRow(s) /\ r \in Cascade(sweep[s].row)
  BY FateMoves
<1>2. PICK row \in Records : row = sweep[s].row
  BY <1>1, Commits DEF Acting
<1>3. NotHeld(row)
  BY <1>1, <1>2, Commits DEF SparesHeld, Acts
<1>4. h # row /\ h # Case(row) /\ (row \in Apps => Case(h) # row)
  BY <1>3 DEF NotHeld
<1>5. r \notin gone /\ (r = row \/ (row \in Apps /\ Case(r) = row))
  BY <1>1, <1>2, CascadeIs
<1>6. CASE r = row
  BY <1>4, <1>6 DEF Protects
<1>7. CASE r # row
  <2>1. r \notin Apps
    BY <1>5, <1>7 DEF Case
  <2> QED BY <1>4, <1>5, <1>7, <2>1 DEF Protects
<1> QED BY <1>6, <1>7

\* What a sweep is to dispose of stays free of holds and official cases.
LEMMA SparesStay ==
  ASSUME TypeOK, Next, NEW s \in Sweeps, Undisturbed, SparesHeld(s), SparesOfficial(s)
  PROVE  SparesHeld(s)' /\ SparesOfficial(s)'
<1>0. TypeOK' /\ None \notin Records /\ Apps \subseteq Records
  BY TypeStep, RecordsAssumption DEF Records
<1>1. SparesHeld(s)'
  <2>0. /\ Walks(s) => \A r \in sweep[s].page : NotHeld(r)
        /\ Acts(s) => NotHeld(sweep[s].row)
    BY DEF SparesHeld
  <2>1. ASSUME Walks(s)' PROVE \A r \in sweep'[s].page : r \in Records /\ NotHeld(r)
    <3>1. sweep[s] \in Walking \cup Acting => sweep[s].page \subseteq Records
      BY DEF Walking, Acting
    <3>2. sweep[s] # Idle => Walks(s) /\ sweep[s].page \subseteq Records
      BY <3>1, SweepShape
    <3>3. CASE sweep'[s] = sweep[s]
      BY <2>0, <2>1, <3>2, <3>3, SweepShape DEF Walks
    <3>4. CASE Ends(s)
      BY <2>1, <3>4 DEF Ends, Walks, Idle
    <3>5. CASE GoesOn(s)
      BY <2>0, <3>2, <3>5 DEF GoesOn
    <3>6. CASE Loads(s)
      <4>1. PICK g \in Policies : g = sweep'[s].gate
        BY <3>6 DEF Loads
      <4>2. sweep'[s].page \subseteq DueSoft(g)
        BY <3>6, <4>1 DEF Loads
      <4> QED BY <4>2, DueIs
    <3>7. CASE LoadsHard(s)
      <4>1. PICK g \in Policies : g = sweep[s].gate
        BY <3>7, SweepShape DEF LoadsHard, Walking
      <4>2. sweep'[s].page = DueHard(g)
        BY <3>7, <4>1 DEF LoadsHard
      <4> QED BY <4>2, DueIs
    <3>8. CASE Begins(s) \/ Deletes(s)
      BY <2>0, <3>2, <3>8, SweepShape DEF Begins, Deletes, Walks
    <3> QED BY <3>3, <3>4, <3>5, <3>6, <3>7, <3>8, MovesItself, SweepMoves
  <2>2. ASSUME Acts(s)' PROVE sweep'[s].row \in Records /\ NotHeld(sweep'[s].row)
    <3>1. CASE sweep'[s] = sweep[s]
      <4>1. Acts(s) /\ sweep[s] \in Acting
        BY <2>2, <3>1, SweepShape DEF Acts
      <4> QED BY <2>0, <3>1, <4>1 DEF Acting
    <3>2. CASE Begins(s)
      <4>1. sweep[s] \in Walking /\ Walks(s)
        BY <3>2, SweepShape DEF Begins, Walks
      <4> QED BY <2>0, <3>2, <4>1 DEF Begins, Walking
    <3>3. CASE Deletes(s)
      <4>1. sweep[s] \in Acting /\ Acts(s)
        BY <3>3, SweepShape DEF Deletes, Acts
      <4> QED BY <2>0, <3>3, <4>1 DEF Deletes, Acting
    <3>4. CASE Ends(s) \/ GoesOn(s) \/ Loads(s) \/ LoadsHard(s)
      BY <2>2, <3>4 DEF Ends, GoesOn, Loads, LoadsHard, Acts, Idle
    <3> QED BY <3>1, <3>2, <3>3, <3>4, MovesItself, SweepMoves
  <2>3. ASSUME Walks(s)' PROVE \A r \in sweep'[s].page : NotHeld(r)'
    BY <2>1, <2>3, CasesOnlyLost
  <2>4. ASSUME Acts(s)' PROVE NotHeld(sweep[s].row)'
    <3>1. PICK r : r = sweep'[s].row
      OBVIOUS
    <3>2. NotHeld(r)'
      BY <2>2, <2>4, <3>1, CasesOnlyLost
    <3> QED BY <3>1, <3>2
  <2> QED BY <2>3, <2>4 DEF SparesHeld
<1>2. SparesOfficial(s)'
  <2>1. CASE sweep'[s].pc # "delete"
    BY <2>1 DEF SparesOfficial
  <2>2. CASE sweep'[s] = sweep[s] /\ sweep[s].pc = "delete"
    <3>1. sweep[s] \in Acting
      BY <2>2, SweepShape DEF Acts
    <3>2. \A k \in sweep[s].targets : k[1] \in Evidence
      BY <3>1 DEF Acting, Objects
    <3>3. /\ \A k \in sweep[s].targets : link[k[1]] \in {sweep[s].app, None}
          /\ sweep[s].gate.authority \/ sweep[s].app \notin official
      BY <2>2 DEF SparesOfficial
    <3>4. \A k \in sweep[s].targets : link'[k[1]] \in {sweep[s].app, None}
      BY <3>2, <3>3, CasesOnlyLost
    <3> QED BY <2>2, <3>3, <3>4 DEF SparesOfficial, Undisturbed
  <2>3. CASE Begins(s) /\ sweep'[s].pc = "delete"
    <3>1. PICK r \in Records : r = sweep'[s].row
      <4>1. sweep[s] \in Walking
        BY <2>3, SweepShape DEF Begins
      <4> QED BY <2>3, <4>1 DEF Begins, Walking
    <3>2. /\ sweep'[s].app = Case(r) /\ sweep'[s].targets = ObjectTargets(r) /\ r \notin Responses /\ r \notin gone
          /\ ~DisposalBlocked(Case(r), sweep[s].gate.authority) /\ sweep'[s].gate = sweep[s].gate
          /\ UNCHANGED <<link, official>>
      BY <2>3, <3>1 DEF Begins, rows, world
    <3>3. ASSUME NEW k \in ObjectTargets(r) PROVE link[k[1]] = Case(r)
      <4>1. k[1] \in Evidence /\ k[1] \in Cascade(r)
        BY <3>3 DEF ObjectTargets, TypeOK, Objects
      <4>2. k[1] \notin gone /\ (k[1] = r \/ (r \in Apps /\ Case(k[1]) = r))
        BY <4>1, CascadeIs
      <4>3. Case(k[1]) = link[k[1]] /\ (r \in Apps => Case(r) = r)
        BY <3>2, <4>1, <4>2, RecordsAssumption DEF Case
      <4>4. r \in Apps => k[1] # r
        BY <4>1, RecordsAssumption
      <4> QED BY <4>2, <4>3, <4>4
    <3>4. sweep[s].gate.authority \/ Case(r) \notin official
      <4>1. None \notin official
        BY <1>0 DEF TypeOK
      <4> QED BY <3>2, <4>1 DEF DisposalBlocked
    <3> QED BY <3>2, <3>3, <3>4 DEF SparesOfficial
  <2>4. CASE Ends(s) \/ GoesOn(s) \/ Loads(s) \/ LoadsHard(s) \/ Deletes(s)
    BY <2>1, <2>4 DEF Ends, GoesOn, Loads, LoadsHard, Deletes, Idle
  <2> QED BY <2>1, <2>2, <2>3, <2>4, MovesItself, SweepMoves
<1> QED BY <1>1, <1>2

\* Objects of an official record are deleted only with authority.
LEMMA ObjectsStep ==
  ASSUME TypeOK, Next, \A s \in Sweeps : SparesOfficial(s),
         NEW e \in Evidence, Stored(e), ~Stored(e)', link[e] \in official
  PROVE  \E s \in Sweeps : sweep[s].pc = "delete" /\ sweep'[s] # sweep[s] /\ sweep[s].gate.authority
<1>1. PICK o \in objects : o[1] = e
  BY DEF Stored
<1>2. \A q \in objects' : q[1] # e
  BY DEF Stored
<1>3. ASSUME NEW d \in Evidence, ScanPromote(d) PROVE FALSE
  <2>1. objects' = (objects \ {<<d, "quarantine">>}) \cup {<<d, "evidence">>}
    BY <1>3 DEF ScanPromote
  <2>2. d # e
    <3>1. PICK k : k = <<d, "evidence">>
      OBVIOUS
    <3>2. k \in objects' /\ k[1] = d
      BY <2>1, <3>1
    <3> QED BY <1>2, <3>2
  <2>3. o \in objects'
    BY <1>1, <2>1, <2>2
  <2> QED BY <1>1, <1>2, <2>3
<1>4. o \notin objects'
  BY <1>1, <1>2
<1>5. PICK s \in Sweeps : /\ sweep[s].pc = "delete" /\ sweep'[s] # sweep[s]
                          /\ objects \ objects' \subseteq sweep[s].targets
  BY <1>1, <1>3, <1>4, ObjectsMove
<1>6. link[e] \in {sweep[s].app, None} /\ (sweep[s].gate.authority \/ sweep[s].app \notin official)
  BY <1>1, <1>4, <1>5 DEF SparesOfficial
<1>7. None \notin official
  BY RecordsAssumption DEF TypeOK, Records
<1> QED BY <1>5, <1>6, <1>7

-----------------------------------------------------------------------------
(* What is left of it.                                                     *)

\* What the disposals under way reach, and what has come in their way.
StrayStep ==
  stray' = stray \cup {e \in Evidence \cap Targeted' : scan'[e] # "none" \/ Lost(e)' \/ link'[e] # link[e]}

\* A file reached by a sweep at work, and not in its way, is neither scanned nor moved nor attached.
LEMMA NotStray ==
  ASSUME StrayStep, NEW s \in Sweeps, NEW row, Acts(s)', row = sweep'[s].row,
         NEW e \in Evidence, e \in Cascade(row)', e \notin stray'
  PROVE  e \notin stray /\ scan'[e] = "none" /\ ~Lost(e)' /\ link'[e] = link[e]
<1>1. e \in Targeted'
  BY DEF Targeted, Acts
<1> QED BY <1>1 DEF StrayStep

\* A file that was not moved keeps the case whose disposal takes it along.
LEMMA CascadeStays ==
  ASSUME TypeOK, Next, NEW row \in Records, NEW e \in Evidence, e \in Cascade(row)', link'[e] = link[e]
  PROVE  e \in Cascade(row) /\ e \notin gone'
<1>1. e \in Records \ gone' /\ (e = row \/ (row \in Apps /\ Case(e)' = row))
  BY DEF Cascade
<1> QED BY <1>1, LinksStay DEF Cascade

\* No object comes to a file that a scan does not move.
LEMMA NoNewObject ==
  ASSUME TypeOK, Next, NEW e \in Evidence, NEW o \in objects', o[1] = e,
         scan'[e] = "none" \/ ~Stored(e)
  PROVE  o \in objects
<1>1. ASSUME NEW d \in Evidence, ScanPromote(d), o \notin objects PROVE FALSE
  <2>1. o = <<d, "evidence">> /\ <<d, "quarantine">> \in objects /\ scan'[d] = "promoted"
    BY <1>1 DEF ScanPromote, TypeOK
  <2>2. d = e
    BY <2>1
  <2>3. PICK k : k = <<d, "quarantine">>
    OBVIOUS
  <2>4. k \in objects /\ k[1] = e
    BY <2>1, <2>2, <2>3
  <2>5. Stored(e)
    BY <2>4 DEF Stored
  <2> QED BY <2>1, <2>2, <2>5
<1> QED BY <1>1, ObjectsMove

\* What a sweep finds when it reads a row is all there is of its files.
LEMMA BeginsWithAll ==
  ASSUME TypeOK, NothingLeft, NamedWhereStored, NEW row \in Records, NEW e \in Cascade(row) \cap Evidence,
         e \notin stray, ~Lost(e), NEW o \in objects, o[1] = e
  PROVE  o \in ObjectTargets(row)
<1>1. o = <<e, "quarantine">> \/ o = <<e, "evidence">>
  BY DEF TypeOK, Objects
<1>2. Stored(e)
  BY DEF Stored
<1>3. e \notin Disposed
  BY <1>2 DEF NothingLeft, Disposed
<1>4. o \in keys
  BY <1>1, <1>3 DEF NamedWhereStored, Lost
<1> QED BY <1>4 DEF ObjectTargets

\* A sweep goes on to know of all objects of the files it reaches.
LEMMA ReachStays ==
  ASSUME TypeOK, Next, StrayStep, NothingLeft, NamedWhereStored, NEW s \in Sweeps, ReachesAll(s)
  PROVE  ReachesAll(s)'
<1>0. TypeOK'
  BY TypeStep
<1>a. CASE ~Acts(s)'
  BY <1>a DEF ReachesAll, Acts
<1>b. CASE Acts(s)'
  <2>1. PICK row \in Records : row = sweep'[s].row
    <3>1. sweep'[s] \in {Idle} \cup Walking \cup Acting
      BY <1>0 DEF TypeOK
    <3>2. Idle.pc = "idle" /\ \A x \in Walking : x.pc = "walk"
      BY DEF Idle, Walking
    <3> QED BY <1>b, <3>1, <3>2 DEF Acts, Acting
  <2> DEFINE T == sweep'[s].targets
  <2> SUFFICES ASSUME NEW e \in Evidence, e \in Cascade(row)', e \notin stray'
               PROVE  /\ scan'[e] = "none"
                      /\ sweep'[s].pc = "delete" => \A o \in objects' : o[1] = e => o \in T
                      /\ sweep'[s].pc = "commit" => ~Stored(e)'
    BY <2>1 DEF ReachesAll
  <2>2. e \notin stray /\ scan'[e] = "none" /\ ~Lost(e)' /\ link'[e] = link[e]
    BY <1>b, <2>1, NotStray
  <2>3. e \in Cascade(row)
    BY <2>2, CascadeStays
  <2>4. \A o \in objects' : o[1] = e => o \in objects
    BY <2>2, NoNewObject
  <2>5. CASE sweep'[s] = sweep[s]
    <3>1. Acts(s) /\ row = sweep[s].row
      BY <1>b, <2>1, <2>5 DEF Acts
    <3>2. /\ sweep[s].pc = "delete" => \A o \in objects : o[1] = e => o \in sweep[s].targets
          /\ sweep[s].pc = "commit" => ~Stored(e)
      BY <2>2, <2>3, <3>1 DEF ReachesAll
    <3> QED BY <2>2, <2>4, <2>5, <3>2 DEF Stored
  <2>6. CASE Deletes(s)
    <3>1. sweep[s].pc = "delete" /\ row = sweep[s].row /\ objects' = objects \ sweep[s].targets /\ sweep'[s].pc = "commit"
      BY <2>1, <2>6 DEF Deletes
    <3>2. \A o \in objects : o[1] = e => o \in sweep[s].targets
      BY <2>2, <2>3, <3>1 DEF ReachesAll
    <3> QED BY <2>2, <3>1, <3>2 DEF Stored
  <2>7. CASE Begins(s)
    <3>1. /\ UNCHANGED <<keys, objects>> /\ T = ObjectTargets(row)
          /\ sweep'[s].pc = (IF row \in Responses THEN "commit" ELSE "delete")
      BY <2>1, <2>7 DEF Begins, rows
    <3>2. ~Lost(e)
      BY <2>2, <3>1 DEF Lost
    <3>3. \A o \in objects : o[1] = e => o \in ObjectTargets(row)
      BY <2>2, <2>3, <3>2, BeginsWithAll
    <3>4. row \notin Responses
      BY <2>3, CascadeIs, RecordsAssumption
    <3> QED BY <2>2, <3>1, <3>3, <3>4
  <2>8. CASE Ends(s) \/ GoesOn(s) \/ Loads(s) \/ LoadsHard(s)
    BY <1>b, <2>8 DEF Ends, GoesOn, Loads, LoadsHard, Acts, Idle
  <2> QED BY <2>5, <2>6, <2>7, <2>8, MovesItself, SweepMoves
<1> QED BY <1>a, <1>b

\* What is disposed of stays so.
LEMMA DisposedStays ==
  ASSUME TypeOK, Next
  PROVE  Disposed \subseteq Disposed' /\ \A s \in Sweeps : CommitRow(s) => Cascade(sweep[s].row) \subseteq Disposed'
<1>1. ASSUME NEW s \in Sweeps, CommitRow(s)
      PROVE  Disposed \subseteq Disposed' /\ Cascade(sweep[s].row) \subseteq Disposed'
  BY <1>1, Commits DEF HardDelete, Anonymise, Tombstone, Disposed
<1>2. UNCHANGED <<anonymised, tombstoned, gone>> => Disposed \subseteq Disposed'
  BY DEF Disposed
<1> QED BY <1>1, <1>2, RowsMove DEF rows, AttachResponse, GracePasses, ScanSettle

\* Nothing of a disposed file stays in storage.
LEMMA NothingLeftStays ==
  ASSUME TypeOK, Next, StrayStep, NothingLeft, \A s \in Sweeps : ReachesAll(s)
  PROVE  NothingLeft'
<1> SUFFICES ASSUME NEW e \in Evidence, e \in (anonymised \cup tombstoned \cup gone)', e \notin stray'
             PROVE  ~Stored(e)'
  BY DEF NothingLeft
<1>1. e \notin stray /\ e \in Records
  BY DEF StrayStep, Records
<1>2. ~Stored(e)
  <2>1. CASE e \in anonymised \cup tombstoned \cup gone
    BY <1>1, <2>1 DEF NothingLeft
  <2>2. CASE e \notin anonymised \cup tombstoned \cup gone
    <3>1. Fate(e)' # Fate(e)
      BY <2>2 DEF Fate
    <3>2. PICK s \in Sweeps : CommitRow(s) /\ e \in Cascade(sweep[s].row)
      BY <1>1, <3>1, FateMoves
    <3> QED BY <1>1, <3>2, Commits DEF ReachesAll
  <2> QED BY <2>1, <2>2
<1>3. \A o \in objects' : o[1] = e => o \in objects
  BY <1>2, NoNewObject
<1> QED BY <1>2, <1>3 DEF Stored

\* A file that is not disposed of is named by its row as long as it is in quarantine.
LEMMA NamedStays ==
  ASSUME TypeOK, Next, NamedWhereStored
  PROVE  NamedWhereStored'
<1> SUFFICES ASSUME NEW e \in Evidence, NEW o, o = <<e, "quarantine">>, o \in objects'
             PROVE  o \in keys' \/ e \in Disposed'
  BY DEF NamedWhereStored
<1>1. o \in objects
  <2>1. ASSUME NEW d \in Evidence, ScanPromote(d) PROVE o \in objects
    BY <2>1 DEF ScanPromote
  <2> QED BY <2>1, ObjectsMove
<1>2. o \in keys \/ e \in Disposed
  BY <1>1 DEF NamedWhereStored
<1>3. ASSUME NEW s \in Sweeps, CommitRow(s), o \in keys PROVE o \in keys' \/ e \in Cascade(sweep[s].row)
  BY <1>3, Commits DEF HardDelete, Anonymise, Tombstone
<1>4. ASSUME NEW d \in Evidence, ScanSettle(d) PROVE keys \subseteq keys'
  BY <1>4 DEF ScanSettle
<1> QED BY <1>2, <1>3, <1>4, DisposedStays, RowsMove DEF rows, AttachResponse, GracePasses

\* What a purge has marked stays registered, itself or with its case.
LEMMA PurgedStays ==
  ASSUME TypeOK, Next, PurgedIsRegistered
  PROVE  PurgedIsRegistered'
<1>0. TypeOK' /\ registered \in [Records -> Nat] /\ registered' \in [Records -> Nat]
      /\ tombstoned \subseteq Records /\ tombstoned' \subseteq Records /\ None \notin Records
  BY TypeStep, RecordsAssumption DEF TypeOK
<1>1. \A q \in Records : registered'[q] >= registered[q]
  <2>1. ASSUME NEW s \in Sweeps, CommitRow(s) PROVE \A q \in Records : registered'[q] >= registered[q]
    BY <1>0, <2>1, Commits DEF HardDelete, Anonymise, Tombstone
  <2>2. UNCHANGED registered => \A q \in Records : registered'[q] >= registered[q]
    BY <1>0
  <2> QED BY <2>1, <2>2, RowsMove DEF rows, AttachResponse, GracePasses, ScanSettle
<1> SUFFICES ASSUME NEW r \in tombstoned', NEW c, c = Case(r)'
             PROVE  \E q \in {r, c} \cap Records : registered'[q] > 0
  BY DEF PurgedIsRegistered
<1>2. CASE r \in tombstoned
  <2>1. PICK q \in {r, Case(r)} \cap Records : registered[q] > 0
    BY <1>2 DEF PurgedIsRegistered
  <2>2. registered'[q] > 0
    BY <1>0, <1>1, <2>1
  <2>3. CASE r \in gone
    BY <1>0, <1>2, <2>1, <2>2, <2>3 DEF Case
  <2>4. CASE r \notin gone
    <3>1. r \notin gone'
      <4>1. ASSUME NEW s \in Sweeps, CommitRow(s), r \in gone' PROVE FALSE
        BY <2>4, <4>1, Commits DEF HardDelete, Anonymise, Tombstone
      <4> QED BY <2>4, <4>1, RowsMove DEF rows, AttachResponse, GracePasses, ScanSettle
    <3>2. r \in Evidence => link'[r] = link[r]
      BY <1>2, <3>1, LinksStay
    <3>3. c = Case(r)
      BY <1>0, <1>2, <3>1, <3>2, LinksStay
    <3> QED BY <2>1, <2>2, <3>3
  <2> QED BY <2>3, <2>4
<1>3. CASE r \notin tombstoned
  <2>1. r \in Records /\ Fate(r)' # Fate(r)
    BY <1>0, <1>3 DEF Fate
  <2>2. PICK s \in Sweeps : CommitRow(s) /\ r \in Cascade(sweep[s].row)
    BY <2>1, FateMoves
  <2>3. PICK row \in Records : row = sweep[s].row
    BY <2>2, Commits DEF Acting
  <2>4. Tombstone(row)
    BY <1>3, <2>2, <2>3, Commits DEF HardDelete, Anonymise
  <2>5. registered'[row] > 0
    BY <1>0, <2>4 DEF Tombstone
  <2>6. r \notin gone /\ (r = row \/ Case(r) = row)
    BY <2>2, <2>3, CascadeIs
  <2>7. c = Case(r)
    BY <2>4 DEF Tombstone, Case
  <2> QED BY <2>3, <2>5, <2>6, <2>7
<1> QED BY <1>2, <1>3

\* A purge takes no other row of its page along.
LEMMA PageApart ==
  ASSUME NEW g \in Policies, NEW row \in Kind(g), NEW r \in Kind(g), r \in Cascade(row), row \notin gone
  PROVE  r = row
<1>1. g.kind \in {"application", "evidence", "form_response"}
  BY RecordsAssumption DEF Gates
<1>2. row \in Records /\ (Kind(g) = Apps \/ Kind(g) \cap Apps = {})
  BY <1>1, RecordsAssumption DEF Kind, Records
<1>3. r \notin gone /\ (r = row \/ (row \in Apps /\ Case(r) = row))
  BY <1>2, CascadeIs
<1>4. row \in Apps => r \in Apps
  BY <1>2
<1> QED BY <1>3, <1>4 DEF Case

\* Sweeps that do not overlap register each record once.
LEMMA OneSweepStays ==
  ASSUME TypeOK, Next, OneSweep, \A s, t \in Busy' : s = t
  PROVE  OneSweep'
<1>0. TypeOK' /\ registered \in [Records -> 0 .. MaxRegister]
  BY TypeStep DEF TypeOK
<1>1. ASSUME NEW s \in Sweeps, CommitRow(s)
      PROVE  /\ Walks(s) /\ s \in Busy
             /\ sweep[s].row \in Records /\ sweep[s].phase \in {"soft", "hard"}
             /\ \A t \in Sweeps : t # s => sweep'[t] = sweep[t] /\ sweep[t] = Idle
  <2>1. sweep[s] \in Acting /\ Walks(s) /\ s \in Busy /\ OwnMove(s)
    BY <1>1, Commits, SweepShape DEF Walks, Busy, OwnMove
  <2>2. ASSUME NEW t \in Sweeps, t # s PROVE sweep'[t] = sweep[t]
    BY <2>1, <2>2, SweepMoves DEF TypeOK
  <2>3. ASSUME NEW t \in Sweeps, t # s PROVE sweep[t] = Idle
    BY <2>1, <2>3 DEF OneSweep, Busy
  <2> QED BY <2>1, <2>2, <2>3 DEF Acting
<1>2. ASSUME NEW s \in Sweeps, CommitRow(s), Tombstone(sweep[s].row), sweep[s].phase = "soft", sweep[s].gate.action = "purge"
      PROVE  /\ Purges(s) /\ sweep[s].gate \in Policies
             /\ sweep[s].row \in Kind(sweep[s].gate) \ (tombstoned \cup gone \cup sweep[s].page)
             /\ sweep[s].page \subseteq Kind(sweep[s].gate) \ (tombstoned \cup gone)
             /\ sweep[s].row \in Cascade(sweep[s].row)
  <2>1. Purges(s) /\ Acts(s)
    BY <1>1, <1>2, Commits DEF Purges, Acts
  <2>2. sweep[s].row \in Kind(sweep[s].gate) \ (tombstoned \cup gone \cup sweep[s].page)
        /\ sweep[s].page \subseteq Kind(sweep[s].gate) \ (tombstoned \cup gone)
    BY <2>1 DEF OneSweep, RegistersNew
  <2>3. sweep[s].row \in Records /\ sweep[s].gate \in Policies
    BY <1>2, Commits DEF Acting
  <2>4. PICK row \in Records : row = sweep[s].row
    BY <2>3
  <2>5. row \in Cascade(row)
    BY <2>2, <2>4, CascadeIs
  <2> QED BY <2>1, <2>2, <2>3, <2>4, <2>5
<1>3. ASSUME NEW r \in Records PROVE registered'[r] <= 1 /\ (registered'[r] = 1 => r \in tombstoned' \cup gone')
  <2>1. registered[r] <= 1 /\ (registered[r] = 1 => r \in tombstoned \cup gone) /\ registered[r] \in Nat
    BY <1>0 DEF OneSweep
  <2>2. ASSUME NEW s \in Sweeps, CommitRow(s)
        PROVE  registered'[r] <= 1 /\ (registered'[r] = 1 => r \in tombstoned' \cup gone')
    <3>1. CASE HardDelete(sweep[s].row) \/ Anonymise(sweep[s].row)
      BY <2>1, <3>1 DEF HardDelete, Anonymise
    <3>2. CASE /\ Tombstone(sweep[s].row) /\ sweep[s].phase = "soft" /\ sweep[s].gate.action = "purge"
      <4>1. PICK row \in Records : row = sweep[s].row
        BY <1>1, <2>2
      <4>2. row \notin tombstoned \cup gone /\ row \in Cascade(row)
        BY <1>2, <2>2, <3>2, <4>1
      <4>3. /\ tombstoned' = tombstoned \cup Cascade(row) /\ gone' = gone
            /\ registered' = [registered EXCEPT ![row] = registered[row] + 1]
        BY <3>2, <4>1 DEF Tombstone
      <4>4. CASE r = row
        <5>1. registered[r] = 0
          BY <2>1, <4>2, <4>4
        <5>2. registered'[r] = 1
          BY <1>0, <4>3, <4>4, <5>1
        <5> QED BY <4>2, <4>3, <4>4, <5>2
      <4>5. CASE r # row
        BY <1>0, <2>1, <4>3, <4>5
      <4> QED BY <4>4, <4>5
    <3> QED BY <2>2, <3>1, <3>2, Commits
  <2>3. CASE UNCHANGED <<registered, tombstoned, gone>>
    BY <2>1, <2>3
  <2> QED BY <2>2, <2>3, RowsMove DEF rows, AttachResponse, GracePasses, ScanSettle
<1>4. ASSUME NEW s \in Sweeps PROVE RegistersNew(s)'
  <2>1. CASE ~Purges(s)'
    BY <2>1 DEF RegistersNew
  <2>2. ASSUME Purges(s)'
        PROVE  /\ sweep'[s].page \subseteq Kind(sweep'[s].gate) \ (tombstoned' \cup gone')
               /\ Acts(s)' => sweep'[s].row \in Kind(sweep'[s].gate) \ (tombstoned' \cup gone' \cup sweep'[s].page)
    <3>1. s \in Busy'
      <4>1. sweep'[s] # Idle
        BY <2>2 DEF Purges, Walks, Idle
      <4> QED BY <4>1 DEF Busy
    <3>2. ASSUME NEW t \in Sweeps, CommitRow(t), t # s PROVE sweep[s] = Idle /\ sweep'[s] = sweep[s]
      BY <1>1, <3>2
    <3>3. ASSUME NEW t \in Sweeps, CommitRow(t) PROVE t = s
      BY <3>1, <3>2, <3>3 DEF Busy
    <3>4. CommitRow(s) \/ UNCHANGED <<tombstoned, gone>>
      BY <3>3, RowsMove DEF rows, AttachResponse, GracePasses, ScanSettle
    <3>5. CASE CommitRow(s)
      <4>1. sweep[s] \in Acting /\ sweep[s].pc = "commit"
        BY <3>5, Commits
      <4>2. GoesOn(s)
        <5>1. OwnMove(s)
          BY <3>5 DEF OwnMove
        <5>2. Ends(s) \/ GoesOn(s) \/ Loads(s) \/ LoadsHard(s) \/ Begins(s) \/ Deletes(s)
          BY <5>1, SweepMoves
        <5> QED BY <2>2, <4>1, <5>2 DEF Ends, Loads, LoadsHard, Begins, Deletes, Purges, Walks, Idle
      <4>3. sweep[s].phase = "soft" /\ sweep[s].gate.action = "purge" /\ sweep'[s].pc = "walk"
            /\ sweep'[s].page \subseteq sweep[s].page /\ sweep'[s].gate = sweep[s].gate
        BY <2>2, <4>2 DEF GoesOn, Purges
      <4>4. Tombstone(sweep[s].row)
        BY <3>5, <4>3, Commits
      <4>5. PICK row \in Records, g \in Policies : row = sweep[s].row /\ g = sweep[s].gate
        BY <4>1 DEF Acting
      <4>6. /\ row \in Kind(g) \ (tombstoned \cup gone \cup sweep[s].page)
            /\ sweep[s].page \subseteq Kind(g) \ (tombstoned \cup gone)
        BY <1>2, <3>5, <4>3, <4>4, <4>5
      <4>7. tombstoned' = tombstoned \cup Cascade(row) /\ gone' = gone
        BY <4>4, <4>5 DEF Tombstone
      <4>8. \A r \in sweep[s].page : r \notin Cascade(row)
        BY <4>6, PageApart
      <4> QED BY <4>3, <4>5, <4>6, <4>7, <4>8 DEF Acts
    <3>6. CASE UNCHANGED <<tombstoned, gone>>
      <4>1. CASE sweep'[s] = sweep[s]
        BY <2>2, <3>6, <4>1 DEF OneSweep, RegistersNew, Purges, Walks, Acts
      <4>2. CASE GoesOn(s)
        <5>1. Walks(s)
          BY <4>2, SweepShape DEF GoesOn
        <5> QED BY <2>2, <3>6, <4>2, <5>1 DEF GoesOn, OneSweep, RegistersNew, Purges, Acts
      <4>3. CASE Loads(s)
        <5>1. PICK g \in Policies : g = sweep'[s].gate
          BY <4>3 DEF Loads
        <5>2. sweep'[s].page \subseteq DueSoft(g) /\ sweep'[s].pc = "walk"
          BY <4>3, <5>1 DEF Loads
        <5> QED BY <3>6, <5>1, <5>2, DueIs DEF Acts
      <4>4. CASE Ends(s) \/ LoadsHard(s)
        BY <2>2, <4>4 DEF Ends, LoadsHard, Purges, Walks, Idle
      <4>5. CASE Begins(s)
        BY <2>2, <3>6, <4>5 DEF Begins, OneSweep, RegistersNew, Purges, Walks
      <4>6. CASE Deletes(s)
        BY <2>2, <3>6, <4>6 DEF Deletes, OneSweep, RegistersNew, Purges, Walks, Acts
      <4> QED BY <4>1, <4>2, <4>3, <4>4, <4>5, <4>6, MovesItself, SweepMoves
    <3> QED BY <3>4, <3>5, <3>6
  <2>3. ASSUME Purges(s)' PROVE RegistersNew(s)'
    <3>1. Kind(sweep[s].gate)' = Kind(sweep'[s].gate)
      BY DEF Kind
    <3> QED BY <2>2, <2>3, <3>1 DEF RegistersNew
  <2> QED BY <2>1, <2>3
<1>5. \A s, t \in Busy' : s = t
  OBVIOUS
<1> QED BY <1>3, <1>4, <1>5 DEF OneSweep

\* The sweeps keep to their invariant.
LEMMA SweepStep ==
  ASSUME SweepHolds, SweepNext
  PROVE  SweepHolds'
<1>0. TypeOK /\ Next /\ StrayStep /\ matured' = IF GracePasses THEN tombstoned ELSE matured
  BY DEF SweepHolds, SweepNext, StrayStep
<1>1. TypeOK' /\ PurgedIsRegistered' /\ NothingLeft' /\ NamedWhereStored' /\ ripe' \subseteq matured'
  BY <1>0, TypeStep, PurgedStays, NothingLeftStays, NamedStays, GraceStays DEF SweepHolds
<1>2. ASSUME NEW s \in Sweeps PROVE KnowsCase(s)' /\ StoodGrace(s)' /\ ReachesAll(s)'
  BY <1>0, CaseStaysKnown, GraceStays, ReachStays DEF SweepHolds
<1>3. late' \in BOOLEAN /\ (~late' => \A s \in Sweeps : SparesHeld(s)' /\ SparesOfficial(s)')
  <2>1. late' = (/\ Busy' # {}
                 /\ late \/ held' # held \/ official' # official
                    \/ \E f \in Responses : link[f] # link'[f] /\ f \notin gone')
    BY DEF SweepNext
  <2>2. ASSUME NEW s \in Sweeps, ~late' PROVE SparesHeld(s)' /\ SparesOfficial(s)'
    <3>1. CASE Busy' = {}
      <4>1. sweep'[s] = Idle
        BY <3>1 DEF Busy
      <4> QED BY <4>1 DEF SparesHeld, SparesOfficial, Walks, Acts, Idle
    <3>2. CASE Busy' # {}
      <4>1. Undisturbed /\ ~late
        BY <2>1, <2>2, <3>2 DEF Undisturbed, SweepHolds
      <4> QED BY <1>0, <4>1, SparesStay DEF SweepHolds
    <3> QED BY <3>1, <3>2
  <2>3. late' \in BOOLEAN
    BY <2>1
  <2> QED BY <2>2, <2>3
<1>4. overlap' \in BOOLEAN /\ (~overlap' => OneSweep')
  <2>1. overlap' = (overlap \/ \E s, t \in Busy' : s # t)
    BY DEF SweepNext
  <2>2. ASSUME ~overlap' PROVE OneSweep'
    <3>1. ~overlap /\ \A s, t \in Busy' : s = t
      BY <2>1, <2>2 DEF SweepHolds
    <3> QED BY <1>0, <3>1, OneSweepStays DEF SweepHolds
  <2> QED BY <2>1, <2>2
<1> QED BY <1>1, <1>2, <1>3, <1>4 DEF SweepHolds

LEMMA SweepInitHolds == ASSUME SweepInit PROVE SweepHolds
<1>1. TypeOK
  <2>1. gone \subseteq Evidence \cup Responses
    BY RecordsAssumption DEF SweepInit, Init
  <2>2. link \in [Evidence \cup Responses -> Parents \ gone]
    <3>1. Parents \cap gone = {}
      BY <2>1, RecordsAssumption DEF Parents, Records
    <3>2. link = [r \in Evidence \cup Responses |->
                    IF r \in gone THEN None
                    ELSE IF r \in Responses THEN FormApp[r]
                    ELSE IF Origin[r] \in Apps THEN Origin[r] ELSE None]
      BY DEF SweepInit, Init
    <3>3. ASSUME NEW r \in Evidence \cup Responses PROVE link[r] \in Parents
      BY <3>2, RecordsAssumption DEF Parents
    <3> QED BY <3>1, <3>2, <3>3
  <2>3. registered \in [Records -> 0 .. MaxRegister]
    BY RecordsAssumption DEF SweepInit, Init
  <2> QED BY <2>1, <2>2, <2>3 DEF SweepInit, Init, TypeOK, Objects, Records
<1>2. /\ PurgedIsRegistered /\ NamedWhereStored /\ ripe \subseteq matured /\ late \in BOOLEAN /\ overlap \in BOOLEAN
  BY DEF SweepInit, Init, PurgedIsRegistered, NamedWhereStored
<1>3. NothingLeft
  <2>1. ASSUME NEW e \in gone, NEW o \in objects, o[1] = e PROVE FALSE
    BY <2>1 DEF SweepInit, Init
  <2> QED BY <2>1 DEF NothingLeft, Stored, SweepInit, Init
<1>4. \A s \in Sweeps : sweep[s] = Idle
  BY DEF SweepInit, Init
<1>5. ASSUME NEW s \in Sweeps
      PROVE  KnowsCase(s) /\ StoodGrace(s) /\ ReachesAll(s) /\ SparesHeld(s) /\ SparesOfficial(s) /\ RegistersNew(s)
  <2>1. sweep[s].pc = "idle"
    BY <1>4 DEF Idle
  <2> QED BY <2>1 DEF KnowsCase, StoodGrace, ReachesAll, SparesHeld, SparesOfficial, RegistersNew, Walks, Acts, Purges
<1>6. OneSweep
  BY <1>4, <1>5 DEF OneSweep, Busy, SweepInit, Init
<1> QED BY <1>1, <1>2, <1>3, <1>5, <1>6 DEF SweepHolds

LEMMA SweepStands == ASSUME SweepHolds, UNCHANGED <<vars, history>> PROVE SweepHolds'
<1>1. TypeOK' /\ PurgedIsRegistered' /\ NothingLeft' /\ NamedWhereStored' /\ ripe' \subseteq matured'
  BY DEF SweepHolds, vars, history, TypeOK, PurgedIsRegistered, Case, NothingLeft, Stored, NamedWhereStored, Disposed
<1>2. ASSUME NEW s \in Sweeps
      PROVE  /\ KnowsCase(s)' = KnowsCase(s) /\ StoodGrace(s)' = StoodGrace(s) /\ ReachesAll(s)' = ReachesAll(s)
             /\ SparesHeld(s)' = SparesHeld(s) /\ SparesOfficial(s)' = SparesOfficial(s)
  BY DEF vars, history, KnowsCase, StoodGrace, ReachesAll, SparesHeld, SparesOfficial, Acts, Walks, Case, Cascade,
         Stored, NotHeld
<1>3. OneSweep' = OneSweep
  BY DEF vars, history, OneSweep, Busy, RegistersNew, Purges, Walks, Acts, Kind
<1>4. late' = late /\ overlap' = overlap
  BY DEF history
<1> QED BY <1>1, <1>2, <1>3, <1>4 DEF SweepHolds

-----------------------------------------------------------------------------
(* What the sign-offs do.                                                  *)

LEMMA AuthorityTypeStep ==
  ASSUME Authority!TypeOK, KnowsOnlySigned, Authority!Next
  PROVE  Authority!TypeOK' /\ KnowsOnlySigned'
<1>0. /\ policy \in [PolicyIds -> Authority!Policy \cup {Authority!Absent}]
      /\ signoff \in [Authority!SignoffIds -> Authority!Signoff \cup {Authority!Absent}]
      /\ \A c \in Activations : activation[c].pc = "commit" =>
           activation[c].id \in PolicyIds /\ activation[c].by \in People
           /\ policy[activation[c].id] \in Authority!Policy
  <2>1. ASSUME NEW c \in Activations, activation[c].pc = "commit"
        PROVE  activation[c].id \in PolicyIds /\ activation[c].by \in People
               /\ policy[activation[c].id] \in Authority!Policy
    <3>1. activation[c] \in [pc : {"commit"}, id : PolicyIds, by : People]
      BY <2>1 DEF Authority!TypeOK, Authority!Idle
    <3> QED BY <2>1, <3>1 DEF Authority!TypeOK, KnowsOnlySigned
  <2> QED BY <2>1 DEF Authority!TypeOK
<1>1. policy' \in [PolicyIds -> Authority!Policy \cup {Authority!Absent}]
      /\ \A id \in PolicyIds : policy[id] # Authority!Absent => policy'[id] # Authority!Absent
  <2>1. ASSUME NEW id \in PolicyIds, NEW by \in People, NEW action \in {"purge", "anonymise"}, NEW days \in Days,
               NEW ref \in References \cup {None}, Authority!CreatePolicy(id, by, action, days, ref)
        PROVE  \E p \in Authority!Policy : policy' = [policy EXCEPT ![id] = p]
    BY <2>1 DEF Authority!CreatePolicy, Authority!Policy
  <2>2. ASSUME NEW c \in Activations, Authority!ActivateCommit(c)
        PROVE  UNCHANGED policy \/ \E id \in PolicyIds, p \in Authority!Policy : policy' = [policy EXCEPT ![id] = p]
    <3>1. activation[c].pc = "commit"
      BY <2>2 DEF Authority!ActivateCommit
    <3>2. PICK id \in PolicyIds, by \in People : id = activation[c].id /\ by = activation[c].by
      BY <1>0, <3>1
    <3>3. policy' = policy \/ policy' = [policy EXCEPT ![id] = [policy[id] EXCEPT !.active = TRUE, !.approver = by]]
      BY <1>0, <2>2, <3>2 DEF Authority!ActivateCommit
    <3>4. policy[id] \in Authority!Policy
      BY <1>0, <3>1, <3>2
    <3>5. [policy[id] EXCEPT !.active = TRUE, !.approver = by] \in Authority!Policy
      BY <3>4 DEF Authority!Policy
    <3> QED BY <3>3, <3>5
  <2>3. ASSUME NEW id \in PolicyIds, Authority!DeletePolicy(id)
        PROVE  \E p \in Authority!Policy : policy' = [policy EXCEPT ![id] = p]
    <3>1. policy[id] \in Authority!Policy
      BY <1>0, <2>3 DEF Authority!DeletePolicy, Authority!Absent
    <3>2. [policy[id] EXCEPT !.state = "deleted", !.active = FALSE] \in Authority!Policy
      BY <3>1 DEF Authority!Policy
    <3>3. policy' = [policy EXCEPT ![id] = [policy[id] EXCEPT !.state = "deleted", !.active = FALSE]]
      BY <1>0, <2>3 DEF Authority!DeletePolicy
    <3> QED BY <3>2, <3>3
  <2>4. UNCHANGED policy \/ \E id \in PolicyIds, p \in Authority!Policy : policy' = [policy EXCEPT ![id] = p]
    BY <2>1, <2>2, <2>3 DEF Authority!Next, Authority!LoadPolicies, Authority!LoadSignoffs, Authority!SweepEnds,
       Authority!ActivateCheck, Authority!SignBegin, Authority!Supersede, Authority!SignCommit, Authority!SignAbort
  <2>5. Authority!Absent \notin Authority!Policy
    <3>1. Authority!Absent.state = "absent" /\ \A p \in Authority!Policy : p.state # "absent"
      BY DEF Authority!Absent, Authority!Policy
    <3> QED BY <3>1
  <2> QED BY <1>0, <2>4, <2>5
<1>2. ASSUME NEW c \in Signings, signing[c] # Authority!Idle
      PROVE  \/ /\ signing[c].pc = "supersede" /\ signing[c].terms \in Terms
                /\ signing[c].seen \subseteq Authority!SignoffIds
                /\ \A d \in signing[c].seen : signoff[d] # Authority!Absent
             \/ /\ signing[c].pc = "insert" /\ signing[c].terms \in Terms
                /\ signing[c].superseded \subseteq Authority!SignoffIds
                /\ \A d \in signing[c].superseded : signoff[d] # Authority!Absent
  BY <1>2 DEF Authority!TypeOK, KnowsOnlySigned
<1>3. signoff' \in [Authority!SignoffIds -> Authority!Signoff \cup {Authority!Absent}]
      /\ \A d \in Authority!SignoffIds : signoff[d] # Authority!Absent => signoff'[d] # Authority!Absent
  <2>1. Authority!Absent.state = "absent" /\ \A p \in Authority!Signoff : p.state # "absent"
    BY DEF Authority!Absent, Authority!Signoff
  <2>2. ASSUME NEW c \in Signings, NEW d \in Authority!SignoffIds, Authority!SignCommit(c, d)
        PROVE  /\ DOMAIN signoff' = Authority!SignoffIds /\ signoff' = [q \in Authority!SignoffIds |-> signoff'[q]]
               /\ \A q \in Authority!SignoffIds :
                    signoff'[q] = signoff[q] \/ signoff'[q] \in Authority!Signoff
    <3>1. signing[c].pc = "insert" /\ signing[c] # Authority!Idle
      BY <2>2 DEF Authority!SignCommit, Authority!Idle
    <3>2. PICK t \in Terms, superseded \in SUBSET Authority!SignoffIds : t = signing[c].terms /\ superseded = signing[c].superseded
      BY <1>2, <3>1
    <3>3. signoff' = [q \in Authority!SignoffIds |->
                       IF q = d THEN [state |-> "current", terms |-> t]
                       ELSE IF q \in superseded THEN [signoff[q] EXCEPT !.state = "superseded"] ELSE signoff[q]]
      BY <2>2, <3>2 DEF Authority!SignCommit
    <3>4. [state |-> "current", terms |-> t] \in Authority!Signoff
      BY DEF Authority!Signoff
    <3>5. ASSUME NEW q \in Authority!SignoffIds, q \in superseded
          PROVE  [signoff[q] EXCEPT !.state = "superseded"] \in Authority!Signoff
      <4>1. signoff[q] \in Authority!Signoff
        BY <1>0, <1>2, <3>1, <3>2, <3>5
      <4> QED BY <4>1 DEF Authority!Signoff
    <3> QED BY <3>3, <3>4, <3>5
  <2>3. UNCHANGED signoff \/ \E c \in Signings, d \in Authority!SignoffIds : Authority!SignCommit(c, d)
    BY DEF Authority!Next, Authority!LoadPolicies, Authority!LoadSignoffs, Authority!SweepEnds, Authority!CreatePolicy,
       Authority!ActivateCheck, Authority!ActivateCommit, Authority!DeletePolicy, Authority!SignBegin,
       Authority!Supersede, Authority!SignAbort
  <2> QED BY <1>0, <2>1, <2>2, <2>3
<1>4. /\ signing' \in [Signings -> {Authority!Idle}
                          \cup [pc : {"supersede"}, terms : Terms, seen : SUBSET Authority!SignoffIds]
                          \cup [pc : {"insert"}, terms : Terms, superseded : SUBSET Authority!SignoffIds]]
      /\ \A c \in Signings :
           /\ signing'[c].pc = "supersede" => \A d \in signing'[c].seen : signoff[d] # Authority!Absent
           /\ signing'[c].pc = "insert" => \A d \in signing'[c].superseded : signoff[d] # Authority!Absent
  <2> DEFINE Good(x) == \/ x = Authority!Idle
                        \/ /\ x \in [pc : {"supersede"}, terms : Terms, seen : SUBSET Authority!SignoffIds]
                           /\ \A d \in x.seen : signoff[d] # Authority!Absent
                        \/ /\ x \in [pc : {"insert"}, terms : Terms, superseded : SUBSET Authority!SignoffIds]
                           /\ \A d \in x.superseded : signoff[d] # Authority!Absent
  <2>1. ASSUME NEW c \in Signings, NEW t \in Terms, Authority!SignBegin(c, t)
        PROVE  \E x : signing' = [signing EXCEPT ![c] = x] /\ Good(x)
    <3>1. \A d \in Authority!Current : signoff[d] # Authority!Absent
      BY DEF Authority!Current, Authority!Absent
    <3>2. Good([pc |-> "supersede", terms |-> t, seen |-> Authority!Current])
      BY <3>1 DEF Authority!Current
    <3> QED BY <2>1, <3>2 DEF Authority!SignBegin
  <2>2. ASSUME NEW c \in Signings, Authority!Supersede(c) PROVE \E x : signing' = [signing EXCEPT ![c] = x] /\ Good(x)
    <3>1. signing[c].pc = "supersede" /\ signing[c] # Authority!Idle
      BY <2>2 DEF Authority!Supersede, Authority!Idle
    <3>2. PICK t \in Terms : t = signing[c].terms
      BY <1>2, <3>1
    <3>3. signing' = [signing EXCEPT ![c] = [pc |-> "insert", terms |-> t, superseded |-> Authority!SupersededBy(c)]]
      BY <2>2, <3>2 DEF Authority!Supersede, Authority!TypeOK
    <3>4. PICK S : S = Authority!SupersededBy(c)
      OBVIOUS
    <3>5. S \subseteq Authority!SignoffIds /\ \A d \in S : signoff[d] # Authority!Absent
      BY <3>4 DEF Authority!SupersededBy, Authority!Current, Authority!Absent
    <3>6. Good([pc |-> "insert", terms |-> t, superseded |-> S])
      BY <3>5
    <3> QED BY <3>3, <3>4, <3>6
  <2>3. ASSUME NEW c \in Signings, NEW d \in Authority!SignoffIds, Authority!SignAbort(c) \/ Authority!SignCommit(c, d)
        PROVE  \E x : signing' = [signing EXCEPT ![c] = x] /\ Good(x)
    BY <2>3 DEF Authority!SignAbort, Authority!SignCommit
  <2>4. ASSUME NEW c \in Signings, Authority!SignAbort(c)
        PROVE  \E x : signing' = [signing EXCEPT ![c] = x] /\ Good(x)
    BY <2>4 DEF Authority!SignAbort
  <2>5. UNCHANGED signing \/ \E c \in Signings : \E x : signing' = [signing EXCEPT ![c] = x] /\ Good(x)
    BY <2>1, <2>2, <2>3, <2>4 DEF Authority!Next, Authority!LoadPolicies, Authority!LoadSignoffs, Authority!SweepEnds,
       Authority!CreatePolicy, Authority!ActivateCheck, Authority!ActivateCommit, Authority!DeletePolicy
  <2>6. \A c \in Signings : Good(signing[c])
    BY DEF Authority!TypeOK, KnowsOnlySigned
  <2>7. DOMAIN signing = Signings /\ signing = [c \in Signings |-> signing[c]]
    BY DEF Authority!TypeOK
  <2>8. (\A c \in Signings : Good(signing'[c])) /\ signing' = [c \in Signings |-> signing'[c]]
    BY <2>5, <2>6, <2>7
  <2> HIDE DEF Good
  <2>9. ASSUME NEW x, Good(x)
        PROVE  /\ x \in {Authority!Idle} \cup [pc : {"supersede"}, terms : Terms, seen : SUBSET Authority!SignoffIds]
                          \cup [pc : {"insert"}, terms : Terms, superseded : SUBSET Authority!SignoffIds]
               /\ x.pc = "supersede" => \A d \in x.seen : signoff[d] # Authority!Absent
               /\ x.pc = "insert" => \A d \in x.superseded : signoff[d] # Authority!Absent
    <3>1. x = Authority!Idle => x.pc = "idle"
      BY DEF Authority!Idle
    <3>2. x \in [pc : {"supersede"}, terms : Terms, seen : SUBSET Authority!SignoffIds] => x.pc = "supersede"
      OBVIOUS
    <3>3. x \in [pc : {"insert"}, terms : Terms, superseded : SUBSET Authority!SignoffIds] => x.pc = "insert"
      OBVIOUS
    <3>4. CASE x = Authority!Idle
      BY <3>1, <3>4
    <3>5. CASE x \in [pc : {"supersede"}, terms : Terms, seen : SUBSET Authority!SignoffIds]
               /\ \A d \in x.seen : signoff[d] # Authority!Absent
      BY <3>2, <3>5
    <3>6. CASE x \in [pc : {"insert"}, terms : Terms, superseded : SUBSET Authority!SignoffIds]
               /\ \A d \in x.superseded : signoff[d] # Authority!Absent
      BY <3>3, <3>6
    <3> QED BY <2>9, <3>4, <3>5, <3>6 DEF Good
  <2> QED BY <2>8, <2>9

<1>5. /\ activation' \in [Activations -> {Authority!Idle} \cup [pc : {"commit"}, id : PolicyIds, by : People]]
      /\ \A c \in Activations : activation'[c].pc = "commit" => policy[activation'[c].id] # Authority!Absent
  <2>1. ASSUME NEW c \in Activations, NEW id \in PolicyIds, NEW by \in People, Authority!ActivateCheck(c, id, by)
        PROVE  /\ activation' = [activation EXCEPT ![c] = [pc |-> "commit", id |-> id, by |-> by]]
               /\ policy[id] # Authority!Absent
    BY <2>1 DEF Authority!ActivateCheck, Authority!Absent
  <2>2. ASSUME NEW c \in Activations, Authority!ActivateCommit(c)
        PROVE  activation' = [activation EXCEPT ![c] = Authority!Idle]
    BY <2>2 DEF Authority!ActivateCommit
  <2>3. \/ UNCHANGED activation
        \/ \E c \in Activations : activation' = [activation EXCEPT ![c] = Authority!Idle]
        \/ \E c \in Activations, id \in PolicyIds, by \in People :
             /\ activation' = [activation EXCEPT ![c] = [pc |-> "commit", id |-> id, by |-> by]]
             /\ policy[id] # Authority!Absent
    <3>1. \/ UNCHANGED activation
          \/ \E c \in Activations : Authority!ActivateCommit(c)
          \/ \E c \in Activations, id \in PolicyIds, by \in People : Authority!ActivateCheck(c, id, by)
      BY DEF Authority!Next, Authority!LoadPolicies, Authority!LoadSignoffs, Authority!SweepEnds,
         Authority!CreatePolicy, Authority!DeletePolicy, Authority!SignBegin,
         Authority!Supersede, Authority!SignAbort, Authority!SignCommit
    <3>2. CASE \E c \in Activations : Authority!ActivateCommit(c)
      BY <2>2, <3>2
    <3>3. CASE \E c \in Activations, id \in PolicyIds, by \in People : Authority!ActivateCheck(c, id, by)
      BY <2>1, <3>3
    <3> QED BY <3>1, <3>2, <3>3
  <2>4. activation \in [Activations -> {Authority!Idle} \cup [pc : {"commit"}, id : PolicyIds, by : People]]
        /\ Authority!Idle.pc = "idle"
    BY DEF Authority!TypeOK, Authority!Idle
  <2> QED BY <2>3, <2>4 DEF KnowsOnlySigned
<1>6. gating' \in [Gatings -> {Authority!Idle}
                         \cup [pc : {"loaded"}, rows : [PolicyIds -> Authority!Policy \cup {Authority!Absent}]]
                         \cup [pc : {"gated"}, gates : SUBSET Authority!Gate]]
  <2> DEFINE Rows == [PolicyIds -> Authority!Policy \cup {Authority!Absent}]
             Type == {Authority!Idle} \cup [pc : {"loaded"}, rows : Rows] \cup [pc : {"gated"}, gates : SUBSET Authority!Gate]
  <2>1. ASSUME NEW s \in Gatings, Authority!LoadPolicies(s) PROVE \E x \in Type : gating' = [gating EXCEPT ![s] = x]
    <3>1. [p \in PolicyIds |-> IF Authority!InForce(p) THEN policy[p] ELSE Authority!Absent] \in Rows
      BY <1>0
    <3> QED BY <2>1, <3>1 DEF Authority!LoadPolicies
  <2>2. ASSUME NEW s \in Gatings, Authority!LoadSignoffs(s) PROVE \E x \in Type : gating' = [gating EXCEPT ![s] = x]
    <3>1. gating[s] \in [pc : {"loaded"}, rows : Rows]
      BY <2>2 DEF Authority!LoadSignoffs, Authority!TypeOK, Authority!Idle
    <3>2. PICK loaded \in Rows : loaded = gating[s].rows
      BY <3>1
    <3>3. PICK found : gating' = [gating EXCEPT ![s] = [pc |-> "gated", gates |-> Authority!Gates(loaded, found)]]
      BY <2>2, <3>2 DEF Authority!LoadSignoffs, Authority!TypeOK
    <3>4. Authority!Gates(loaded, found) \subseteq Authority!Gate
      <4>1. ASSUME NEW id \in PolicyIds, Authority!Approved(loaded[id])
            PROVE  Authority!GateOf(id, loaded[id], found) \in Authority!Gate
        <5>1. loaded[id] \in Authority!Policy
          BY <4>1 DEF Authority!Approved, Authority!Absent
        <5>2. loaded[id].action \in {"purge", "anonymise"}
          BY <5>1 DEF Authority!Policy
        <5>3. Authority!AuthorityOf(loaded[id], found) \in BOOLEAN
          BY DEF Authority!AuthorityOf
        <5> QED BY <5>2, <5>3 DEF Authority!GateOf, Authority!Gate
      <4> QED BY <4>1 DEF Authority!Gates
    <3> QED BY <3>3, <3>4
  <2>3. ASSUME NEW s \in Gatings, Authority!SweepEnds(s) PROVE \E x \in Type : gating' = [gating EXCEPT ![s] = x]
    BY <2>3 DEF Authority!SweepEnds
  <2>4. UNCHANGED gating \/ \E s \in Gatings : \E x \in Type : gating' = [gating EXCEPT ![s] = x]
    BY <2>1, <2>2, <2>3 DEF Authority!Next, Authority!CreatePolicy, Authority!ActivateCheck, Authority!ActivateCommit,
       Authority!DeletePolicy, Authority!SignBegin, Authority!Supersede, Authority!SignAbort, Authority!SignCommit
  <2>5. gating \in [Gatings -> Type]
    BY DEF Authority!TypeOK
  <2> QED BY <2>4, <2>5
<1>7. Authority!TypeOK'
  BY <1>1, <1>3, <1>4, <1>5, <1>6 DEF Authority!TypeOK
<1>8. KnowsOnlySigned'
  <2>1. ASSUME NEW c \in Activations, activation'[c].pc = "commit" PROVE policy'[activation'[c].id] # Authority!Absent
    <3>1. activation'[c].id \in PolicyIds
      BY <1>5, <2>1 DEF Authority!Idle
    <3> QED BY <1>1, <1>5, <2>1, <3>1
  <2>2. ASSUME NEW c \in Signings
        PROVE  /\ signing'[c].pc = "supersede" => \A d \in signing'[c].seen : signoff'[d] # Authority!Absent
               /\ signing'[c].pc = "insert" => \A d \in signing'[c].superseded : signoff'[d] # Authority!Absent
    <3>1. /\ signing'[c].pc = "supersede" => signing'[c].seen \subseteq Authority!SignoffIds
          /\ signing'[c].pc = "insert" => signing'[c].superseded \subseteq Authority!SignoffIds
      BY <1>4 DEF Authority!Idle
    <3> QED BY <1>3, <1>4, <3>1
  <2> QED BY <2>1, <2>2 DEF KnowsOnlySigned
<1> QED BY <1>7, <1>8

LEMMA SignoffsMove ==
  ASSUME Authority!TypeOK, Authority!Next
  PROVE  \/ UNCHANGED signoff
         \/ \E c \in Signings, d \in Authority!SignoffIds : Authority!SignCommit(c, d)
  BY DEF Authority!Next, Authority!LoadPolicies, Authority!LoadSignoffs, Authority!SweepEnds, Authority!CreatePolicy,
     Authority!ActivateCheck, Authority!ActivateCommit, Authority!DeletePolicy, Authority!SignBegin,
     Authority!Supersede, Authority!SignAbort

\* What a commit of a sign-off leaves.
LEMMA SignCommits ==
  ASSUME Authority!TypeOK, KnowsOnlySigned, Contiguous,
         NEW c \in Signings, NEW d \in Authority!SignoffIds, Authority!SignCommit(c, d)
  PROVE  /\ signing[c].pc = "insert" /\ signoff[d] = Authority!Absent
         /\ \A q \in 1 .. d - 1 : signoff[q] # Authority!Absent
         /\ \A q \in Authority!SignoffIds : q > d => signoff[q] = Authority!Absent
         /\ signoff'[d].state = "current"
         /\ \A q \in Authority!SignoffIds \ {d} :
              /\ signoff'[q] = Authority!Absent <=> signoff[q] = Authority!Absent
              /\ signoff'[q].state = "current" <=> signoff[q].state = "current" /\ q \notin signing[c].superseded
<1>1. /\ signing[c].pc = "insert" /\ signoff[d] = Authority!Absent
      /\ \A q \in 1 .. d - 1 : signoff[q] # Authority!Absent
  BY DEF Authority!SignCommit
<1>2. ASSUME NEW q \in Authority!SignoffIds, q > d PROVE signoff[q] = Authority!Absent
  <2>1. d \in 1 .. q - 1
    BY <1>2 DEF Authority!SignoffIds
  <2> QED BY <1>1, <2>1 DEF Contiguous
<1>3. PICK old : old = signing[c].superseded
  OBVIOUS
<1>4. PICK t : t = signing[c].terms
  OBVIOUS
<1>5. signoff' = [q \in Authority!SignoffIds |->
                   IF q = d THEN [state |-> "current", terms |-> t]
                   ELSE IF q \in old THEN [signoff[q] EXCEPT !.state = "superseded"] ELSE signoff[q]]
  BY <1>3, <1>4 DEF Authority!SignCommit
<1>6. signoff'[d].state = "current"
  BY <1>5
<1>7. ASSUME NEW q \in Authority!SignoffIds \ {d}
      PROVE  /\ signoff'[q] = Authority!Absent <=> signoff[q] = Authority!Absent
             /\ signoff'[q].state = "current" <=> (signoff[q].state = "current" /\ q \notin old)
  <2>1. CASE q \in old
    <3>1. signoff[q] \in Authority!Signoff
      <4>1. \A x \in old : signoff[x] # Authority!Absent
        BY <1>1, <1>3 DEF KnowsOnlySigned
      <4> QED BY <2>1, <4>1 DEF Authority!TypeOK
    <3>2. signoff'[q] = [signoff[q] EXCEPT !.state = "superseded"]
      BY <1>5, <2>1
    <3>3. signoff'[q].state = "superseded" /\ signoff[q] # Authority!Absent
      BY <3>1, <3>2 DEF Authority!Signoff, Authority!Absent
    <3> QED BY <2>1, <3>3 DEF Authority!Absent
  <2>2. CASE q \notin old
    BY <1>5, <2>2
  <2> QED BY <2>1, <2>2
<1> QED BY <1>1, <1>2, <1>3, <1>6, <1>7

\* Sign-offs that do not overlap leave one current, the last.
LEMMA SignsAloneStays ==
  ASSUME Authority!TypeOK, KnowsOnlySigned, Contiguous, SignsAlone, Authority!Next, ~SeveralBusy(signing', Idle)
  PROVE  SignsAlone'
<1>0. Authority!TypeOK' /\ DOMAIN signing' = Signings /\ Authority!Idle = Idle /\ Idle.pc = "idle"
      /\ signing \in [Signings -> {Idle} \cup [pc : {"supersede"}, terms : Terms, seen : SUBSET Authority!SignoffIds]
                                      \cup [pc : {"insert"}, terms : Terms, superseded : SUBSET Authority!SignoffIds]]
  BY AuthorityTypeStep DEF Authority!TypeOK, Authority!Idle, Idle
<1>1. \A c, d \in Signings : signing'[c] # Idle /\ signing'[d] # Idle => c = d
  BY <1>0 DEF SeveralBusy
<1>2. ASSUME NEW c \in Signings, signing[c].pc = "insert" PROVE signing[c].superseded = Authority!Current
  BY <1>2 DEF SignsAlone
<1>3. CASE UNCHANGED signoff
  <2>1. Authority!Current' = Authority!Current
    BY <1>3 DEF Authority!Current
  <2>2. ASSUME NEW c \in Signings
        PROVE  /\ signing'[c].pc = "supersede" => signing'[c].seen = Authority!Current
               /\ signing'[c].pc = "insert" => signing'[c].superseded = Authority!Current
    <3> DEFINE Good(x) == /\ x.pc = "supersede" => x.seen = Authority!Current
                          /\ x.pc = "insert" => x.superseded = Authority!Current
    <3>1. \A d \in Signings : Good(signing[d])
      BY DEF SignsAlone
    <3>2. ASSUME NEW d \in Signings, NEW t \in Terms, Authority!SignBegin(d, t)
          PROVE  \E x : signing' = [signing EXCEPT ![d] = x] /\ Good(x)
      <4>1. Good([pc |-> "supersede", terms |-> t, seen |-> Authority!Current])
        OBVIOUS
      <4>2. signing' = [signing EXCEPT ![d] = [pc |-> "supersede", terms |-> t, seen |-> Authority!Current]]
        BY <3>2 DEF Authority!SignBegin
      <4> HIDE DEF Good
      <4> QED BY <4>1, <4>2
    <3>3. ASSUME NEW d \in Signings, Authority!Supersede(d)
          PROVE  \E x : signing' = [signing EXCEPT ![d] = x] /\ Good(x)
      <4>1. signing[d].pc = "supersede" /\ signing[d].seen = Authority!Current
        BY <3>3 DEF Authority!Supersede, SignsAlone
      <4>2. Authority!SupersededBy(d) = Authority!Current
        BY <4>1 DEF Authority!SupersededBy
      <4>3. PICK t : t = signing[d].terms
        OBVIOUS
      <4>4. signing' = [signing EXCEPT ![d] = [pc |-> "insert", terms |-> t, superseded |-> Authority!Current]]
        BY <1>0, <3>3, <4>2, <4>3 DEF Authority!Supersede
      <4>5. Good([pc |-> "insert", terms |-> t, superseded |-> Authority!Current])
        OBVIOUS
      <4> HIDE DEF Good
      <4> QED BY <4>4, <4>5
    <3>4. ASSUME NEW d \in Signings, NEW q \in Authority!SignoffIds, Authority!SignAbort(d) \/ Authority!SignCommit(d, q)
          PROVE  \E x : signing' = [signing EXCEPT ![d] = x] /\ Good(x)
      BY <1>0, <3>4 DEF Authority!SignAbort, Authority!SignCommit
    <3>5. ASSUME NEW d \in Signings, Authority!SignAbort(d)
          PROVE  \E x : signing' = [signing EXCEPT ![d] = x] /\ Good(x)
      BY <1>0, <3>5 DEF Authority!SignAbort
    <3>6. UNCHANGED signing \/ \E d \in Signings : \E x : signing' = [signing EXCEPT ![d] = x] /\ Good(x)
      BY <3>2, <3>3, <3>4, <3>5 DEF Authority!Next, Authority!LoadPolicies, Authority!LoadSignoffs, Authority!SweepEnds,
         Authority!CreatePolicy, Authority!ActivateCheck, Authority!ActivateCommit, Authority!DeletePolicy
    <3>7. Good(signing'[c])
      BY <1>0, <3>1, <3>6
    <3> QED BY <3>7
  <2>3. \A d \in Authority!SignoffIds : signoff'[d].state = "current" <=>
          (signoff'[d] # Authority!Absent
             /\ \A q \in Authority!SignoffIds : signoff'[q] # Authority!Absent => q <= d)
    BY <1>3 DEF SignsAlone
  <2> QED BY <1>1, <2>1, <2>2, <2>3 DEF SignsAlone
<1>4. ASSUME NEW c \in Signings, NEW d \in Authority!SignoffIds, Authority!SignCommit(c, d) PROVE SignsAlone'
  <2>1. /\ signing[c].pc = "insert" /\ signoff[d] = Authority!Absent
        /\ \A q \in Authority!SignoffIds : q > d => signoff[q] = Authority!Absent
        /\ signoff'[d].state = "current"
        /\ \A q \in Authority!SignoffIds \ {d} :
             /\ signoff'[q] = Authority!Absent <=> signoff[q] = Authority!Absent
             /\ signoff'[q].state = "current" <=> signoff[q].state = "current" /\ q \notin signing[c].superseded
    BY <1>4, SignCommits
  <2>2. signing[c].superseded = Authority!Current /\ signing[c] # Idle
    BY <1>0, <1>2, <2>1
  <2>3. \A k \in Signings : signing'[k] = Idle
    BY <1>0, <1>4, <2>2 DEF SignsAlone, Authority!SignCommit
  <2>4. signoff'[d] # Authority!Absent
    BY <2>1 DEF Authority!Absent
  <2>5. ASSUME NEW q \in Authority!SignoffIds
        PROVE  signoff'[q].state = "current" <=>
                 (signoff'[q] # Authority!Absent
                    /\ \A p \in Authority!SignoffIds : signoff'[p] # Authority!Absent => p <= q)
    <3>1. CASE q = d
      <4>1. ASSUME NEW p \in Authority!SignoffIds, signoff'[p] # Authority!Absent PROVE p <= d
        BY <2>1, <4>1 DEF Authority!SignoffIds
      <4> QED BY <2>1, <2>4, <3>1, <4>1
    <3>2. CASE q # d
      <4>1. signoff'[q].state # "current"
        BY <2>1, <2>2, <3>2 DEF Authority!Current
      <4>2. q > d => signoff'[q] = Authority!Absent
        BY <2>1, <3>2
      <4>3. q > d \/ ~(d <= q)
        BY <3>2 DEF Authority!SignoffIds
      <4> QED BY <2>4, <4>1, <4>2, <4>3
    <3> QED BY <3>1, <3>2
  <2> QED BY <1>0, <1>1, <2>3, <2>5 DEF SignsAlone
<1> QED BY <1>3, <1>4, SignoffsMove

\* The sign-offs and what acts on them keep to their invariant.
LEMMA AuthorityStep ==
  ASSUME AuthorityHolds, Authority!Next, crossed' = (crossed \/ SeveralBusy(signing', Idle))
  PROVE  AuthorityHolds'
<1>1. Authority!TypeOK' /\ KnowsOnlySigned'
  BY AuthorityTypeStep DEF AuthorityHolds
<1>2. Contiguous /\ Authority!TypeOK /\ KnowsOnlySigned
  BY DEF AuthorityHolds
<1>3. Contiguous'
  <2>1. ASSUME NEW c \in Signings, NEW d \in Authority!SignoffIds, Authority!SignCommit(c, d) PROVE Contiguous'
    <3> SUFFICES ASSUME NEW x \in Authority!SignoffIds, signoff'[x] # Authority!Absent, NEW q \in 1 .. x - 1
                 PROVE  signoff'[q] # Authority!Absent
      BY DEF Contiguous, Authority!SignoffIds
    <3>1. /\ \A p \in 1 .. d - 1 : signoff[p] # Authority!Absent
          /\ signoff'[d].state = "current"
          /\ \A p \in Authority!SignoffIds \ {d} : signoff'[p] = Authority!Absent <=> signoff[p] = Authority!Absent
      BY <1>2, <2>1, SignCommits
    <3>2. q \in Authority!SignoffIds
      BY RetentionAssumption DEF Authority!SignoffIds
    <3>3. CASE q = d
      BY <3>1, <3>3 DEF Authority!Absent
    <3>4. CASE q # d
      <4>1. signoff[q] # Authority!Absent
        <5>1. CASE x = d
          BY <3>1, <5>1
        <5>2. CASE x # d
          BY <1>2, <3>1, <5>2 DEF Contiguous
        <5> QED BY <5>1, <5>2
      <4> QED BY <3>1, <3>2, <3>4, <4>1
    <3> QED BY <3>3, <3>4
  <2>2. CASE UNCHANGED signoff
    BY <1>2, <2>2 DEF Contiguous, Authority!SignoffIds
  <2> QED BY <1>2, <2>1, <2>2, SignoffsMove
<1>4. ASSUME ~crossed' PROVE SignsAlone'
  BY <1>2, <1>4, SignsAloneStays DEF AuthorityHolds
<1> QED BY <1>1, <1>3, <1>4 DEF AuthorityHolds

LEMMA AuthorityInitHolds == ASSUME Authority!Init PROVE AuthorityHolds
<1>1. Authority!TypeOK
  BY DEF Authority!Init, Authority!TypeOK
<1>2. Authority!Idle = Idle /\ Idle.pc = "idle" /\ Authority!Absent.state = "absent"
  BY DEF Authority!Idle, Idle, Authority!Absent
<1>3. KnowsOnlySigned
  BY <1>2 DEF Authority!Init, KnowsOnlySigned
<1>4. \A d \in Authority!SignoffIds : signoff[d] = Authority!Absent
  BY DEF Authority!Init
<1>5. SignsAlone
  BY <1>2, <1>4 DEF SignsAlone, Authority!Init
<1> QED BY <1>1, <1>3, <1>4, <1>5 DEF AuthorityHolds, Contiguous

\* Only one sign-off is current.
LEMMA OneSignoff == ASSUME AuthorityHolds PROVE SerialOneSignoff
<1> SUFFICES ASSUME ~crossed PROVE Authority!Cardinality(Authority!Current) <= 1
  BY DEF SerialOneSignoff, Authority!OneCurrent
<1>1. \A d, e \in Authority!Current : d = e
  BY DEF AuthorityHolds, SignsAlone, Authority!Current, Authority!SignoffIds
<1>2. Authority!Current = {} \/ \E d : Authority!Current = {d}
  <2>1. CASE Authority!Current # {}
    <3>1. PICK d : d \in Authority!Current
      BY <2>1
    <3>2. Authority!Current = {d}
      BY <1>1, <3>1
    <3> QED BY <3>2
  <2> QED BY <2>1
<1>3. Cardinality(Authority!Current) \in {0, 1}
  BY <1>2, FS_EmptySet, FS_Singleton
<1>4. Authority!Cardinality(Authority!Current) = Cardinality(Authority!Current)
  BY DEF Authority!Cardinality, Cardinality
<1> QED BY <1>3, <1>4

\* What passes the gate is backed.
LEMMA GateStep ==
  ASSUME AuthorityHolds, ~crossed, Authority!Next, NEW s \in Gatings,
         gating[s].pc = "loaded", gating'[s].pc = "gated", NEW g \in gating'[s].gates
  PROVE  Authority!Backed(g, gating[s].rows[g.policy])
<1>0. gating \in [Gatings -> {Authority!Idle}
                         \cup [pc : {"loaded"}, rows : [PolicyIds -> Authority!Policy \cup {Authority!Absent}]]
                         \cup [pc : {"gated"}, gates : SUBSET Authority!Gate]]
  BY DEF AuthorityHolds, Authority!TypeOK
<1>1. Authority!LoadSignoffs(s)
  <2>1. ASSUME NEW q \in Gatings, Authority!LoadPolicies(q) PROVE gating'[s].pc # "gated"
    BY <1>0, <2>1 DEF Authority!LoadPolicies
  <2>2. ASSUME NEW q \in Gatings, Authority!SweepEnds(q) PROVE gating'[s].pc # "gated"
    BY <1>0, <2>2 DEF Authority!SweepEnds, Authority!Idle
  <2>3. ASSUME NEW q \in Gatings, Authority!LoadSignoffs(q), q # s PROVE gating'[s] = gating[s]
    BY <1>0, <2>3 DEF Authority!LoadSignoffs
  <2> QED BY <2>1, <2>2, <2>3 DEF Authority!Next, Authority!CreatePolicy, Authority!ActivateCheck,
       Authority!ActivateCommit, Authority!DeletePolicy, Authority!SignBegin, Authority!Supersede,
       Authority!SignAbort, Authority!SignCommit
<1>2. PICK rs : rs = gating[s].rows
  OBVIOUS
<1>3. PICK found \in {{d} : d \in Authority!Current} \cup {{}} :
        gating' = [gating EXCEPT ![s] = [pc |-> "gated", gates |-> Authority!Gates(rs, found)]]
  BY <1>0, <1>1, <1>2 DEF Authority!LoadSignoffs, Authority!Effective
<1>4. g \in Authority!Gates(rs, found)
  BY <1>0, <1>3
<1>5. PICK id \in PolicyIds :
        /\ Authority!Approved(rs[id]) /\ g = Authority!GateOf(id, rs[id], found)
        /\ rs[id].action = "purge" => Authority!AuthorityOf(rs[id], found)
  BY <1>4 DEF Authority!Gates
<1>6. /\ g.policy = id /\ g.action = rs[id].action
      /\ g.authority => Authority!AuthorityOf(rs[id], found)
  BY <1>5 DEF Authority!GateOf
<1>7. rs[id].active /\ rs[id].approver # None /\ rs[id].approver # rs[id].creator
  <2>1. Authority!Approved(rs[id])
    BY <1>5
  <2> QED BY <2>1 DEF Authority!Approved
<1>8. ASSUME Authority!AuthorityOf(rs[id], found)
      PROVE  Authority!Signed /\ Authority!Matches(rs[id], signoff[Authority!Latest].terms)
  <2>1. PICK d \in Authority!Current : found = {d}
    BY <1>3, <1>8 DEF Authority!AuthorityOf
  <2>2. Authority!Matches(rs[id], signoff[d].terms)
    BY <1>8, <2>1 DEF Authority!AuthorityOf
  <2>3. /\ d \in Authority!SignoffIds /\ signoff[d] # Authority!Absent
        /\ \A q \in Authority!SignoffIds : signoff[q] # Authority!Absent => q <= d
    BY <2>1 DEF AuthorityHolds, SignsAlone, Authority!Current
  <2>4. Authority!Latest = d
    <3>1. \A e \in Authority!SignoffIds :
            (signoff[e] # Authority!Absent
               /\ \A q \in Authority!SignoffIds : signoff[q] # Authority!Absent => q <= e) => e = d
      BY <2>3 DEF Authority!SignoffIds
    <3> QED BY <2>3, <3>1 DEF Authority!Latest
  <2> QED BY <2>2, <2>3, <2>4 DEF Authority!Signed
<1>9. g.authority \/ g.action = "purge" => Authority!AuthorityOf(rs[id], found)
  BY <1>5, <1>6
<1> QED BY <1>2, <1>6, <1>7, <1>8, <1>9 DEF Authority!Backed, Authority!Matches

-----------------------------------------------------------------------------
(* What the anonymisations of clients do.                                  *)

LEMMA ClientTypeStep ==
  ASSUME Client!TypeOK, Client!Next
  PROVE  Client!TypeOK'
<1>0. /\ client \in [Cases -> Clients \cup {None}] /\ erased \subseteq Cases /\ purged \subseteq Cases
      /\ blank \subseteq Clients /\ job \in [Jobs -> {Client!Idle} \cup Client!Pending]
  BY DEF Client!TypeOK
<1>1. ASSUME NEW j \in Jobs, NEW a \in Cases, Client!LookForOthers(j, a) PROVE Client!TypeOK'
  <2>1. [pc |-> "commit", id |-> a, others |-> Client!Others(a) # {}] \in Client!Pending
    BY DEF Client!Pending
  <2> QED BY <1>0, <1>1, <2>1 DEF Client!LookForOthers, Client!TypeOK
<1>2. ASSUME NEW j \in Jobs, Client!AnonymiseCommit(j) PROVE Client!TypeOK'
  <2>1. job[j] \in Client!Pending
    BY <1>0, <1>2 DEF Client!AnonymiseCommit, Client!Idle
  <2>2. PICK a \in Cases : a = job[j].id
    BY <2>1 DEF Client!Pending
  <2>3. /\ erased' = erased \cup {a} /\ UNCHANGED purged /\ job' = [job EXCEPT ![j] = Client!Idle]
        /\ client' = client \/ client' = [client EXCEPT ![a] = None]
        /\ blank' = blank \/ (client[a] # None /\ blank' = blank \cup {client[a]})
    BY <1>2, <2>2 DEF Client!AnonymiseCommit, Client!Detached
  <2> QED BY <1>0, <2>2, <2>3 DEF Client!TypeOK
<1>3. ASSUME NEW j \in Jobs, Client!AnonymiseAborts(j) PROVE Client!TypeOK'
  BY <1>0, <1>3 DEF Client!AnonymiseAborts, Client!TypeOK
<1>4. ASSUME NEW a \in Cases, Client!TombstoneCase(a) PROVE Client!TypeOK'
  BY <1>0, <1>4 DEF Client!TombstoneCase, Client!TypeOK
<1> QED BY <1>1, <1>2, <1>3, <1>4 DEF Client!Next

\* Anonymisations that do not overlap see each other's cases.
LEMMA ClientStep ==
  ASSUME ClientHolds, Client!Next, crossed' = (crossed \/ SeveralBusy(job', Idle))
  PROVE  ClientHolds'
<1>0. Client!TypeOK /\ Client!TypeOK' /\ Client!Idle = Idle /\ Idle.pc = "idle" /\ DOMAIN job' = Jobs
  BY ClientTypeStep DEF ClientHolds, Client!TypeOK, Client!Idle, Idle
<1> SUFFICES ASSUME ~crossed' PROVE Client!BlankHasNoCase' /\ Client!ErasedLeadsNowhere' /\ AnonymisesAlone'
  BY <1>0 DEF ClientHolds
<1>1. Client!BlankHasNoCase /\ Client!ErasedLeadsNowhere /\ AnonymisesAlone
  BY DEF ClientHolds
<1>2. \A i, j \in Jobs : job'[i] # Idle /\ job'[j] # Idle => i = j
  BY <1>0 DEF SeveralBusy
<1>3. ASSUME NEW j \in Jobs, job[j] # Idle
      PROVE  /\ job[j] \in Client!Pending /\ job[j].id \in Cases \ (erased \cup purged)
             /\ ~job[j].others => Client!Others(job[j].id) = {}
  <2>1. job[j] \in Client!Pending
    BY <1>0, <1>3 DEF Client!TypeOK
  <2>2. PICK a \in Cases : a = job[j].id
    BY <2>1 DEF Client!Pending
  <2>3. a \notin erased \cup purged /\ (~job[j].others => Client!Others(a) = {})
    BY <1>1, <1>3, <2>2 DEF AnonymisesAlone
  <2> QED BY <2>1, <2>2, <2>3
<1>4. ASSUME NEW j \in Jobs, NEW a \in Cases, Client!LookForOthers(j, a)
      PROVE  Client!BlankHasNoCase' /\ Client!ErasedLeadsNowhere' /\ AnonymisesAlone'
  <2>1. UNCHANGED <<client, erased, purged, blank>> /\ a \notin erased \cup purged
    BY <1>4 DEF Client!LookForOthers
  <2>2. PICK o : o = (Client!Others(a) # {})
    OBVIOUS
  <2>3. job'[j] = [pc |-> "commit", id |-> a, others |-> o]
    BY <1>0, <1>4, <2>2 DEF Client!LookForOthers, Client!TypeOK
  <2>4. job'[j].id = a /\ job'[j].others = o
    BY <2>3
  <2>5. ~job'[j].others => Client!Others(a) = {}
    BY <2>2, <2>4
  <2>6. job'[j] # Idle
    BY <1>0, <2>3
  <2>7. \A i \in Jobs : job'[i] # Idle => i = j
    BY <1>2, <2>6
  <2>8. Client!Others(a)' = Client!Others(a)
    BY <2>1 DEF Client!Others
  <2>9. AnonymisesAlone'
    BY <1>2, <2>1, <2>4, <2>5, <2>7, <2>8 DEF AnonymisesAlone
  <2> QED BY <1>1, <2>1, <2>9 DEF Client!BlankHasNoCase, Client!ErasedLeadsNowhere
<1>5. ASSUME NEW j \in Jobs, Client!AnonymiseCommit(j)
      PROVE  Client!BlankHasNoCase' /\ Client!ErasedLeadsNowhere' /\ AnonymisesAlone'
  <2>1. job[j] # Idle
    BY <1>0, <1>5 DEF Client!AnonymiseCommit
  <2>2. PICK a \in Cases : a = job[j].id
    BY <1>3, <2>1
  <2>3. a \notin erased \cup purged /\ (~job[j].others => Client!Others(a) = {})
    BY <1>3, <2>1, <2>2
  <2>4. /\ erased' = erased \cup {a} /\ purged' = purged
        /\ \/ job[j].others /\ client' = [client EXCEPT ![a] = None] /\ blank' = blank
           \/ ~job[j].others /\ client' = client /\ client[a] = None /\ blank' = blank
           \/ ~job[j].others /\ client' = client /\ blank' = blank \cup {client[a]}
    BY <1>5, <2>2 DEF Client!AnonymiseCommit, Client!Detached
  <2>5. \A i \in Jobs : job'[i] = Idle
    <3>1. job' = [job EXCEPT ![j] = Idle]
      BY <1>0, <1>5 DEF Client!AnonymiseCommit
    <3>2. \A i \in Jobs : i # j => job[i] = Idle
      BY <1>1, <2>1 DEF AnonymisesAlone
    <3> QED BY <1>0, <3>1, <3>2 DEF Client!TypeOK
  <2>6. AnonymisesAlone'
    BY <2>5 DEF AnonymisesAlone
  <2>7. ASSUME NEW b \in Cases \ (erased' \cup purged') PROVE client'[b] \notin blank'
    <3>1. b # a /\ b \in Cases \ (erased \cup purged) /\ client'[b] = client[b]
      BY <1>0, <2>4 DEF Client!TypeOK
    <3>2. client[b] \notin blank
      BY <1>1, <3>1 DEF Client!BlankHasNoCase
    <3>3. ~job[j].others => client[b] # client[a]
      BY <2>3, <3>1 DEF Client!Others
    <3> QED BY <2>4, <3>1, <3>2, <3>3
  <2>8. ASSUME NEW b \in erased' PROVE client'[b] = None \/ client'[b] \in blank'
    <3>1. blank \subseteq blank' /\ a \in Cases /\ client \in [Cases -> Clients \cup {None}] /\ erased \subseteq Cases
      BY <1>0, <2>4 DEF Client!TypeOK
    <3>2. CASE b = a
      BY <2>4, <3>1, <3>2
    <3>3. CASE b # a
      <4>1. b \in erased /\ client'[b] = client[b]
        BY <2>4, <3>1, <3>3
      <4> QED BY <1>1, <3>1, <4>1 DEF Client!ErasedLeadsNowhere
    <3> QED BY <3>2, <3>3
  <2> QED BY <2>6, <2>7, <2>8 DEF Client!BlankHasNoCase, Client!ErasedLeadsNowhere
<1>6. ASSUME NEW j \in Jobs, Client!AnonymiseAborts(j)
      PROVE  Client!BlankHasNoCase' /\ Client!ErasedLeadsNowhere' /\ AnonymisesAlone'
  <2>1. UNCHANGED <<client, erased, purged, blank>> /\ job' = [job EXCEPT ![j] = Idle]
    BY <1>0, <1>6 DEF Client!AnonymiseAborts
  <2>2. \A i \in Jobs : job'[i] = Idle \/ job'[i] = job[i]
    BY <1>0, <2>1 DEF Client!TypeOK
  <2>3. \A b : Client!Others(b)' = Client!Others(b)
    BY <2>1 DEF Client!Others
  <2>4. ASSUME NEW i \in Jobs, NEW b \in Cases, job'[i] # Idle, job'[i].id = b
        PROVE  b \notin erased' \cup purged' /\ (~job'[i].others => Client!Others(b)' = {})
    <3>2. job'[i] = job[i] /\ job[i] # Idle
      BY <2>2, <2>4
    <3>3. b \notin erased \cup purged /\ (~job[i].others => Client!Others(b) = {})
      BY <1>3, <2>4, <3>2
    <3>4. Client!Others(b)' = Client!Others(b)
      BY <2>3
    <3> QED BY <2>1, <2>4, <3>2, <3>3, <3>4
  <2>5. AnonymisesAlone'
    BY <1>2, <2>4 DEF AnonymisesAlone
  <2> QED BY <1>1, <2>1, <2>5 DEF Client!BlankHasNoCase, Client!ErasedLeadsNowhere
<1>7. ASSUME NEW a \in Cases, Client!TombstoneCase(a)
      PROVE  Client!BlankHasNoCase' /\ Client!ErasedLeadsNowhere' /\ AnonymisesAlone'
  <2>1. /\ UNCHANGED <<client, erased, blank, job>> /\ purged' = purged \cup {a}
        /\ \A j \in Jobs : job[j].pc = "commit" => job[j].id # a
    BY <1>7 DEF Client!TombstoneCase
  <2>2. \A b : Client!Others(b)' \subseteq Client!Others(b)
    BY <2>1 DEF Client!Others
  <2>4. ASSUME NEW i \in Jobs, NEW b \in Cases, job'[i] # Idle, job'[i].id = b
        PROVE  b \notin erased' \cup purged' /\ (~job'[i].others => Client!Others(b)' = {})
    <3>2. job'[i] = job[i] /\ job[i] # Idle /\ job[i].pc = "commit"
      BY <1>3, <2>1, <2>4 DEF Client!Pending
    <3>3. b \notin erased \cup purged /\ (~job[i].others => Client!Others(b) = {})
      BY <1>3, <2>4, <3>2
    <3>4. Client!Others(b)' \subseteq Client!Others(b)
      BY <2>2
    <3> QED BY <2>1, <2>4, <3>2, <3>3, <3>4
  <2>5. AnonymisesAlone'
    BY <1>2, <2>4 DEF AnonymisesAlone
  <2> QED BY <1>1, <2>1, <2>5 DEF Client!BlankHasNoCase, Client!ErasedLeadsNowhere
<1> QED BY <1>4, <1>5, <1>6, <1>7 DEF Client!Next

LEMMA ClientInitHolds == ASSUME Client!Init PROVE ClientHolds
<1>1. Client!TypeOK
  BY DEF Client!Init, Client!TypeOK
<1>2. Client!Idle = Idle
  BY DEF Client!Idle, Idle
<1> QED BY <1>1, <1>2 DEF Client!Init, ClientHolds, Client!BlankHasNoCase, Client!ErasedLeadsNowhere, AnonymisesAlone

-----------------------------------------------------------------------------
(* The three together.                                                     *)

LEMMA AuthorityStands ==
  ASSUME AuthorityHolds, UNCHANGED authorityVars, ~crossed' => ~crossed
  PROVE  AuthorityHolds'
<1>1. Authority!TypeOK' = Authority!TypeOK /\ KnowsOnlySigned' = KnowsOnlySigned /\ SignsAlone' = SignsAlone
  BY DEF authorityVars, Authority!TypeOK, KnowsOnlySigned, SignsAlone, Authority!Current
<1>2. signoff' = signoff
  BY DEF authorityVars
<1> QED BY <1>1, <1>2 DEF AuthorityHolds, Contiguous

LEMMA ClientStands ==
  ASSUME ClientHolds, UNCHANGED clientVars, ~crossed' => ~crossed
  PROVE  ClientHolds'
<1>1. /\ Client!TypeOK' = Client!TypeOK /\ Client!BlankHasNoCase' = Client!BlankHasNoCase
      /\ Client!ErasedLeadsNowhere' = Client!ErasedLeadsNowhere /\ AnonymisesAlone' = AnonymisesAlone
  BY DEF clientVars, Client!TypeOK, Client!BlankHasNoCase, Client!ErasedLeadsNowhere, AnonymisesAlone, Client!Others
<1> QED BY <1>1 DEF ClientHolds

LEMMA RetentionInitHolds == RetentionInit => RetentionHolds
  BY SweepInitHolds, AuthorityInitHolds, ClientInitHolds DEF RetentionInit, RetentionHolds

LEMMA RetentionStep == RetentionHolds /\ [RetentionNext]_everything => RetentionHolds'
<1> SUFFICES ASSUME RetentionHolds, [RetentionNext]_everything PROVE RetentionHolds'
  OBVIOUS
<1>0. SweepHolds /\ AuthorityHolds /\ ClientHolds /\ crossed \in BOOLEAN
  BY DEF RetentionHolds
<1>1. CASE SweepNext /\ UNCHANGED <<authorityVars, clientVars, crossed>>
  BY <1>0, <1>1, SweepStep, AuthorityStands, ClientStands DEF RetentionHolds
<1>2. CASE /\ Authority!Next /\ crossed' = (crossed \/ SeveralBusy(signing', Idle))
           /\ UNCHANGED <<vars, history, clientVars>>
  <2>1. (~crossed' => ~crossed) /\ crossed' \in BOOLEAN
    BY <1>2
  <2> QED BY <1>0, <1>2, <2>1, SweepStands, AuthorityStep, ClientStands DEF RetentionHolds
<1>3. CASE /\ Client!Next /\ crossed' = (crossed \/ SeveralBusy(job', Idle))
           /\ UNCHANGED <<vars, history, authorityVars>>
  <2>1. (~crossed' => ~crossed) /\ crossed' \in BOOLEAN
    BY <1>3
  <2> QED BY <1>0, <1>3, <2>1, SweepStands, AuthorityStands, ClientStep DEF RetentionHolds
<1>4. CASE UNCHANGED everything
  BY <1>0, <1>4, SweepStands, AuthorityStands, ClientStands DEF everything, RetentionHolds
<1> QED BY <1>1, <1>2, <1>3, <1>4 DEF RetentionNext

\* The invariant, in every behaviour.
LEMMA RetentionAlwaysHolds == RetentionSpec => []RetentionHolds
  BY RetentionInitHolds, RetentionStep, PTL DEF RetentionSpec

(* What a disposal leaves behind is what its register says: whatever was   *)
(* purged is registered, by itself or with its case, once if no sweeps     *)
(* overlap; and nothing of a disposed file is left in storage but what a   *)
(* scan was moving or an attachment brought meanwhile.                     *)
(* Code: sweep.ts.                                                         *)
THEOREM DisposalAlwaysComplete == RetentionSpec => []DisposalIsComplete
<1>1. RetentionHolds => DisposalIsComplete
  <2>1. SweepHolds /\ Authority!TypeOK /\ Client!TypeOK => DisposalIsComplete
    BY DEF DisposalIsComplete, RetentionTypeOK, SweepHolds, SerialRegisteredOnce, OneSweep
  <2> QED BY <2>1 DEF RetentionHolds, AuthorityHolds, ClientHolds
<1> QED BY <1>1, RetentionAlwaysHolds, PTL

(* No official record is disposed of without authority, unless the sweep   *)
(* found its row without a case, and no row is removed before it has stood *)
(* its thirty days.  Code: sweep.ts.                                       *)
THEOREM DisposalAlwaysLawful == RetentionSpec => DisposalIsLawful
<1>1. RetentionHolds /\ [RetentionNext]_everything =>
        [\A r \in Records :
           (Fate(r)' # Fate(r) /\ Case(r) \in official)
             => \E s \in Sweeps : /\ sweep[s].pc = "commit" /\ sweep'[s] # sweep[s]
                                  /\ sweep[s].gate.authority \/ sweep[s].app = None]_vars
  <2> SUFFICES ASSUME RetentionHolds, Next, NEW r \in Records, Fate(r)' # Fate(r), Case(r) \in official
               PROVE  \E s \in Sweeps : /\ sweep[s].pc = "commit" /\ sweep'[s] # sweep[s]
                                        /\ sweep[s].gate.authority \/ sweep[s].app = None
    BY DEF RetentionNext, SweepNext, everything
  <2>1. TypeOK /\ \A s \in Sweeps : KnowsCase(s)
    BY DEF RetentionHolds, SweepHolds
  <2> QED BY <2>1, OfficialStep
<1>2. RetentionHolds /\ [RetentionNext]_everything =>
        [\A r \in gone' \ gone : r \in matured \/ Case(r) \in matured]_everything
  <2> SUFFICES ASSUME RetentionHolds, RetentionNext, NEW r \in gone' \ gone
               PROVE  r \in matured \/ Case(r) \in matured
    OBVIOUS
  <2>1. TypeOK /\ \A s \in Sweeps : StoodGrace(s)
    BY DEF RetentionHolds, SweepHolds
  <2>2. Next
    BY DEF RetentionNext, SweepNext, vars
  <2> QED BY <2>1, <2>2, GraceStep
<1> QED BY <1>1, <1>2, RetentionAlwaysHolds, PTL DEF RetentionSpec, DisposalIsLawful, OfficialKept, GraceKept

(* What was held when the sweeps began keeps its row, and what was then    *)
(* official its objects, unless the policy has authority.  Code: sweep.ts  *)
(* and the holds of retention/service.ts.                                  *)
THEOREM ProtectedAlwaysKept == RetentionSpec => SerialProtectedKept
<1>1. RetentionHolds /\ [RetentionNext]_everything =>
        [~late => \A r \in Records :
           Fate(r)' # Fate(r) => ~\E h \in held : Protects(h, r)]_everything
  <2> SUFFICES ASSUME RetentionHolds, RetentionNext, ~late, NEW r \in Records, Fate(r)' # Fate(r), NEW h \in held
               PROVE  ~Protects(h, r)
    OBVIOUS
  <2>1. TypeOK /\ \A s \in Sweeps : SparesHeld(s)
    BY DEF RetentionHolds, SweepHolds
  <2>2. Next
    BY DEF RetentionNext, SweepNext, vars, Fate
  <2> QED BY <2>1, <2>2, HeldStep
<1>2. RetentionHolds /\ [RetentionNext]_everything =>
        [\A e \in Evidence :
           (Stored(e) /\ ~Stored(e)' /\ ~late /\ link[e] \in official)
             => \E s \in Sweeps : sweep[s].pc = "delete" /\ sweep'[s] # sweep[s]
                                  /\ sweep[s].gate.authority]_everything
  <2> SUFFICES ASSUME RetentionHolds, RetentionNext, ~late, NEW e \in Evidence,
                      Stored(e), ~Stored(e)', link[e] \in official
               PROVE  \E s \in Sweeps : sweep[s].pc = "delete" /\ sweep'[s] # sweep[s] /\ sweep[s].gate.authority
    OBVIOUS
  <2>1. TypeOK /\ \A s \in Sweeps : SparesOfficial(s)
    BY DEF RetentionHolds, SweepHolds
  <2>2. Next
    BY DEF RetentionNext, SweepNext, vars, Stored
  <2> QED BY <2>1, <2>2, ObjectsStep
<1> QED BY <1>1, <1>2, RetentionAlwaysHolds, PTL
        DEF RetentionSpec, SerialProtectedKept, SerialHoldStands, SerialObjectsKept

(* Of sign-offs made one after another the last alone is current, and what *)
(* passes the gate of a sweep is backed by two people and, where it needs  *)
(* authority, by that sign-off.  Code: retention/service.ts, approval.ts   *)
(* and gatePolicy of sweep.ts.                                             *)
THEOREM SignoffsAlwaysStand == RetentionSpec => SerialSignoffs
<1>1. RetentionHolds => SerialOneSignoff
  BY OneSignoff DEF RetentionHolds
<1>2. RetentionHolds /\ [RetentionNext]_everything =>
        [\A s \in Gatings :
           (gating[s].pc = "loaded" /\ gating'[s].pc = "gated" /\ ~crossed)
             => \A g \in gating'[s].gates : Authority!Backed(g, gating[s].rows[g.policy])]_everything
  <2> SUFFICES ASSUME RetentionHolds, RetentionNext, NEW s \in Gatings,
                      gating[s].pc = "loaded", gating'[s].pc = "gated", ~crossed, NEW g \in gating'[s].gates
               PROVE  Authority!Backed(g, gating[s].rows[g.policy])
    OBVIOUS
  <2>1. AuthorityHolds
    BY DEF RetentionHolds
  <2>2. Authority!Next
    BY DEF RetentionNext, authorityVars
  <2> QED BY <2>1, <2>2, GateStep
<1> QED BY <1>1, <1>2, RetentionAlwaysHolds, PTL DEF RetentionSpec, SerialSignoffs, SerialGateBacked

(* Clients' details go with their last live case and not before, while no  *)
(* two of their cases are anonymised at once.  Code: anonymiseApplication  *)
(* of sweep.ts.                                                            *)
THEOREM ClientsAlwaysFollow == RetentionSpec => []SerialClientFollows
<1>1. RetentionHolds => SerialClientFollows
  BY DEF RetentionHolds, ClientHolds, SerialClientFollows
<1> QED BY <1>1, RetentionAlwaysHolds, PTL

=============================================================================
