--------------------------- MODULE RetentionSweep ---------------------------
(***************************************************************************)
(* Disposal of records past their retention period.  A sweep walks the     *)
(* rows a policy makes due; for each it reads the parent case and the      *)
(* object keys, checks that no official record is in the way, deletes the  *)
(* objects, and in a transaction checks again and anonymises, tombstones   *)
(* (and registers) or, thirty days later, removes the row.  Around it      *)
(* cases are decided, holds placed and released, form responses attached   *)
(* to cases and uploads promoted by a scan.  A sweep may die anywhere and  *)
(* sweeps of one tenant may overlap: nothing claims a row.                 *)
(* Code: src/src/domains/retention/sweep.ts, service.ts (holds),           *)
(* src/src/domains/forms/service.ts (attaching), evidence/service.ts.      *)
(*                                                                         *)
(* One walk of one policy is the unit: a sweep of several policies is a    *)
(* sequence of walks.  Which policies may act, and with what authority, is *)
(* DisposalAuthority's; here a purge comes with authority because gatePolicy *)
(* lets no other through.                                                  *)
(*                                                                         *)
(* Operators whose names begin with Mut are slips this code could have     *)
(* made in the definition that follows them; no action uses them.          *)
(***************************************************************************)
EXTENDS Naturals, FiniteSets

CONSTANTS
  Apps, Evidence, Responses,
  FormApp,      \* forms.application_id of each response's form, or None
  Origin,       \* what each file was uploaded with: a case or a response
  Policies,     \* what the tenant's effective policies do, and on what
  Sweeps,       \* sweep jobs
  NeverThere,   \* choices of the files and responses that were never there
  MaxRegister,  \* bound on the register rows of one record
  None

Records == Apps \cup Evidence \cup Responses
Gates   == [kind : {"application", "evidence", "form_response"},
            action : {"purge", "anonymise"}, authority : BOOLEAN]

ASSUME RecordsAssumption ==
  /\ Apps \cap Evidence = {} /\ Apps \cap Responses = {}
  /\ Evidence \cap Responses = {}
  /\ None \notin Records
  /\ FormApp \in [Responses -> Apps \cup {None}]
  /\ Origin \in [Evidence -> Apps \cup Responses]
  /\ Policies \subseteq {g \in Gates : g.action = "purge" => g.authority}
  /\ NeverThere \subseteq SUBSET (Evidence \cup Responses) /\ MaxRegister \in Nat

VARIABLES
  official,    \* cases decided or with a finalised decision: they stay so
  held,        \* records under an active legal hold
  link,        \* application_id of each file and each response
  anonymised, tombstoned, gone,
  ripe,        \* tombstoned rows older than the grace period
  registered,  \* destruction register rows by record
  keys,        \* <<file, bucket>> pairs the evidence rows name
  objects,     \* <<file, bucket>> pairs that exist
  scan,        \* malware scan of each file
  sweep        \* what each sweep job is doing

vars == <<official, held, link, anonymised, tombstoned, gone, ripe, registered,
          keys, objects, scan, sweep>>
rows  == <<link, anonymised, tombstoned, gone, ripe, registered, keys>>
world == <<official, held, scan>>

Objects == Evidence \X {"quarantine", "evidence"}
Parents == Apps \cup {None}
Idle    == [pc |-> "idle"]
Walking == [pc : {"walk"}, gate : Policies, phase : {"soft", "hard"}, page : SUBSET Records]
Acting  == [pc : {"delete", "commit"}, gate : Policies, phase : {"soft", "hard"},
            page : SUBSET Records, row : Records, app : Parents, targets : SUBSET Objects]

TypeOK ==
  /\ official \subseteq Apps /\ held \subseteq Records
  /\ link \in [Evidence \cup Responses -> Parents \ gone]
  /\ anonymised \subseteq Records /\ gone \subseteq Records
  /\ tombstoned \subseteq Records /\ ripe \subseteq tombstoned
  /\ registered \in [Records -> 0 .. MaxRegister]
  /\ keys \subseteq Objects /\ objects \subseteq Objects
  /\ scan \in [Evidence -> {"none", "promoted"}]
  /\ sweep \in [Sweeps -> {Idle} \cup Walking \cup Acting]

Init ==
  /\ official = {} /\ held = {}
  /\ gone \in NeverThere
  /\ link = [r \in Evidence \cup Responses |->
               IF r \in gone THEN None
               ELSE IF r \in Responses THEN FormApp[r]
               ELSE IF Origin[r] \in Apps THEN Origin[r] ELSE None]
  /\ anonymised = {} /\ tombstoned = {} /\ ripe = {}
  /\ registered = [r \in Records |-> 0]
  /\ keys = (Evidence \ gone) \X {"quarantine"}
  /\ objects = keys
  /\ scan = [e \in Evidence |-> "none"]
  /\ sweep = [s \in Sweeps |-> Idle]

Kind(g) == CASE g.kind = "application"   -> Apps
             [] g.kind = "evidence"      -> Evidence
             [] g.kind = "form_response" -> Responses

---------------------------------------------------------------------------
(* What protects a record.                                                 *)

(* The case the sweep finds for a row: a response's only by its form.      *)
Case(r) ==
  IF r \in gone THEN None
  ELSE IF r \in Apps THEN r
  ELSE IF r \in Evidence THEN link[r] ELSE FormApp[r]

(* A hold on the row, on its case, or on what the case's cascade touches.  *)
MutNotHeldItself(r) == r \notin held
NotHeld(r) == \A h \in held : h # r /\ h # Case(r) /\ (r \in Apps => Case(h) # r)

DisposalBlocked(a, authority) ==
  a # None /\ (a \in gone \/ (~authority /\ a \in official))

(* Unless the policy has authority a row of an official case is not due.   *)
ExcludeOfficial(r, authority) == ~authority /\ Case(r) \in official

DueSoft(g) ==
  {r \in Kind(g) \ (gone \cup tombstoned) :
     /\ g.action = "anonymise" => r \notin anonymised
     /\ NotHeld(r) /\ ~ExcludeOfficial(r, g.authority)}

DueHard(g) ==
  {r \in Kind(g) \cap ripe : NotHeld(r) /\ ~ExcludeOfficial(r, g.authority)}

---------------------------------------------------------------------------
(* The sweep.  Which of the due rows are past the cutoff depends on their  *)
(* age and the policy's period: any may be.                                *)

(* A walk with nothing left to do, now or in the hard phase, has ended.    *)
Walk(g, phase, page) ==
  IF page = {} /\ (phase = "hard" \/ g.action = "anonymise") THEN Idle
  ELSE [pc |-> "walk", gate |-> g, phase |-> phase, page |-> page]

LoadSoft(s, g, page) ==
  /\ sweep[s] = Idle
  /\ page \subseteq DueSoft(g)
  /\ sweep' = [sweep EXCEPT ![s] = Walk(g, "soft", page)]
  /\ sweep' # sweep
  /\ UNCHANGED <<rows, world, objects>>

(* Hard delete is for purge policies alone: the others' walks have ended.  *)
LoadHard(s) ==
  /\ sweep[s].pc = "walk" /\ sweep[s].page = {} /\ sweep[s].phase = "soft"
  /\ sweep' = [sweep EXCEPT ![s] = Walk(@.gate, "hard", DueHard(@.gate))]
  /\ UNCHANGED <<rows, world, objects>>

(* Rows a disposal of r reaches: a case takes its files and, through its   *)
(* forms, its responses.                                                   *)
Cascade(r) == {q \in Records \ gone : q = r \/ (r \in Apps /\ Case(q) = r)}

MutPromotedOnly(r) == {k \in keys : k[1] \in Cascade(r) /\ k[2] = "evidence"}
ObjectTargets(r) == {k \in keys : k[1] \in Cascade(r)}

Resume(s) == Walk(sweep[s].gate, sweep[s].phase, sweep[s].page)

(* Read the row and check it before anything is deleted.                   *)
BeginRow(s, r) ==
  /\ sweep[s].pc = "walk" /\ r \in sweep[s].page
  /\ LET w == sweep[s]
         rest == w.page \ {r}
     IN sweep' = [sweep EXCEPT ![s] =
          IF DisposalBlocked(Case(r), w.gate.authority) \/ (r \in gone /\ r \notin Responses)
          THEN Walk(w.gate, w.phase, rest)
          ELSE [pc |-> IF r \in Responses THEN "commit" ELSE "delete",
                gate |-> w.gate, phase |-> w.phase, page |-> rest,
                row |-> r, app |-> Case(r), targets |-> ObjectTargets(r)]]
  /\ UNCHANGED <<rows, world, objects>>

DeleteTargets(s) ==
  /\ sweep[s].pc = "delete"
  /\ objects' = objects \ sweep[s].targets
  /\ sweep' = [sweep EXCEPT ![s].pc = "commit"]
  /\ UNCHANGED <<rows, world>>

(* One deletion fails: what went before it is gone, the row stays due.     *)
DeletionFails(s) ==
  /\ sweep[s].pc = "delete"
  /\ \E part \in SUBSET sweep[s].targets :
       part # sweep[s].targets /\ objects' = objects \ part
  /\ sweep' = [sweep EXCEPT ![s] = Resume(s)]
  /\ UNCHANGED <<rows, world>>

Anonymise(r) ==
  /\ anonymised' = anonymised \cup Cascade(r)
  /\ keys' = {k \in keys : k[1] \notin Cascade(r)}
  /\ UNCHANGED <<link, tombstoned, gone, ripe, registered>>

Tombstone(r) ==
  /\ registered[r] < MaxRegister
  /\ tombstoned' = tombstoned \cup Cascade(r)
  /\ ripe' = ripe \ Cascade(r)
  /\ registered' = [registered EXCEPT ![r] = @ + 1]
  /\ UNCHANGED <<link, anonymised, gone, keys>>

(* Foreign keys: a case's files go with it, a response attached to it by   *)
(* its own application_id stays and loses the link.                        *)
LinkWithout(q, lost) == IF q \in lost \/ link[q] \in lost THEN None ELSE link[q]

HardDelete(r) ==
  LET lost == Cascade(r) IN
  /\ gone' = gone \cup lost
  /\ tombstoned' = tombstoned \ lost
  /\ anonymised' = anonymised \ lost
  /\ ripe' = ripe \ lost
  /\ keys' = {k \in keys : k[1] \notin lost}
  /\ link' = [q \in DOMAIN link |-> LinkWithout(q, lost)]
  /\ UNCHANGED registered

MutCommitUnchecked(s) == TRUE
StillAllowed(s) == ~DisposalBlocked(sweep[s].app, sweep[s].gate.authority)

CommitRow(s) ==
  /\ sweep[s].pc = "commit"
  /\ StillAllowed(s)
  /\ \/ sweep[s].phase = "hard" /\ HardDelete(sweep[s].row)
     \/ sweep[s].phase = "soft" /\ sweep[s].gate.action = "anonymise" /\ Anonymise(sweep[s].row)
     \/ sweep[s].phase = "soft" /\ sweep[s].gate.action = "purge" /\ Tombstone(sweep[s].row)
  /\ sweep' = [sweep EXCEPT ![s] = Resume(s)]
  /\ UNCHANGED <<world, objects>>

(* The case became protected, or the transaction failed.                   *)
CommitFails(s) ==
  /\ sweep[s].pc = "commit"
  /\ sweep' = [sweep EXCEPT ![s] = Resume(s)]
  /\ UNCHANGED <<rows, world, objects>>

Crash(s) ==
  /\ sweep[s] # Idle
  /\ sweep' = [sweep EXCEPT ![s] = Idle]
  /\ UNCHANGED <<rows, world, objects>>

(* Thirty days pass; no sweep lasts that long.                             *)
GracePasses ==
  /\ \A s \in Sweeps : sweep[s] = Idle
  /\ ripe # tombstoned
  /\ ripe' = tombstoned
  /\ UNCHANGED <<link, anonymised, tombstoned, gone, registered, keys, objects, world, sweep>>

---------------------------------------------------------------------------
(* What goes on around it.                                                 *)

DecideCase(a) ==
  /\ a \notin official \cup tombstoned \cup gone
  /\ official' = official \cup {a}
  /\ UNCHANGED <<rows, held, scan, objects, sweep>>

PlaceHold(r) ==
  /\ r \notin held \cup gone
  /\ held' = held \cup {r}
  /\ UNCHANGED <<rows, official, scan, objects, sweep>>

ReleaseHold(r) ==
  /\ r \in held
  /\ held' = held \ {r}
  /\ UNCHANGED <<rows, official, scan, objects, sweep>>

AttachResponse(f, a) ==
  /\ f \notin gone /\ link[f] = None
  /\ a \notin tombstoned \cup gone
  /\ link' = [q \in DOMAIN link |->
                IF \/ q = f
                   \/ /\ q \in Evidence \ (tombstoned \cup gone)
                      /\ Origin[q] = f /\ link[q] = None
                THEN a ELSE link[q]]
  /\ UNCHANGED <<anonymised, tombstoned, gone, ripe, registered, keys, world, objects, sweep>>

(* A scan, whose steps EvidenceScan has: here it moves the object, and     *)
(* then records where it is.                                               *)
ScanPromote(e) ==
  /\ scan[e] = "none" /\ e \notin tombstoned \cup gone
  /\ <<e, "quarantine">> \in keys \cap objects
  /\ objects' = (objects \ {<<e, "quarantine">>}) \cup {<<e, "evidence">>}
  /\ scan' = [scan EXCEPT ![e] = "promoted"]
  /\ UNCHANGED <<rows, official, held, sweep>>

(* By id alone: whatever has become of the row.                            *)
ScanSettle(e) ==
  /\ scan[e] = "promoted"
  /\ keys' = IF e \in gone THEN keys ELSE keys \cup {<<e, "evidence">>}
  /\ scan' = [scan EXCEPT ![e] = "none"]
  /\ UNCHANGED <<link, anonymised, tombstoned, gone, ripe, registered, official, held,
                 objects, sweep>>

ScanDies(e) ==
  /\ scan[e] # "none"
  /\ scan' = [scan EXCEPT ![e] = "none"]
  /\ UNCHANGED <<rows, official, held, objects, sweep>>

Next ==
  \/ \E s \in Sweeps :
       \/ \E g \in Policies : \E page \in SUBSET DueSoft(g) : LoadSoft(s, g, page)
       \/ LoadHard(s)
       \/ \E r \in Records : BeginRow(s, r)
       \/ DeleteTargets(s) \/ DeletionFails(s)
       \/ CommitRow(s) \/ CommitFails(s) \/ Crash(s)
  \/ GracePasses
  \/ \E a \in Apps : DecideCase(a) \/ \E f \in Responses : AttachResponse(f, a)
  \/ \E r \in Records : PlaceHold(r) \/ ReleaseHold(r)
  \/ \E e \in Evidence : ScanPromote(e) \/ ScanSettle(e) \/ ScanDies(e)

Spec == Init /\ [][Next]_vars

---------------------------------------------------------------------------
(* How far the disposal of r has gone.                                     *)
Fate(r) == <<r \in anonymised, r \in tombstoned, r \in gone>>

(* "Official records (decided applications, finalised decisions, issued    *)
(* certificates) are left alone unless that signed authority is verified"  *)
(* (sweep.ts): however late the case was decided, a row the sweep knew to  *)
(* be of an official case is disposed of only with authority.              *)
OfficialKept ==
  [][\A r \in Records :
       (Fate(r)' # Fate(r) /\ Case(r) \in official)
         => \E s \in Sweeps : /\ sweep[s].pc = "commit" /\ sweep'[s] # sweep[s]
                              /\ sweep[s].gate.authority \/ sweep[s].app = None]_vars

(* "Each purge writes a destruction-register row in the same transaction   *)
(* as the tombstone" (sweep.ts): what a purge has marked is registered     *)
(* itself or with the case that took it along.                             *)
PurgedIsRegistered ==
  \A r \in tombstoned : \E q \in {r, Case(r)} \cap Records : registered[q] > 0
=============================================================================
