---------------------------- MODULE MCRetention ----------------------------
(* Instances for TLC of the three parts of retention: RetentionSweep, with *)
(* history variables that tell which sweeps ran undisturbed,               *)
(* DisposalAuthority and RetentionClients.  The three share no state, so a *)
(* behaviour moves one of them, inPlay, and leaves the others where they   *)
(* began.                                                                  *)
EXTENDS RetentionSweep, TLC

CONSTANTS PolicyIds, People, References, Days, Terms, MaxSignoffs, Signings, Activations, Gatings
CONSTANTS Cases, Clients, Jobs
CONSTANTS ra, rb
CONSTANTS a1, e1, f1, f2,
  MaxWalks  \* bound on the walks begun in a behaviour
FormOf   == f1 :> a1 @@ f2 :> None
OriginOf == e1 :> f2
AbsentChoices == {{f1}, {e1, f2}}
Says(ref, permanent, minimum) == [ref |-> ref, permanent |-> permanent, minimum |-> minimum]
SignedTerms == {Says(ra, FALSE, 2), Says(ra, TRUE, 0), Says(rb, FALSE, 0)}
PolicyOn(k, a, v) == [kind |-> k, action |-> a, authority |-> v]
SweepPolicies == {PolicyOn(k, "purge", TRUE) : k \in {"application", "evidence", "form_response"}}
  \cup {PolicyOn(k, "anonymise", FALSE) : k \in {"application", "evidence", "form_response"}}
  \cup {PolicyOn("application", "anonymise", TRUE)}
Interchangeable == Permutations(Jobs)
ASSUME RetentionAssumption == MaxSignoffs \in Nat

VARIABLES policy, signoff, signing, activation, gating
authorityVars == <<policy, signoff, signing, activation, gating>>
Authority == INSTANCE DisposalAuthority

VARIABLES client, erased, purged, blank, job
clientVars == <<client, erased, purged, blank, job>>
Client == INSTANCE RetentionClients

VARIABLES
  late,     \* a hold, a decision or a link came while a sweep was under way
  overlap,  \* two sweeps have overlapped
  matured,  \* rows that have stood tombstoned for the grace period
  walks,    \* walks begun
  stray     \* files that a scan was promoting or had lost, or that joined
            \* their case, while it was being disposed of
history == <<late, overlap, matured, walks, stray>>

Busy == {s \in Sweeps : sweep[s] # Idle}
Targeted == UNION {Cascade(sweep[s].row) : s \in {t \in Sweeps : sweep[t].pc \in {"delete", "commit"}}}
Lost(e) == <<e, "evidence">> \in objects \ keys

SweepInit == Init /\ late = FALSE /\ overlap = FALSE /\ matured = {} /\ walks = 0 /\ stray = {}
SweepNext ==
  /\ Next
  /\ late' = /\ Busy' # {}
             /\ late \/ held' # held \/ official' # official
                \/ \E f \in Responses : link[f] # link'[f] /\ f \notin gone'
  /\ overlap' = (overlap \/ \E s, t \in Busy' : s # t)
  /\ matured' = IF GracePasses THEN tombstoned ELSE matured
  /\ walks' = walks + (IF \E s \in Sweeps : sweep[s] = Idle /\ sweep'[s] # Idle THEN 1 ELSE 0)
  /\ walks' <= MaxWalks
  /\ stray' = stray \cup {e \in Evidence \cap Targeted' :
                          scan'[e] # "none" \/ Lost(e)' \/ link'[e] # link[e]}
VARIABLES
  crossed,  \* two sign-offs, or two anonymisations of one client, have overlapped
  inPlay
everything == <<vars, history, authorityVars, clientVars, crossed, inPlay>>

(* One hold at a time, and not while a case is decided, since neither      *)
(* changes what the other does.  A sweep is disturbed by an event or by    *)
(* another sweep, not by both.  Nothing is said of sign-offs that          *)
(* overlapped.                                                             *)
WithinBounds ==
  /\ Cardinality(held) <= 1 /\ (held = {} \/ official = {})
  /\ ~(overlap /\ late)
  /\ ~(inPlay = "authority" /\ crossed)

SeveralBusy(procs, idle) == \E p, q \in DOMAIN procs : p # q /\ procs[p] # idle /\ procs[q] # idle

RetentionInit ==
  /\ SweepInit /\ Authority!Init /\ Client!Init
  /\ crossed = FALSE
  /\ inPlay \in {"sweep", "authority", "clients"}
RetentionNext ==
  /\ \/ /\ inPlay = "sweep" /\ SweepNext
        /\ UNCHANGED <<authorityVars, clientVars, crossed>>
     \/ /\ inPlay = "authority" /\ Authority!Next
        /\ crossed' = (crossed \/ SeveralBusy(signing', Idle))
        /\ UNCHANGED <<vars, history, clientVars>>
     \/ /\ inPlay = "clients" /\ Client!Next
        /\ crossed' = (crossed \/ SeveralBusy(job', Idle))
        /\ UNCHANGED <<vars, history, authorityVars>>
  /\ UNCHANGED inPlay
RetentionSpec == RetentionInit /\ [][RetentionNext]_everything

RetentionTypeOK == TypeOK /\ Authority!TypeOK /\ Client!TypeOK

Protects(h, r) == h = r \/ h = Case(r) \/ (r \in Apps /\ Case(h) = r)

(* "A legal hold pins a specific record so retention can never touch it    *)
(* while the hold stands" (db/schema/retention.ts), nor its case, nor the  *)
(* files and form responses of a held case: so it is when the hold stood   *)
(* before the sweeps now under way began.                                  *)
SerialHoldStands ==
  [][~late => \A r \in Records :
       Fate(r)' # Fate(r) => ~\E h \in held : Protects(h, r)]_everything

Stored(e) == {o \in objects : o[1] = e} # {}

(* A row is removed only when it, or the case that takes it along, has     *)
(* been tombstoned for thirty days (HARD_DELETE_GRACE_DAYS), also when     *)
(* several sweeps are at work on it and some of them die.                  *)
GraceKept ==
  [][\A r \in gone' \ gone : r \in matured \/ Case(r) \in matured]_everything

(* An official record keeps its objects too, unless it became official, or *)
(* the file joined it, after a sweep had begun: objects are deleted before *)
(* the transaction that checks again.                                      *)
SerialObjectsKept ==
  [][\A e \in Evidence :
       (Stored(e) /\ ~Stored(e)' /\ ~late /\ link[e] \in official)
         => \E s \in Sweeps : sweep[s].pc = "delete" /\ sweep'[s] # sweep[s]
                              /\ sweep[s].gate.authority]_everything

(* "A decided application ... is an official record.  Neither purge nor    *)
(* anonymise touches it, or its evidence and form responses, unless the    *)
(* policy's authority is verified" (docs/records-disposal.md): its form    *)
(* responses are those attached to it, though its forms be others.         *)
AttachedResponsesKept ==
  [][\A f \in Responses :
       (Fate(f)' # Fate(f) /\ ~late /\ link[f] \in official)
         => \E s \in Sweeps : sweep[s].pc = "commit" /\ sweep'[s] # sweep[s]
                              /\ sweep[s].gate.authority]_everything

(* Nothing of a disposed file stays in storage, whatever deletions failed  *)
(* and sweeps died on the way, unless a scan was promoting it or died      *)
(* before recording where it had moved it, or it was attached to the case  *)
(* between the deletion of the case's objects and the disposal.            *)
NothingLeft ==
  \A e \in (anonymised \cup tombstoned \cup gone) \cap Evidence : ~Stored(e) \/ e \in stray

(* "One register row per purged record" (sweep.ts), as long as the sweeps  *)
(* of a tenant do not overlap, however often one dies and is run again.    *)
SerialRegisteredOnce == ~overlap => \A r \in Records : registered[r] <= 1

(* What a disposal leaves behind is what its register says.                *)
DisposalIsComplete ==
  RetentionTypeOK /\ PurgedIsRegistered /\ NothingLeft /\ SerialRegisteredOnce

(* Neither an official record nor one in its grace period is disposed of.  *)
DisposalIsLawful == OfficialKept /\ GraceKept

(* What was protected when the sweeps began keeps its row and its objects. *)
SerialProtectedKept == SerialHoldStands /\ SerialObjectsKept

(* "A later sign-off supersedes the earlier one" (db/schema/retention.ts): *)
(* one is current, as long as they are signed one after another.           *)
SerialOneSignoff == ~crossed => Authority!OneCurrent

(* What passes the gate is backed by two people and, when it destroys or   *)
(* reaches official records, by the sign-off made last ("Why the sweep     *)
(* must not act on this policy", approval.ts), as long as sign-offs are    *)
(* made one after another: whatever was drafted, activated and deleted     *)
(* between the checks and the commits of others.                           *)
SerialGateBacked ==
  [][\A s \in Gatings :
       (gating[s].pc = "loaded" /\ gating'[s].pc = "gated" /\ ~crossed)
         => \A g \in gating'[s].gates : Authority!Backed(g, gating[s].rows[g.policy])]_everything

(* So it is of the sign-offs and of what acts on them.                     *)
SerialSignoffs == []SerialOneSignoff /\ SerialGateBacked

(* A client keeps the details a live case needs, and an anonymised case    *)
(* names no client who still has any, unless two cases of the client were  *)
(* anonymised at once.                                                     *)
SerialClientFollows == ~crossed => Client!BlankHasNoCase /\ Client!ErasedLeadsNowhere
=============================================================================
