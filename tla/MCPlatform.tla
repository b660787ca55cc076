----------------------------- MODULE MCPlatform -----------------------------
(* Instances for TLC of what platform operators do with an organisation:   *)
(* they set it up and switch it (Onboarding), have its old records sealed  *)
(* (Backfill), ask for access to it (BreakGlass) and migrate the database  *)
(* for a release (Migrations).  A behaviour moves one of the four, inPlay, *)
(* and leaves the others where they began.  overlapped, stale, astray,     *)
(* neglected and halted record whether something has happened and have no  *)
(* effect on any step.                                                     *)
EXTENDS BreakGlass, Naturals, Sequences, TLC

CONSTANTS Items, Requests, Switches, MaxLinks, MaxLost
VARIABLES standing, ready, agreed, keyed, invitation, inbox, request, lost
setUpVars == <<standing, ready, agreed, keyed, invitation, inbox, request, lost>>
SetUp == INSTANCE Onboarding WITH status <- standing

CONSTANTS Tables, RowsEach, BATCH, Workers, MaxAttempts, MaxRuns, MaxEdits, MaxEvents
VARIABLES stored, edits, run, job, worker, events
sealVars == <<stored, edits, run, job, worker, events>>
Seal == INSTANCE Backfill

CONSTANTS Files, Jobs
VARIABLES effect, applied, progress, lock, migrator, released, rolled, triggers, may
schemaVars == <<effect, applied, progress, lock, migrator, released, rolled, triggers, may>>
Schema == INSTANCE Migrations WITH job <- migrator

\* The first migration creates its tables, indexes one concurrently and alters
\* them; the second validates a constraint.
Journal == << <<"plain", "index", "plain">>, <<"validate">> >>

ASSUME PlatformAssumption ==
  /\ Switches \subseteq SetUp!Statuses /\ MaxLinks \in Nat \ {0} /\ MaxLost \in Nat
  /\ {Tables, RowsEach, BATCH, MaxAttempts} \subseteq Nat \ {0}
  /\ {MaxRuns, MaxEdits, MaxEvents} \subseteq Nat
  /\ Files \in Seq(Seq({"plain", "index", "validate"})) /\ Files # <<>> /\ None \notin Jobs

VARIABLES
  overlapped,  \* two handlers of one kind were at work at once
  stale,       \* a row was edited while a batch that had read it was sealing its page
  astray,      \* a job of the back-fill was not its run's only worker or was lost
  neglected,   \* a migration passed over an index that was left invalid
  halted,      \* a migrate Job ended between its grants
  inPlay
history == <<overlapped, stale, astray, neglected, halted, inPlay>>
everything == <<vars, setUpVars, sealVars, schemaVars, history>>

Interchangeable ==
  Permutations(Grants) \cup Permutations(OperatorCalls) \cup Permutations(TenantCalls)
  \cup Permutations(Requests) \cup Permutations(Workers) \cup Permutations(Items)

Overlap ==
  \/ \E c, d \in TenantCalls : c # d /\ call[c] # Idle /\ call[d] # Idle
  \/ \E c, d \in Requests : c # d /\ request[c] # Idle /\ request[d] # Idle

EditedUnseen ==
  \E w \in Workers : worker[w] # Idle /\ \E x \in worker[w].todo : edits'[x.row] # edits[x.row]

\* A job ended without its batch; a run reached a page whose job of an earlier
\* run is still known; or two batches ran at once.
GoesAstray ==
  \/ \E c \in Seal!Cursors :
       /\ job[c].state # "finished" /\ job'[c].state = "finished"
       /\ ~\E w \in Workers : worker[w] # Idle /\ worker[w].at = c /\ worker[w].pc = "finish"
  \/ \E w \in Workers :
       worker[w] # Idle /\ worker[w].pc = "next" /\ job[worker[w].next].state = "finished"
  \/ \E v, w \in Workers : v # w /\ worker'[v] # Idle /\ worker'[w] # Idle

PlatformInit ==
  /\ Init /\ SetUp!Init /\ Seal!Init /\ Schema!Init
  /\ overlapped = FALSE /\ stale = FALSE /\ astray = FALSE /\ neglected = FALSE /\ halted = FALSE
  /\ inPlay \in {"access", "set-up", "back-fill", "schema"}
  /\ \A r \in Seal!Rows : stored[r].sealed <=> r = 1
PlatformNext ==
  /\ \/ inPlay = "access" /\ Next
        /\ UNCHANGED <<setUpVars, sealVars, schemaVars, stale, astray, neglected, halted>>
     \/ inPlay = "set-up" /\ SetUp!Next
        /\ UNCHANGED <<vars, sealVars, schemaVars, stale, astray, neglected, halted>>
     \/ /\ inPlay = "back-fill" /\ Seal!Next
        /\ stale' = (stale \/ EditedUnseen) /\ astray' = (astray \/ GoesAstray)
        /\ UNCHANGED <<vars, setUpVars, schemaVars, neglected, halted>>
     \/ /\ inPlay = "schema" /\ Schema!Next
        /\ neglected' = (neglected \/ Schema!TakesInvalid)
        /\ halted' = (halted \/ Schema!HaltsGranting)
        /\ UNCHANGED <<vars, setUpVars, sealVars, stale, astray>>
  /\ overlapped' = (overlapped \/ Overlap')
  /\ UNCHANGED inPlay
PlatformSpec == PlatformInit /\ [][PlatformNext]_everything

\* As long as the organisation's own requests did not overlap, the context is
\* refused until the approvers hold the notice of the very activation it would
\* be used under, through rollbacks and crashes.
\* "Every activation needs a human review": and access that was used and is not
\* reviewed stays in a state a review can be filed in, through failed notices.
SerialUseIsWatched == TypeOK /\ (~overlapped => UsableIsNoticed /\ UsedOwesReview)

\* As long as they did not overlap, an activation that fails half way never
\* revives a grant the organisation denied or revoked in the meantime.
SerialRefusalIsFinal == [][overlapped' \/ KeepsRefusals]_<<vars, overlapped>>

-----------------------------------------------------------------------------
Handled == \A c \in Requests : request[c] = Idle

\* The operator's command makes an organisation active whose checklist is done.
ReadyFirst == \A c \in Requests : request[c].pc = "activate" => ready = Items
\* The link mailed last opens the invitation.
LinkWorks == Handled /\ invitation.state = "pending" /\ lost = 0 => inbox = invitation.token

\* Nothing an organisation's own administrator began brings it back after a
\* suspension, and an accepted invitation is not given a new link.  The
\* operator's command "refuses while any of the three is missing"
\* (council-onboarding.md): the agreement always, the checklist as long as
\* requests come one at a time.  While, besides, nothing fails, the last
\* link mailed works.
OnboardingStands ==
  /\ []SetUp!TypeOK /\ []SetUp!AgreedFirst /\ []SetUp!LinksStand
  /\ [](~overlapped => ReadyFirst /\ LinkWorks)
  /\ [][SetUp!SuspensionStands /\ SetUp!AcceptedStands]_setUpVars

-----------------------------------------------------------------------------
\* "A finished run leaves every count at 0" (privacy-architecture.md), whatever
\* ran twice, failed or was put off; a run under way always has a job to carry
\* it on, through crashes and lost answers, until one of its jobs is dropped or
\* given up or two chains meet; and until somebody edits a row between the read
\* and the write of its batch, no edit is undone.
BackfillStands ==
  inPlay = "back-fill" =>
  /\ Seal!TypeOK /\ Seal!SealedWhenDone
  /\ ~astray => Seal!RunHasAJob
  /\ ~stale => Seal!LastEditStands

-----------------------------------------------------------------------------
\* Migrations are applied in order and whole, whatever failed, died or was run
\* beside them, until a retry passes over an index that a failed build left
\* invalid (migrator.ts: "so a retry is safe"); what cannot be repeated is not
\* run twice; "database first, then app and worker"; and a running release can
\* add audit events and nothing else to them, except between the grants of a
\* Job, or after one that ended there.
MigrationsStand ==
  inPlay = "schema" =>
  /\ Schema!TypeOK /\ Schema!InOrder /\ Schema!RunsOnce /\ Schema!SchemaFirst /\ Schema!Guarded
  /\ ~neglected => \A m \in applied : Schema!Whole(m)
  /\ ~halted => Schema!MayAudit
=============================================================================
