------------------------------ MODULE MCOffice ------------------------------
(* Instances for TLC of what an organisation's office does beside its      *)
(* cases: certificates (Certificates), the letters that tell people about  *)
(* them (Letters), the notices of members (Notices) and the committee's    *)
(* meetings (Sittings).  A behaviour moves one of the four, inPlay, and    *)
(* leaves the others where they began; a letter reads of its certificate   *)
(* nothing but the status, which moves in its own module.  overtaken and   *)
(* overlapped record whether something has happened and have no effect on  *)
(* any step.                                                               *)
EXTENDS Certificates, TLC

CONSTANTS Papers, Posters, MaxLosses
VARIABLES letter, record, suppressed, prints, send, message, outbox, poster, mails, losses
letterVars == <<letter, record, suppressed, prints, send, message, outbox, poster, mails, losses>>
Mail == INSTANCE Letters WITH Sends <- Calls

VARIABLES notice, wants, producer, offer, courier, copies, mishaps
noticeVars == <<notice, wants, producer, offer, courier, copies, mishaps>>
Bell == INSTANCE Notices WITH Keys <- Papers, Producers <- Calls, Couriers <- Posters, losses <- mishaps

CONSTANTS Meetings, Proposals
VARIABLES meeting, agenda, stage, proposal, attendance, request
sittingVars == <<meeting, agenda, stage, proposal, attendance, request>>
Sit == INSTANCE Sittings WITH Members <- Papers, Requests <- Calls

VARIABLES
  overtaken,   \* a send was under way while its letter was being erased
  overlapped,  \* two requests about sittings were at work at once
  inPlay
history == <<overtaken, overlapped, inPlay>>
everything == <<vars, letterVars, noticeVars, sittingVars, history>>

ASSUME OfficeAssumption == MaxLosses \in Nat

Interchangeable ==
  Permutations(Calls) \cup Permutations(Keys) \cup Permutations(Posters) \cup Permutations(Meetings)

UnderWay(l) == \E c \in Calls : send[c].pc \notin {"idle", "done"} /\ send[c].l = l
Overtakes == \E l \in Papers :
  letter[l] # Mail!NoLetter /\ letter[l].disposal = "begun" /\ UnderWay(l)

Overlap == \E c, d \in Calls : c # d /\ request[c] # Sit!Idle /\ request[d] # Sit!Idle

\* Bound: attendance is recorded while the case is not listed.
WithinBounds == (\E x \in DOMAIN attendance : attendance[x] # None) => agenda = {}

OfficeInit ==
  /\ Init /\ Mail!Init /\ Bell!Init /\ Sit!Init /\ overtaken = FALSE /\ overlapped = FALSE
  /\ inPlay \in {"certificates", "letters", "notices", "sittings"}
  /\ inPlay # "notices" => ~wants
OfficeNext ==
  /\ \/ inPlay = "certificates" /\ Next
        /\ UNCHANGED <<letterVars, noticeVars, sittingVars, overtaken>>
     \/ /\ inPlay = "letters" /\ Mail!Next
        /\ overtaken' = (overtaken \/ Overtakes')
        /\ UNCHANGED <<vars, noticeVars, sittingVars>>
     \/ inPlay = "notices" /\ Bell!Next
        /\ UNCHANGED <<vars, letterVars, sittingVars, overtaken>>
     \/ inPlay = "sittings" /\ Sit!Next
        /\ UNCHANGED <<vars, letterVars, noticeVars, overtaken>>
  /\ overlapped' = (overlapped \/ Overlap')
  /\ UNCHANGED inPlay
OfficeSpec == OfficeInit /\ [][OfficeNext]_everything

(* A letter is sent once, whoever presses Send twice: its PDF is stored    *)
(* and its message carries the link that opens it, and it says only what   *)
(* was recorded ("Outcome letters are blocked until a person has finalised *)
(* the decision", correspondence/compose.ts).  While nothing fails, nothing *)
(* is left over, no e-mail goes out twice, and the disposal of a case that *)
(* does not overtake a send erases all that the letter left.  A notice is  *)
(* not e-mailed twice but for a fault ("a retry cannot double-schedule     *)
(* it", notifications/service.ts).                                         *)
LettersStand ==
  inPlay \in {"letters", "notices"} =>
  /\ Mail!TypeOK /\ Mail!SentIsPrinted /\ Mail!MailOpensLetter /\ Mail!SentIsSettled
  /\ losses = 0 => Mail!MailedOnce
  /\ losses = 0 /\ ~overtaken => Mail!NoStrayPrint /\ \A l \in Papers : Mail!ErasedIsGone(l)
  /\ Bell!TypeOK /\ Bell!CopiesBounded

(* The meeting a decision is tied to never changes, "even if that sitting  *)
(* was later cancelled" (meeting-link.ts), whoever proposes, finalises,    *)
(* lists or cancels meanwhile; a decision is not finalised without one     *)
(* "when the case is already on an agenda" as long as requests come one at *)
(* a time; and the note of an attendance can be opened whoever recorded    *)
(* the member first.                                                       *)
SittingsStand ==
  /\ []Sit!TypeOK /\ []Sit!NoteOpens
  /\ [][Sit!LinkKept /\ (~overlapped => Sit!NotInSilence)]_<<sittingVars, overlapped>>
=============================================================================
