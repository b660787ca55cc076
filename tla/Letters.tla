------------------------------ MODULE Letters ------------------------------
(* Letters about a case: a person drafts one and sends it, by e-mail or as *)
(* a printed PDF, with a link under a fresh token; the e-mail is sealed as *)
(* a message and delivered by a worker unless the address is suppressed;   *)
(* the disposal of the case erases what the letter said.                   *)
(* Code: src/src/domains/correspondence, src/src/domains/email,            *)
(* src/src/lib/email; BullMQ and the relay are modelled as they are used.  *)
(*                                                                         *)
(* A send stands for one call of sendCorrespondence and for its token.     *)
(*                                                                         *)
(* Operators whose names begin with Mut are slips this code could have     *)
(* made in the definition that follows them; no action uses them.          *)
EXTENDS Naturals

CONSTANTS
  Papers,      \* rows of correspondence_items
  Sends,
  Posters,     \* workers of the e-mail queue
  None,
  MaxLosses    \* bound: crashes and refusals of a store or of the relay

VARIABLES
  letter,      \* the rows
  record,      \* the decision or certificate each letter is about
  suppressed,  \* letters whose address takes no mail
  prints,      \* sends whose PDF is stored
  send,        \* what each send is about to do
  message,     \* the sealed message of each send
  outbox,      \* the e-mail job of each send
  poster,      \* what each worker is doing
  mails,       \* e-mails of each send that the relay took
  losses
vars == <<letter, record, suppressed, prints, send, message, outbox, poster, mails, losses>>

\* An evidence request with its due date is sent as a general letter is.
Kinds == {"outcome", "certificate", "revocation", "general"}
Idle == [pc |-> "idle"]
NoLetter == [status |-> "none"]

TypeOK ==
  /\ letter \in [Papers -> {NoLetter} \cup
       [status : {"draft", "sent"}, kind : Kinds, channel : {"email", "letter"},
        link : Sends \cup {None}, pdf : Sends \cup {None}, message : Sends \cup {None},
        disposal : {"none", "begun", "done"}]]
  /\ record \in [Papers -> {"open", "settled", "revoked"}]
  /\ suppressed \subseteq Papers /\ prints \subseteq Sends
  /\ send \in [Sends -> {Idle} \cup
       [pc : {"address", "print", "commit", "clean up", "seal", "add", "point", "done"}, l : Papers]]
  /\ message \in [Sends -> {"none", "sealed", "erased"}]
  /\ outbox \in [Sends -> {"none", "queued", "active", "finished"}]
  /\ poster \in [Posters -> {Idle} \cup [pc : {"check", "post", "finish", "throw"}, s : Sends]]
  /\ mails \in [Sends -> Nat]
  /\ losses \in 0 .. MaxLosses

Init ==
  /\ letter = [l \in Papers |-> NoLetter] /\ record = [l \in Papers |-> "open"]
  /\ suppressed = {} /\ prints = {}
  /\ send = [s \in Sends |-> Idle] /\ message = [s \in Sends |-> "none"]
  /\ outbox = [s \in Sends |-> "none"] /\ poster = [w \in Posters |-> Idle]
  /\ mails = [s \in Sends |-> 0]
  /\ losses = 0

Lose == losses < MaxLosses /\ losses' = losses + 1

-----------------------------------------------------------------------------
(* The letter, its record and its address.                                 *)

RestUnchanged == UNCHANGED <<send, outbox, poster, mails, losses>>

DraftCorrespondence(l) ==
  /\ letter[l] = NoLetter
  /\ \E kind \in Kinds, channel \in {"email", "letter"} :
       letter' = [letter EXCEPT ![l] =
         [status |-> "draft", kind |-> kind, channel |-> channel,
          link |-> None, pdf |-> None, message |-> None, disposal |-> "none"]]
  /\ UNCHANGED <<record, suppressed, prints, message>> /\ RestUnchanged

\* A decision is finalised, a certificate signed, which may be revoked.
RecordMoves(l) ==
  /\ \/ record[l] = "open" /\ record' = [record EXCEPT ![l] = "settled"]
     \/ /\ record[l] = "settled" /\ letter[l] # NoLetter
        /\ letter[l].kind \in {"certificate", "revocation"}
        /\ record' = [record EXCEPT ![l] = "revoked"]
  /\ UNCHANGED <<letter, suppressed, prints, message>> /\ RestUnchanged

\* A permanent bounce or a complaint; an administrator clears it.
RecordSuppression(l) ==
  /\ suppressed' = suppressed \cup {l}
  /\ UNCHANGED <<letter, record, prints, message>> /\ RestUnchanged

ClearSuppression(l) ==
  /\ suppressed' = suppressed \ {l}
  /\ UNCHANGED <<letter, record, prints, message>> /\ RestUnchanged

\* The disposal of the case.  The object the row names is deleted first.
EraseObject(l) ==
  /\ letter[l] # NoLetter /\ letter[l].disposal = "none"
  /\ prints' = prints \ {letter[l].pdf}
  /\ letter' = [letter EXCEPT ![l].disposal = "begun"]
  /\ UNCHANGED <<record, suppressed, message>> /\ RestUnchanged

\* The row is erased, and the message it names.
EraseLetter(l) ==
  /\ letter[l] # NoLetter /\ letter[l].disposal = "begun"
  /\ message' = [s \in Sends |-> IF s = letter[l].message THEN "erased" ELSE message[s]]
  /\ letter' = [letter EXCEPT ![l] = [@ EXCEPT !.disposal = "done", !.link = None, !.pdf = None]]
  /\ UNCHANGED <<record, suppressed, prints>> /\ RestUnchanged

-----------------------------------------------------------------------------
(* sendCorrespondence.                                                     *)

SendUnchanged == UNCHANGED <<record, suppressed, outbox, poster, mails>>
To(s, pc) == send' = [send EXCEPT ![s].pc = pc]
Stops(s) == To(s, "done")
Of(s) == letter[send[s].l]

\* The first block of a disposed case is that it is not found.
Sendable(l) ==
  /\ letter[l].status = "draft" /\ letter[l].disposal # "done"
  /\ letter[l].kind \in {"outcome", "certificate"} => record[l] = "settled"
  /\ letter[l].kind = "revocation" => record[l] = "revoked"

SendRead(s, l) ==
  /\ send[s] = Idle /\ letter[l] # NoLetter /\ Sendable(l)
  /\ send' = [send EXCEPT ![s] =
       [pc |-> IF letter[l].channel = "letter" THEN "print" ELSE "address", l |-> l]]
  /\ UNCHANGED <<letter, prints, message, losses>> /\ SendUnchanged

CheckAddress(s) ==
  /\ send[s].pc = "address"
  /\ IF send[s].l \in suppressed THEN Stops(s) ELSE To(s, "commit")
  /\ UNCHANGED <<letter, prints, message, losses>> /\ SendUnchanged

\* The key of the object is made from the token.
PrintLetter(s) ==
  /\ send[s].pc = "print"
  /\ prints' = prints \cup {s}
  /\ To(s, "commit")
  /\ UNCHANGED <<letter, message, losses>> /\ SendUnchanged

MutAnyStatus(s) == Of(s).status \in {"draft", "sent"}
StillDraft(s) == Of(s).status = "draft"

SendCommit(s) ==
  LET paper == Of(s).channel = "letter" IN
  /\ send[s].pc = "commit"
  /\ IF StillDraft(s)
       THEN /\ letter' = [letter EXCEPT ![send[s].l] =
                 [@ EXCEPT !.status = "sent", !.link = s, !.pdf = IF paper THEN s ELSE None]]
            /\ IF paper THEN Stops(s) ELSE To(s, "seal")
       ELSE /\ UNCHANGED letter
            /\ IF paper THEN To(s, "clean up") ELSE Stops(s)
  /\ UNCHANGED <<prints, message, losses>> /\ SendUnchanged

\* The send that lost deletes the PDF of its own.
CleanUp(s) ==
  /\ send[s].pc = "clean up"
  /\ prints' = prints \ {s}
  /\ Stops(s)
  /\ UNCHANGED <<letter, message, losses>> /\ SendUnchanged

SealMessage(s) ==
  /\ send[s].pc = "seal"
  /\ message' = [message EXCEPT ![s] = "sealed"]
  /\ To(s, "add")
  /\ UNCHANGED <<letter, prints, losses>> /\ SendUnchanged

AddMail(s) ==
  /\ send[s].pc = "add"
  /\ outbox' = [outbox EXCEPT ![s] = "queued"]
  /\ To(s, "point")
  /\ UNCHANGED <<letter, record, suppressed, prints, message, poster, mails, losses>>

PointAtMessage(s) ==
  /\ send[s].pc = "point"
  /\ letter' = [letter EXCEPT ![send[s].l].message = s]
  /\ Stops(s)
  /\ UNCHANGED <<prints, message, losses>> /\ SendUnchanged

\* The process dies or a store refuses.  After the commit the letter stays
\* sent: the failure of its e-mail is caught and logged.
SendFails(s) ==
  /\ send[s].pc \notin {"idle", "done"} /\ Lose
  /\ Stops(s)
  /\ UNCHANGED <<letter, prints, message>> /\ SendUnchanged

-----------------------------------------------------------------------------
(* The e-mail queue, emailProcessor and sendEmail.                         *)

MailUnchanged == UNCHANGED <<letter, record, suppressed, prints, send, message>>
Mail(w) == poster[w].s
Onward(w, pc) == poster' = [poster EXCEPT ![w].pc = pc]

TakeMail(w, s) ==
  /\ poster[w] = Idle /\ outbox[s] = "queued"
  /\ outbox' = [outbox EXCEPT ![s] = "active"]
  /\ poster' = [poster EXCEPT ![w] = [pc |-> "check", s |-> s]]
  /\ UNCHANGED <<mails, losses>> /\ MailUnchanged

\* The message is opened and its address checked.  An erased message has no
\* address, which the relay refuses.
CheckMail(w) ==
  /\ poster[w].pc = "check"
  /\ Onward(w, IF message[Mail(w)] = "erased" THEN "throw"
               ELSE IF send[Mail(w)].l \in suppressed THEN "finish" ELSE "post")
  /\ UNCHANGED <<outbox, mails, losses>> /\ MailUnchanged

PostMail(w) ==
  /\ poster[w].pc = "post"
  /\ mails' = [mails EXCEPT ![Mail(w)] = @ + 1]
  /\ Onward(w, "finish")
  /\ UNCHANGED <<outbox, losses>> /\ MailUnchanged

RelayRefuses(w) ==
  /\ poster[w].pc \in {"check", "post"} /\ Lose
  /\ Onward(w, "throw")
  /\ UNCHANGED <<outbox, mails>> /\ MailUnchanged

MailDone(w) ==
  /\ poster[w].pc \in {"finish", "throw"}
  /\ poster' = [poster EXCEPT ![w] = Idle]
  /\ \E at \in IF poster[w].pc = "finish" THEN {"finished"} ELSE {"queued", "finished"} :
       outbox' = [outbox EXCEPT ![Mail(w)] = at]
  /\ UNCHANGED <<mails, losses>> /\ MailUnchanged

PosterDies(w) ==
  /\ poster[w] # Idle /\ Lose
  /\ poster' = [poster EXCEPT ![w] = Idle]
  /\ UNCHANGED <<outbox, mails>> /\ MailUnchanged

MailStalled(s) ==
  /\ outbox[s] = "active" /\ ~\E w \in Posters : poster[w] # Idle /\ Mail(w) = s
  /\ \E at \in {"queued", "finished"} : outbox' = [outbox EXCEPT ![s] = at]
  /\ UNCHANGED <<poster, mails, losses>> /\ MailUnchanged

-----------------------------------------------------------------------------
Next ==
  \/ \E l \in Papers :
       \/ DraftCorrespondence(l) \/ RecordMoves(l) \/ EraseObject(l) \/ EraseLetter(l)
       \/ RecordSuppression(l) \/ ClearSuppression(l)
       \/ \E s \in Sends : SendRead(s, l)
  \/ \E s \in Sends :
       \/ CheckAddress(s) \/ PrintLetter(s) \/ SendCommit(s) \/ CleanUp(s)
       \/ SealMessage(s) \/ AddMail(s) \/ PointAtMessage(s) \/ SendFails(s)
       \/ MailStalled(s) \/ \E w \in Posters : TakeMail(w, s)
  \/ \E w \in Posters :
       CheckMail(w) \/ PostMail(w) \/ RelayRefuses(w) \/ MailDone(w) \/ PosterDies(w)

Spec == Init /\ [][Next]_vars

-----------------------------------------------------------------------------
Sent(l) == letter[l].status = "sent"

\* A printed letter that was sent has its PDF, which carries its own link.
SentIsPrinted ==
  \A l \in Papers : Sent(l) /\ letter[l].disposal = "none" /\ letter[l].channel = "letter" =>
    letter[l].pdf = letter[l].link /\ letter[l].pdf \in prints

\* One message is made of a letter, and its link opens the letter.
MailOpensLetter ==
  \A s \in Sends : message[s] # "none" =>
    LET l == send[s].l IN Sent(l) /\ (letter[l].link = s \/ letter[l].disposal = "done")

\* An outcome is sent when it was recorded, a revocation when it was made.
SentIsSettled ==
  \A l \in Papers : Sent(l) /\ letter[l].kind # "general" =>
    record[l] = "revoked" \/ (letter[l].kind # "revocation" /\ record[l] = "settled")

\* Nothing that a send left behind is kept.
NoStrayPrint ==
  \A s \in prints : send[s].pc = "done" => letter[send[s].l].pdf = s
MailedOnce == \A s \in Sends : mails[s] <= 1
ErasedIsGone(l) ==
  letter[l] # NoLetter /\ letter[l].disposal = "done" =>
    \A s \in Sends : send[s] # Idle /\ send[s].l = l =>
      s \notin prints /\ message[s] # "sealed" /\ letter[l].link # s
=============================================================================
