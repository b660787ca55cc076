---------------------------- MODULE Office_proofs ----------------------------
(***************************************************************************)
(* What an organisation's office does beside its cases, for every set of   *)
(* decisions, keys, letters, meetings, workers and concurrent requests.    *)
(*   Certificates: every seal verifies, the rows agree with one another    *)
(*     and with what integrators were told, and no decision ever has two   *)
(*     live ones.  What carries the argument is the version a request      *)
(*     read: it never passes the row's, and a row that was tombstoned has  *)
(*     left it behind.                                                     *)
(*   Sittings: a decision keeps the meeting it is tied to, since a request *)
(*     about to finalise carries that meeting.                             *)
(*   Letters: one send at most goes beyond its commit, the letter carries  *)
(*     its link, and what the others left they clean up themselves.        *)
(*   Notices: copies, runs that may still post and the copy owed are       *)
(*     together no more than one and the faults so far.                    *)
(***************************************************************************)
EXTENDS MCOffice, FiniteSetTheorems, TLAPS

\* Only decisions finalised as confirmed have certificates.
RowsAreConfirmed == \A i \in CertIds : Stored(i) => final[cert[i].decision] = "confirmed"

\* The links of a row lead to rows.
LinksAreStored ==
  \A i \in CertIds : Stored(i) =>
    /\ cert[i].supersedes # None => Stored(cert[i].supersedes)
    /\ cert[i].supersededBy # None => Stored(cert[i].supersededBy)

AtMostOneLive ==
  \A i, j \in CertIds :
    /\ Found(i) /\ Found(j) /\ cert[i].decision = cert[j].decision
    /\ cert[i].state # "revoked" /\ cert[j].state # "revoked"
    => i = j

RowsHold == RowsAreConfirmed /\ LinksAreStored /\ LinksAreMutual /\ SealsVerify /\ AtMostOneLive

\* What a request has read is no later than the row, and earlier than its
\* tombstone; what it sealed is what a confirmed decision says; its key is
\* recorded before it signs; what it tells has happened.
Read(k) ==
  /\ Stored(k.id)
  /\ k.version <= cert[k.id].version
  /\ cert[k.id].deleted => k.version < cert[k.id].version

Happened(event) ==
  /\ Stored(event[2])
  /\ cert[event[2]].seal # None
  /\ event[1] = "revoked" => cert[event[2]].state = "revoked"

CallHolds(k) ==
  /\ k.pc = "insert" => final[k.decision] = "confirmed"
  /\ k.pc \in {"seal", "record", "sign", "replace", "revoke"} => Read(k)
  /\ k.pc = "seal" => k.outcome = "confirmed"
  /\ k.pc \in {"record", "sign"} => k.seal.outcome = "confirmed"
  /\ k.pc = "sign" => k.seal.key \in known
  /\ k.pc = "tell" => Happened(k.event)

CallsHold == \A c \in Calls : CallHolds(call[c])

IInv == TypeOK /\ RowsHold /\ CallsHold

-----------------------------------------------------------------------------
\* A row that is stored is a certificate: no certificate is absent.
LEMMA RowShape == Absent \notin Cert
BY DEF Absent, Cert

\* What the program counter says about the rest of a request's record.
LEMMA CallShape ==
  ASSUME NEW k \in CallStates
  PROVE  /\ k.pc = "insert" => k \in Inserting
         /\ k.pc = "seal" => k \in Sealing
         /\ k.pc \in {"record", "sign"} => k \in Signing
         /\ k.pc \in {"replace", "revoke"} => k \in Revoking
         /\ k.pc = "tell" => k \in Telling
<1>1. CASE k = Idle
  BY <1>1 DEF Idle
<1>2. CASE k \in Inserting
  BY <1>2 DEF Inserting
<1>3. CASE k \in Sealing
  BY <1>3 DEF Sealing
<1>4. CASE k \in Signing
  BY <1>4 DEF Signing
<1>5. CASE k \in Revoking
  BY <1>5 DEF Revoking
<1>6. CASE k \in Telling
  BY <1>6 DEF Telling
<1> QED BY <1>1, <1>2, <1>3, <1>4, <1>5, <1>6 DEF CallStates

\* A new certificate is a draft with no seal and no successor.
LEMMA DraftType ==
  ASSUME NEW d \in Decisions, NEW b \in Binding \cup {None}, NEW s \in CertIds \cup {None}
  PROVE  Draft(d, b, s) \in Cert
BY DEF Draft, Cert

\* Signing and revoking a row change these of its fields and no other.
LEMMA SignedRow ==
  ASSUME NEW old \in Cert, NEW seal \in Seal
  PROVE  LET row == Signed(old, seal) IN
         /\ row \in Cert /\ row.state = "signed" /\ row.seal = seal /\ row.binding = seal.binding
         /\ row.version = old.version + 1
         /\ row.deleted = old.deleted /\ row.decision = old.decision
         /\ row.supersedes = old.supersedes /\ row.supersededBy = old.supersededBy
<1> DEFINE a == [old EXCEPT !.state = "signed"]
           b == [a EXCEPT !.seal = seal]
           c == [b EXCEPT !.binding = seal.binding]
           d == [c EXCEPT !.version = old.version + 1]
<1>1. a \in Cert
  BY DEF Cert
<1>2. Signed(old, seal) = d /\ seal.binding \in Binding
  BY DEF Signed, Cert, Seal
<1> HIDE DEF a
<1>3. b \in Cert
  BY <1>1 DEF Cert
<1> HIDE DEF b
<1>4. c \in Cert
  BY <1>2, <1>3 DEF Cert
<1> HIDE DEF c
<1>5. d \in Cert
  BY <1>4 DEF Cert
<1> HIDE DEF d
<1> QED BY <1>2, <1>5 DEF Signed, Cert

LEMMA RevokedRow ==
  ASSUME NEW old \in Cert, NEW by \in CertIds \cup {None}
  PROVE  LET row == Revoked(old, by) IN
         /\ row \in Cert /\ row.state = "revoked" /\ row.seal = old.seal /\ row.binding = old.binding
         /\ row.version = old.version + 1
         /\ row.deleted = old.deleted /\ row.decision = old.decision
         /\ row.supersedes = old.supersedes /\ row.supersededBy = by
<1> DEFINE a == [old EXCEPT !.state = "revoked"]
           b == [a EXCEPT !.supersededBy = by]
           c == [b EXCEPT !.version = old.version + 1]
<1>1. a \in Cert
  BY DEF Cert
<1>2. Revoked(old, by) = c
  BY DEF Revoked, Cert
<1> HIDE DEF a
<1>3. b \in Cert
  BY <1>1 DEF Cert
<1> HIDE DEF b
<1>4. c \in Cert
  BY <1>3 DEF Cert
<1> HIDE DEF c
<1> QED BY <1>2, <1>4 DEF Revoked, Cert

-----------------------------------------------------------------------------
\* What no step takes back: rows and decisions stay what they were decided to
\* be, versions only grow, and a tombstone comes with a new version.
RowKept(i) ==
  Stored(i) =>
    /\ Stored(i)'
    /\ cert'[i].decision = cert[i].decision
    /\ cert[i].version <= cert'[i].version
    /\ cert[i].deleted => cert'[i].deleted
    /\ cert'[i].deleted => cert[i].deleted \/ cert[i].version < cert'[i].version
    /\ cert[i].seal # None => cert'[i].seal # None
    /\ cert[i].state = "revoked" => cert'[i].state = "revoked"

Kept ==
  /\ \A i \in CertIds : RowKept(i)
  /\ \A d \in Decisions : final[d] # None => final'[d] = final[d]
  /\ known \subseteq known'

\* What holds of a request goes on to hold of it.
LEMMA CallKept ==
  ASSUME TypeOK, TypeOK', Kept, NEW k \in CallStates, CallHolds(k)
  PROVE  CallHolds(k)'
<1>1. k.pc = "insert" => k.decision \in Decisions
  BY CallShape DEF Inserting
<1>2. k.pc \in {"seal", "record", "sign", "replace", "revoke"} =>
        k.id \in CertIds /\ k.version \in Nat
  BY CallShape DEF Sealing, Signing, Revoking
<1>3. k.pc = "tell" => k.event[2] \in CertIds
  BY CallShape DEF Telling, Event
<1>4. \A i \in CertIds : Stored(i) => cert[i].version \in Nat /\ cert'[i].version \in Nat
  BY RowShape DEF Cert, Kept, RowKept, TypeOK, Stored
<1>5. (k.pc = "insert" => final[k.decision] = "confirmed")'
  BY <1>1, ConstantsAssumption DEF CallHolds, Kept
<1>6. k.pc \in {"seal", "record", "sign", "replace", "revoke"} => Read(k)'
  BY <1>2, <1>4 DEF CallHolds, Kept, RowKept, Read, Stored
<1>7. k.pc = "tell" => Happened(k.event)'
  BY <1>3 DEF CallHolds, Kept, RowKept, Happened, Stored
<1>8. k.pc = "sign" => k.seal.key \in known'
  BY DEF CallHolds, Kept
<1> QED BY <1>5, <1>6, <1>7, <1>8 DEF CallHolds

\* So only the request that takes the step has to be looked at.
LEMMA CallsStep ==
  ASSUME TypeOK, TypeOK', CallsHold, Kept,
         \/ UNCHANGED call
         \/ \E c \in Calls, k \in CallStates : Goto(c, k) /\ (CallHolds(k) \/ CallHolds(k)')
  PROVE  CallsHold'
<1> SUFFICES ASSUME NEW d \in Calls PROVE CallHolds(call[d])'
  BY DEF CallsHold
<1>0. call[d] \in CallStates /\ CallHolds(call[d])
  BY DEF TypeOK, CallsHold
<1>1. CASE call'[d] = call[d]
  BY <1>0, <1>1, CallKept DEF CallHolds, Read, Happened, Stored
<1>2. ASSUME NEW k \in CallStates, call'[d] = k, CallHolds(k) \/ CallHolds(k)'
      PROVE  CallHolds(call[d])'
  BY <1>2, CallKept DEF CallHolds, Read, Happened, Stored
<1> QED BY <1>1, <1>2 DEF Goto, TypeOK

\* Nothing is taken back as long as no row changes.
LEMMA KeptUntouched ==
  ASSUME TypeOK, UNCHANGED cert, known \subseteq known',
         \A d \in Decisions : final[d] # None => final'[d] = final[d]
  PROVE  Kept
<1>1. \A i \in CertIds : Stored(i) => cert[i].version \in Nat
  BY RowShape DEF TypeOK, Stored, Cert
<1> QED BY <1>1 DEF Kept, RowKept, Stored

\* The rows stand as long as no row changes.
LEMMA RowsUntouched ==
  ASSUME TypeOK, RowsHold, Kept, UNCHANGED cert
  PROVE  RowsHold'
<1>1. \A i \in CertIds : Stored(i) => cert[i] \in Cert
  BY RowShape DEF TypeOK, Stored
<1>2. RowsAreConfirmed'
  BY <1>1, ConstantsAssumption DEF RowsHold, RowsAreConfirmed, Kept, Stored, Cert
<1>3. LinksAreStored' /\ LinksAreMutual' /\ AtMostOneLive'
  BY DEF RowsHold, LinksAreStored, LinksAreMutual, AtMostOneLive, Stored, Found
<1>4. SealsVerify'
  BY <1>1, <1>2 DEF RowsHold, RowsAreConfirmed, SealsVerify, Stored, Kept
<1> QED BY <1>2, <1>3, <1>4 DEF RowsHold

-----------------------------------------------------------------------------
(* One step lemma per action that writes a row.                            *)

\* A draft inserted where there is no live certificate.
LEMMA InsertStep ==
  ASSUME IInv, NEW c \in Calls, NEW i \in CertIds, GenerateInsert(c, i)
  PROVE  TypeOK' /\ Kept /\ RowsHold' /\ CallsHold'
<1> USE DEF IInv
<1>0. call[c] \in Inserting /\ final[call[c].decision] = "confirmed"
  BY CallShape DEF TypeOK, GenerateInsert, CallsHold, CallHolds
<1>1. UNCHANGED <<final, decided, purged, key, known>> /\ Goto(c, Idle)
  BY DEF GenerateInsert, world
<1>2. Idle \in CallStates /\ CallHolds(Idle)
  BY DEF CallStates, CallHolds, Idle
<1>3. CASE UNCHANGED cert
  <2>1. TypeOK'
    BY <1>1, <1>2, <1>3 DEF TypeOK, Goto
  <2>2. Kept
    BY <1>1, <1>3, KeptUntouched
  <2> QED BY <1>1, <1>2, <1>3, <2>1, <2>2, CallsStep, RowsUntouched
<1>4. CASE Live(call[c].decision) = {} /\ cert' = [cert EXCEPT ![i] = Draft(call[c].decision, i, None)]
  <2> DEFINE d == call[c].decision
             new == Draft(d, i, None)
  <2>1. d \in Decisions
    BY <1>0 DEF Inserting
  <2>2. new \in Cert
    BY <2>1, DraftType DEF Binding
  <2>3. ~Stored(i) /\ cert'[i] = new /\ Stored(i)'
    BY <1>4, <2>2, RowShape DEF TypeOK, GenerateInsert, Fresh, Stored
  <2>4. \A j \in CertIds : j # i => cert'[j] = cert[j]
    BY <1>4 DEF TypeOK
  <2>5. TypeOK'
    BY <1>1, <1>2, <1>4, <2>2 DEF TypeOK, Goto
  <2>6. Kept
    BY <1>1, <2>3, <2>4, RowShape DEF Kept, RowKept, Stored, TypeOK, Cert
  <2>7. CallsHold'
    BY <1>1, <1>2, <2>5, <2>6, CallsStep
  <2>8. RowsHold'
    <3> USE DEF new, Draft
    <3>1. RowsAreConfirmed'
      BY <1>0, <1>1, <2>3, <2>4 DEF RowsHold, RowsAreConfirmed, Stored
    <3>2. LinksAreStored'
      <4>1. \A a \in CertIds : Stored(a) => cert[a] \in Cert
        BY RowShape DEF TypeOK, Stored
      <4>2. \A a \in CertIds : Stored(a) => Stored(a)'
        BY <2>3, <2>4 DEF Stored
      <4> QED BY <2>3, <2>4, <4>1, <4>2 DEF RowsHold, LinksAreStored, Stored, Cert
    <3>3. LinksAreMutual'
      <4>1. \A a \in CertIds : a # None
        BY ConstantsAssumption DEF Binding
      <4>2. \A a \in CertIds : Stored(a) => cert[a].supersedes # i /\ cert[a].supersededBy # i
        BY <2>3, <4>1 DEF RowsHold, LinksAreStored
      <4> QED BY <2>3, <2>4, <4>1, <4>2 DEF RowsHold, LinksAreMutual, Stored
    <3>4. SealsVerify'
      BY <1>1, <2>3, <2>4 DEF RowsHold, SealsVerify, Stored
    <3>5. AtMostOneLive'
      BY <1>4, <2>3, <2>4 DEF RowsHold, AtMostOneLive, Found, Stored, Live
    <3> QED BY <3>1, <3>2, <3>3, <3>4, <3>5 DEF RowsHold
  <2> QED BY <2>5, <2>6, <2>7, <2>8
<1> QED BY <1>3, <1>4 DEF GenerateInsert
\* One live row signed or revoked with a seal that verifies.
LEMMA OneRow ==
  ASSUME TypeOK, RowsHold, NEW i \in CertIds, NEW row \in Cert,
         Stored(i), cert[i].state # "revoked",
         cert' = [cert EXCEPT ![i] = row], UNCHANGED <<final, known>>,
         row.decision = cert[i].decision, row.supersedes = cert[i].supersedes,
         row.supersededBy = cert[i].supersededBy, row.deleted = cert[i].deleted,
         row.version = cert[i].version + 1, row.state \in {"signed", "revoked"},
         row.seal \in Seal, row.seal.outcome = "confirmed", row.seal.binding = row.binding,
         row.seal.key \in known
  PROVE  Kept /\ RowsHold'
<1>1. cert'[i] = row /\ \A j \in CertIds : j # i => cert'[j] = cert[j]
  BY DEF TypeOK
<1>2. cert[i] \in Cert /\ row.seal # None
  BY RowShape, ConstantsAssumption DEF TypeOK, Stored
<1>3. \A j \in CertIds : /\ Stored(j)' <=> Stored(j)
                         /\ Stored(j) => cert[j] \in Cert
  BY <1>1, RowShape DEF Stored, TypeOK
<1>4. ASSUME NEW j \in CertIds PROVE RowKept(j)
  <2>1. CASE j = i
    BY <1>1, <1>2, <1>3, <2>1 DEF RowKept, Cert
  <2>2. CASE j # i
    BY <1>1, <1>3, <2>2 DEF RowKept, Cert
  <2> QED BY <2>1, <2>2
<1>5. RowsAreConfirmed'
  BY <1>1, <1>3 DEF RowsHold, RowsAreConfirmed
<1>6. LinksAreStored'
  BY <1>1, <1>3 DEF RowsHold, LinksAreStored, Stored, Cert
<1>7. LinksAreMutual'
  BY <1>1, <1>3 DEF RowsHold, LinksAreMutual
<1>8. SealsVerify'
  <2>1. final'[row.decision] = "confirmed"
    BY DEF RowsHold, RowsAreConfirmed
  <2> QED BY <1>1, <1>2, <1>3, <2>1 DEF RowsHold, SealsVerify
<1>9. AtMostOneLive'
  BY <1>1, <1>3 DEF RowsHold, AtMostOneLive, Found
<1> QED BY <1>4, <1>5, <1>6, <1>7, <1>8, <1>9 DEF RowsHold, Kept

\* A draft signed with the seal its request holds.
LEMMA SignStep ==
  ASSUME IInv, NEW c \in Calls, SignCommit(c)
  PROVE  TypeOK' /\ Kept /\ RowsHold' /\ CallsHold'
<1> DEFINE i == call[c].id
           seal == call[c].seal
           row == Signed(cert[i], seal)
           told == [pc |-> "tell", event |-> <<"signed", i>>]
<1> USE DEF IInv
<1>0. call[c] \in Signing /\ call[c].pc = "sign" /\ CallHolds(call[c])
  BY CallShape DEF TypeOK, SignCommit, CallsHold
<1>1. i \in CertIds /\ seal \in Seal
  BY <1>0 DEF Signing
<1>2. Stored(i) /\ seal.outcome = "confirmed" /\ seal.key \in known
  BY <1>0 DEF CallHolds, Read
<1>3. cert[i] \in Cert /\ cert[i].state = "draft"
  BY <1>1, <1>2, RowShape DEF TypeOK, Stored, SignCommit, StillDraft
<1>4. /\ UNCHANGED <<final, decided, purged, key, known>>
      /\ Goto(c, told)
      /\ cert' = [cert EXCEPT ![i] = row]
  BY DEF SignCommit, Tell, world
<1> HIDE DEF i, seal, told
<1>5. /\ row \in Cert /\ row.state = "signed" /\ row.seal = seal /\ row.binding = seal.binding
      /\ row.version = cert[i].version + 1
      /\ row.deleted = cert[i].deleted /\ row.decision = cert[i].decision
      /\ row.supersedes = cert[i].supersedes /\ row.supersededBy = cert[i].supersededBy
  BY <1>1, <1>3, SignedRow
<1> HIDE DEF row
<1>6. Kept /\ RowsHold'
  BY <1>1, <1>2, <1>3, <1>4, <1>5, OneRow
<1>7. told \in CallStates
  BY <1>1 DEF CallStates, Telling, Event, told
<1>8. TypeOK'
  BY <1>1, <1>4, <1>5, <1>7 DEF TypeOK, Goto
<1>9. \E k \in CallStates : Goto(c, k) /\ CallHolds(k)'
  <2>1. cert'[i] = row /\ row # Absent /\ row.seal # None
    BY <1>1, <1>4, <1>5, RowShape, ConstantsAssumption DEF TypeOK
  <2>2. ASSUME NEW k, k = told PROVE CallHolds(k)'
    <3>1. k.pc = "tell" /\ k.event[1] = "signed" /\ k.event[2] = i
      BY <2>2 DEF told
    <3> QED BY <2>1, <3>1 DEF CallHolds, Happened, Stored
  <2> QED BY <1>4, <1>7, <2>2
<1> QED BY <1>6, <1>8, <1>9, CallsStep
\* A signed row that was claimed: no other row replaces it yet.
LEMMA ClaimedRow ==
  ASSUME IInv, NEW c \in Calls, call[c].pc \in {"replace", "revoke"}, StillSigned(c)
  PROVE  /\ call[c].id \in CertIds /\ Stored(call[c].id) /\ cert[call[c].id] \in Cert
         /\ cert[call[c].id].state = "signed" /\ cert[call[c].id].supersededBy = None
         /\ cert[call[c].id].seal \in Seal /\ cert[call[c].id].seal.outcome = "confirmed"
         /\ cert[call[c].id].seal.binding = cert[call[c].id].binding
         /\ cert[call[c].id].seal.key \in known
<1> DEFINE i == call[c].id
<1> USE DEF IInv
<1>1. call[c] \in Revoking /\ CallHolds(call[c])
  BY CallShape DEF TypeOK, CallsHold
<1>2. i \in CertIds /\ Stored(i)
  BY <1>1 DEF Revoking, CallHolds, Read
<1>3. cert[i] \in Cert /\ cert[i].state = "signed"
  BY <1>2, RowShape DEF TypeOK, Stored, StillSigned
<1> HIDE DEF i
<1>4. cert[i].supersededBy = None
  <2>1. cert[i].supersededBy \in CertIds \cup {None}
    BY <1>3 DEF Cert
  <2> QED BY <1>2, <1>3, <2>1 DEF RowsHold, LinksAreStored, LinksAreMutual
<1>5. /\ cert[i].seal \in Seal /\ cert[i].seal.outcome = "confirmed"
      /\ cert[i].seal.binding = cert[i].binding /\ cert[i].seal.key \in known
  <2>1. cert[i].seal \in Seal \cup {None}
    BY <1>3 DEF Cert
  <2> QED BY <1>2, <1>3, <2>1 DEF RowsHold, RowsAreConfirmed, SealsVerify
<1> QED BY <1>2, <1>3, <1>4, <1>5 DEF i

\* A signed row revoked.
LEMMA RevokeStep ==
  ASSUME IInv, NEW c \in Calls, RevokeCommit(c), StillSigned(c)
  PROVE  TypeOK' /\ Kept /\ RowsHold' /\ CallsHold'
<1> DEFINE i == call[c].id
           row == Revoked(cert[i], None)
           told == [pc |-> "tell", event |-> <<"revoked", i>>]
<1> USE DEF IInv
<1>1. /\ i \in CertIds /\ Stored(i) /\ cert[i] \in Cert
      /\ cert[i].state = "signed" /\ cert[i].supersededBy = None
      /\ cert[i].seal \in Seal /\ cert[i].seal.outcome = "confirmed"
      /\ cert[i].seal.binding = cert[i].binding /\ cert[i].seal.key \in known
  BY ClaimedRow DEF RevokeCommit
<1>2. /\ UNCHANGED <<final, decided, purged, key, known>>
      /\ Goto(c, told)
      /\ cert' = [cert EXCEPT ![i] = row]
  BY DEF RevokeCommit, Tell, world
<1> HIDE DEF i, told
<1>3. /\ row \in Cert /\ row.state = "revoked" /\ row.seal = cert[i].seal
      /\ row.binding = cert[i].binding /\ row.version = cert[i].version + 1
      /\ row.deleted = cert[i].deleted /\ row.decision = cert[i].decision
      /\ row.supersedes = cert[i].supersedes /\ row.supersededBy = None
  BY <1>1, RevokedRow
<1> HIDE DEF row
<1>4. Kept /\ RowsHold'
  BY <1>1, <1>2, <1>3, OneRow
<1>5. told \in CallStates
  BY <1>1 DEF CallStates, Telling, Event, told
<1>6. TypeOK'
  BY <1>1, <1>2, <1>3, <1>5 DEF TypeOK, Goto
<1>7. \E k \in CallStates : Goto(c, k) /\ CallHolds(k)'
  <2>1. cert'[i] = row /\ row # Absent /\ row.seal # None
    BY <1>1, <1>2, <1>3, RowShape, ConstantsAssumption DEF TypeOK
  <2>2. ASSUME NEW k, k = told PROVE CallHolds(k)'
    <3>1. k.pc = "tell" /\ k.event[2] = i
      BY <2>2 DEF told
    <3> QED BY <1>3, <2>1, <3>1 DEF CallHolds, Happened, Stored
  <2> QED BY <1>2, <1>5, <2>2
<1> QED BY <1>4, <1>6, <1>7, CallsStep

\* A signed row revoked and its replacement drafted.
LEMMA ReissueStep ==
  ASSUME IInv, NEW c \in Calls, NEW i \in CertIds, ReissueCommit(c, i),
         Found(call[c].id), StillSigned(c)
  PROVE  TypeOK' /\ Kept /\ RowsHold' /\ CallsHold'
<1> DEFINE o == call[c].id
           d == cert[o].decision
           row == Revoked(cert[o], i)
           new == Draft(d, i, o)
           told == [pc |-> "tell", event |-> <<"revoked", o>>]
<1> USE DEF IInv
<1>1. /\ o \in CertIds /\ Stored(o) /\ cert[o] \in Cert
      /\ cert[o].state = "signed" /\ cert[o].supersededBy = None
      /\ cert[o].seal \in Seal /\ cert[o].seal.outcome = "confirmed"
      /\ cert[o].seal.binding = cert[o].binding /\ cert[o].seal.key \in known
  BY ClaimedRow DEF ReissueCommit
<1>2. /\ UNCHANGED <<final, decided, purged, key, known>>
      /\ Goto(c, told)
      /\ cert' = [cert EXCEPT ![o] = row, ![i] = new]
  BY DEF ReissueCommit, Replaced, Tell, world
<1>3. ~Stored(i) /\ Found(o) /\ i # o
  BY <1>1 DEF ReissueCommit, Fresh
<1> HIDE DEF o, told
<1>4. /\ row \in Cert /\ row.state = "revoked" /\ row.seal = cert[o].seal
      /\ row.binding = cert[o].binding /\ row.version = cert[o].version + 1
      /\ row.deleted = cert[o].deleted /\ row.decision = d
      /\ row.supersedes = cert[o].supersedes /\ row.supersededBy = i
  BY <1>1, RevokedRow
<1> HIDE DEF row
<1>5. /\ new \in Cert /\ new.state = "draft" /\ ~new.deleted /\ new.decision = d
      /\ new.seal = None /\ new.supersedes = o /\ new.supersededBy = None
  <2>1. d \in Decisions
    BY <1>1 DEF Cert
  <2> HIDE DEF d
  <2>2. new \in Cert
    BY <1>1, <2>1, DraftType DEF Binding
  <2> QED BY <2>2 DEF Draft
<1> HIDE DEF new, d
<1>6. /\ cert'[o] = row /\ cert'[i] = new
      /\ \A j \in CertIds : j \notin {o, i} => cert'[j] = cert[j]
  BY <1>1, <1>2, <1>3 DEF TypeOK
<1>7. /\ Stored(i)'
      /\ \A j \in CertIds : Stored(j)' <=> Stored(j) \/ j = i
      /\ \A j \in CertIds : Stored(j) => cert[j] \in Cert
  BY <1>1, <1>4, <1>5, <1>6, RowShape DEF TypeOK, Stored
<1>8. Kept
  <2>1. ASSUME NEW j \in CertIds PROVE RowKept(j)
    <3>1. CASE j = o
      BY <1>1, <1>4, <1>6, <1>7, <3>1, ConstantsAssumption DEF RowKept, Cert, d
    <3>2. CASE j \notin {o, i}
      BY <1>6, <1>7, <3>2 DEF RowKept, Cert
    <3> QED BY <1>3, <3>1, <3>2 DEF RowKept
  <2> QED BY <1>2, <2>1 DEF Kept
<1>9. TypeOK' /\ CallsHold'
  <2>1. told \in CallStates
    BY <1>1 DEF CallStates, Telling, Event, told
  <2>2. TypeOK'
    BY <1>1, <1>2, <1>4, <1>5, <2>1 DEF TypeOK, Goto
  <2>3. row # Absent /\ row.seal # None
    BY <1>1, <1>4, RowShape, ConstantsAssumption
  <2>4. ASSUME NEW k, k = told PROVE CallHolds(k)'
    <3>1. k.pc = "tell" /\ k.event[2] = o
      BY <2>4 DEF told
    <3> QED BY <1>4, <1>6, <2>3, <3>1 DEF CallHolds, Happened, Stored
  <2> QED BY <1>2, <1>8, <2>1, <2>2, <2>4, CallsStep
<1>10. RowsAreConfirmed'
  <2>1. final[d] = "confirmed"
    BY <1>1 DEF RowsHold, RowsAreConfirmed, d
  <2>2. \A j \in CertIds \ {o, i} : Stored(j)' => final'[cert'[j].decision] = "confirmed"
    BY <1>2, <1>6, <1>7 DEF RowsHold, RowsAreConfirmed
  <2>3. final'[cert'[o].decision] = "confirmed" /\ final'[cert'[i].decision] = "confirmed"
    BY <1>2, <1>4, <1>5, <1>6, <2>1
  <2> QED BY <2>2, <2>3 DEF RowsAreConfirmed
<1>11. \A j \in CertIds : j # None
  BY ConstantsAssumption DEF Binding
<1>12. \A j \in CertIds : Stored(j) => /\ cert[j].supersedes # i /\ cert[j].supersededBy # i
                                      /\ cert[j].supersedes # o
                                      /\ cert[j].supersedes \in CertIds \cup {None}
                                      /\ cert[j].supersededBy \in CertIds \cup {None}
  <2>1. \A j \in CertIds : Stored(j) => /\ cert[j].supersedes \in CertIds \cup {None}
                                       /\ cert[j].supersededBy \in CertIds \cup {None}
    BY <1>7 DEF Cert
  <2>2. \A j \in CertIds : Stored(j) => cert[j].supersedes # i /\ cert[j].supersededBy # i
    BY <1>3, <1>11 DEF RowsHold, LinksAreStored
  <2>3. ASSUME NEW j \in CertIds, Stored(j) PROVE cert[j].supersedes # o
    <3>1. cert[o].supersededBy = j <=> cert[j].supersedes = o
      BY <1>1, <2>3 DEF RowsHold, LinksAreMutual
    <3> QED BY <1>1, <1>11, <3>1
  <2> QED BY <2>1, <2>2, <2>3
<1>13. LinksAreStored'
  <2>1. \A j \in CertIds : Stored(j) => Stored(j)'
    BY <1>7
  <2> QED BY <1>1, <1>4, <1>5, <1>6, <1>7, <1>12, <2>1 DEF RowsHold, LinksAreStored
<1>14. LinksAreMutual'
  <2> SUFFICES ASSUME NEW a \in CertIds, NEW b \in CertIds, Stored(a)', Stored(b)'
               PROVE  /\ cert'[a].supersededBy = b <=> cert'[b].supersedes = a
                      /\ cert'[a].supersededBy = b =>
                           cert'[a].decision = cert'[b].decision /\ cert'[a].state = "revoked"
    BY DEF LinksAreMutual
  <2>1. CASE a = o
    BY <1>1, <1>3, <1>4, <1>5, <1>6, <1>7, <1>11, <1>12, <2>1
  <2>2. CASE a = i
    BY <1>1, <1>3, <1>4, <1>5, <1>6, <1>7, <1>11, <1>12, <2>2
  <2>3. CASE a \notin {o, i} /\ b \in {o, i}
    <3>1. Stored(a) /\ cert'[a] = cert[a]
      BY <1>6, <1>7, <2>3
    <3>2. CASE b = o
      <4>1. cert[a].supersededBy = o <=> cert[o].supersedes = a
        BY <1>1, <3>1 DEF RowsHold, LinksAreMutual
      <4>2. cert[a].supersededBy = o => cert[a].decision = cert[o].decision /\ cert[a].state = "revoked"
        BY <1>1, <3>1 DEF RowsHold, LinksAreMutual
      <4> QED BY <1>4, <1>6, <3>1, <3>2, <4>1, <4>2 DEF d
    <3>3. CASE b = i
      BY <1>5, <1>6, <1>12, <2>3, <3>1, <3>3
    <3> QED BY <2>3, <3>2, <3>3
  <2>4. CASE a \notin {o, i} /\ b \notin {o, i}
    BY <1>6, <1>7, <2>4 DEF RowsHold, LinksAreMutual
  <2> QED BY <2>1, <2>2, <2>3, <2>4
<1>15. SealsVerify'
  <2> SUFFICES ASSUME NEW j \in CertIds, Stored(j)', cert'[j].state # "draft"
               PROVE  LET s == cert'[j].seal
                      IN /\ s # None /\ s.outcome = final'[cert'[j].decision]
                         /\ s.binding = cert'[j].binding /\ s.key \in known'
    BY DEF SealsVerify
  <2>1. CASE j = o
    <3>1. final[d] = "confirmed" /\ cert[o].seal # None
      BY <1>1, ConstantsAssumption DEF RowsHold, RowsAreConfirmed, d
    <3> QED BY <1>1, <1>2, <1>4, <1>6, <2>1, <3>1
  <2>2. CASE j \notin {o, i}
    <3>1. Stored(j) /\ cert'[j] = cert[j]
      BY <1>6, <1>7, <2>2
    <3> QED BY <1>2, <3>1 DEF RowsHold, SealsVerify
  <2> QED BY <1>5, <1>6, <2>1, <2>2
<1>16. AtMostOneLive'
  BY <1>1, <1>3, <1>4, <1>5, <1>6, <1>7 DEF RowsHold, AtMostOneLive, Found, d
<1> QED BY <1>8, <1>9, <1>10, <1>13, <1>14, <1>15, <1>16 DEF RowsHold
\* The case purged with all its certificates.
LEMMA PurgeStep ==
  ASSUME IInv, PurgeCase
  PROVE  TypeOK' /\ Kept /\ RowsHold' /\ CallsHold'
<1> USE DEF IInv
<1>1. UNCHANGED <<final, decided, key, known, call>> /\ purged' = TRUE
  BY DEF PurgeCase
<1>2. ASSUME NEW i \in CertIds, Stored(i)
      PROVE  /\ cert'[i] \in Cert /\ cert[i] \in Cert
             /\ cert'[i].deleted /\ cert'[i].version = cert[i].version + 1
             /\ cert'[i].state = cert[i].state /\ cert'[i].decision = cert[i].decision
             /\ cert'[i].seal = cert[i].seal /\ cert'[i].binding = cert[i].binding
             /\ cert'[i].supersedes = cert[i].supersedes
             /\ cert'[i].supersededBy = cert[i].supersededBy
  <2>1. cert[i] \in Cert /\ cert'[i] = Tombstoned(i)
    BY <1>2, RowShape DEF TypeOK, Stored, PurgeCase
  <2> DEFINE a == [cert[i] EXCEPT !.deleted = TRUE]
             b == [a EXCEPT !.version = cert[i].version + 1]
  <2>2. a \in Cert
    BY <2>1 DEF Cert
  <2>3. Tombstoned(i) = b
    BY <2>1 DEF Tombstoned, Cert
  <2> HIDE DEF a
  <2>4. b \in Cert
    BY <2>1, <2>2 DEF Cert
  <2> QED BY <2>1, <2>3, <2>4 DEF Tombstoned, Cert
<1>3. \A i \in CertIds : /\ Stored(i)' <=> Stored(i)
                         /\ ~Stored(i) => cert'[i] = Absent
  BY <1>2, RowShape DEF Stored, PurgeCase
<1>4. TypeOK'
  <2>1. cert' \in [CertIds -> Cert \cup {Absent}]
    BY <1>2, <1>3 DEF PurgeCase, TypeOK
  <2> QED BY <1>1, <2>1 DEF TypeOK
<1>5. Kept
  BY <1>1, <1>2, <1>3 DEF Kept, RowKept, Cert
<1>6. RowsAreConfirmed' /\ SealsVerify'
  BY <1>1, <1>2, <1>3 DEF RowsHold, RowsAreConfirmed, SealsVerify
<1>7. LinksAreStored'
  BY <1>2, <1>3 DEF RowsHold, LinksAreStored, Cert
<1>8. LinksAreMutual'
  BY <1>2, <1>3 DEF RowsHold, LinksAreMutual
<1>9. AtMostOneLive'
  BY <1>2, <1>3 DEF AtMostOneLive, Found
<1> QED BY <1>1, <1>4, <1>5, <1>6, <1>7, <1>8, <1>9, CallsStep DEF RowsHold

\* Every other step of a request leaves the rows alone.
OnlyCalls(c) ==
  UNCHANGED <<cert, final, decided, purged, key>> /\ known \subseteq known'

LEMMA CallStep ==
  ASSUME IInv, NEW c \in Calls, NEW k \in CallStates, OnlyCalls(c), known' \subseteq Keys,
         Goto(c, k), CallHolds(k) \/ CallHolds(k)'
  PROVE  TypeOK' /\ Kept /\ RowsHold' /\ CallsHold'
<1>1. TypeOK'
  BY DEF IInv, TypeOK, OnlyCalls, Goto
<1>2. Kept
  BY KeptUntouched DEF IInv, OnlyCalls
<1> QED BY <1>1, <1>2, CallsStep, RowsUntouched DEF IInv, OnlyCalls

LEMMA RequestStep ==
  ASSUME IInv, NEW c \in Calls,
         \/ \E d \in Decisions : GenerateCheck(c, d)
         \/ \E i \in CertIds : SignRead(c, i) \/ ReissueRead(c, i) \/ RevokeRead(c, i)
         \/ SealWithKey(c) \/ RecordKey(c) \/ SignConflict(c) \/ Announce(c) \/ Abort(c)
  PROVE  TypeOK' /\ Kept /\ RowsHold' /\ CallsHold'
<1> USE DEF IInv
<1>0. \A i \in CertIds : Stored(i) => cert[i] \in Cert
  BY RowShape DEF TypeOK, Stored
<1>1. ASSUME NEW d \in Decisions, GenerateCheck(c, d)
      PROVE  TypeOK' /\ Kept /\ RowsHold' /\ CallsHold'
  <2> DEFINE k == [pc |-> "insert", decision |-> d]
  <2>1. k \in CallStates
    BY DEF CallStates, Inserting
  <2>2. CallHolds(k)
    BY <1>1 DEF CallHolds, GenerateCheck, Eligible
  <2>3. OnlyCalls(c) /\ known' \subseteq Keys /\ Goto(c, k)
    BY <1>1 DEF GenerateCheck, OnlyCalls, world, TypeOK
  <2> QED BY <2>1, <2>2, <2>3, CallStep
<1>2. ASSUME NEW i \in CertIds, SignRead(c, i)
      PROVE  TypeOK' /\ Kept /\ RowsHold' /\ CallsHold'
  <2> DEFINE k == [pc |-> "seal", id |-> i, version |-> cert[i].version,
                   outcome |-> final[cert[i].decision], binding |-> BindingForSign(c, i)]
  <2>1. Stored(i) /\ ~cert[i].deleted /\ cert[i] \in Cert /\ cert[i].version \in Nat
    BY <1>0, <1>2 DEF SignRead, Found, Cert
  <2>2. BindingForSign(c, i) \in Binding
    <3>1. cert[i].binding \in Binding \cup {None}
      BY <2>1 DEF Cert
    <3> QED BY <3>1 DEF BindingForSign, Binding
  <2>3. final[cert[i].decision] = "confirmed"
    BY <2>1 DEF RowsHold, RowsAreConfirmed
  <2>4. k \in CallStates
    BY <2>1, <2>2, <2>3 DEF CallStates, Sealing
  <2>5. CallHolds(k)
    BY <2>1, <2>3 DEF CallHolds, Read
  <2>6. OnlyCalls(c) /\ known' \subseteq Keys /\ Goto(c, k)
    BY <1>2 DEF SignRead, OnlyCalls, world, TypeOK
  <2> QED BY <2>4, <2>5, <2>6, CallStep
<1>3. ASSUME NEW i \in CertIds, ReissueRead(c, i) \/ RevokeRead(c, i)
      PROVE  TypeOK' /\ Kept /\ RowsHold' /\ CallsHold'
  <2>1. Stored(i) /\ ~cert[i].deleted /\ cert[i].version \in Nat
    BY <1>0, <1>3 DEF ReissueRead, RevokeRead, Found, Cert
  <2>2. OnlyCalls(c) /\ known' \subseteq Keys
    BY <1>3 DEF ReissueRead, RevokeRead, OnlyCalls, world, TypeOK
  <2>3. PICK pc \in {"replace", "revoke"} : Goto(c, [pc |-> pc, id |-> i, version |-> cert[i].version])
    BY <1>3 DEF ReissueRead, RevokeRead
  <2> DEFINE k == [pc |-> pc, id |-> i, version |-> cert[i].version]
  <2>4. k \in CallStates
    BY <2>1 DEF CallStates, Revoking
  <2>5. CallHolds(k)
    BY <2>1 DEF CallHolds, Read
  <2> QED BY <2>2, <2>3, <2>4, <2>5, CallStep
<1>4. CASE SealWithKey(c)
  <2>1. call[c] \in Sealing /\ CallHolds(call[c]) /\ call[c].pc = "seal"
    BY <1>4, CallShape DEF TypeOK, SealWithKey, CallsHold
  <2> DEFINE k == [pc |-> "record", id |-> call[c].id, version |-> call[c].version,
                   seal |-> [outcome |-> call[c].outcome, binding |-> call[c].binding, key |-> key]]
  <2>2. k \in CallStates
    BY <2>1 DEF CallStates, Sealing, Signing, Seal, TypeOK
  <2>3. CallHolds(k)
    BY <2>1 DEF CallHolds, Read
  <2>4. OnlyCalls(c) /\ known' \subseteq Keys /\ Goto(c, k)
    BY <1>4 DEF SealWithKey, OnlyCalls, world, TypeOK
  <2> QED BY <2>2, <2>3, <2>4, CallStep
<1>5. CASE RecordKey(c)
  <2>1. call[c] \in Signing /\ CallHolds(call[c]) /\ call[c].pc = "record"
    BY <1>5, CallShape DEF TypeOK, RecordKey, CallsHold
  <2>2. PICK k : k = [call[c] EXCEPT !.pc = "sign"]
    OBVIOUS
  <2>3. /\ k \in Signing /\ k.pc = "sign"
        /\ k.id = call[c].id /\ k.version = call[c].version /\ k.seal = call[c].seal
    BY <2>1, <2>2 DEF Signing
  <2>4. call[c].seal.key \in Keys
    BY <2>1 DEF Signing, Seal
  <2>5. OnlyCalls(c) /\ known' = known \cup {k.seal.key} /\ known' \subseteq Keys /\ Goto(c, k)
    BY <1>5, <2>2, <2>3, <2>4 DEF RecordKey, RecordedWith, OnlyCalls, world, TypeOK
  <2>6. CallHolds(k)'
    BY <2>1, <2>3, <2>5 DEF CallHolds, Read, Stored, OnlyCalls
  <2> QED BY <2>3, <2>5, <2>6, CallStep DEF CallStates
<1>6. CASE SignConflict(c) \/ Announce(c) \/ Abort(c)
  <2>1. Idle \in CallStates /\ CallHolds(Idle)
    BY DEF CallStates, CallHolds, Idle
  <2>2. OnlyCalls(c) /\ known' \subseteq Keys /\ Goto(c, Idle)
    BY <1>6 DEF SignConflict, Announce, Abort, OnlyCalls, world, TypeOK
  <2> QED BY <2>1, <2>2, CallStep
<1> QED BY <1>1, <1>2, <1>3, <1>4, <1>5, <1>6

\* A request that lost its race ends and changes nothing.
LEMMA EndStep ==
  ASSUME IInv, NEW c \in Calls, cert' = cert, Goto(c, Idle), UNCHANGED <<known, world>>
  PROVE  TypeOK' /\ Kept /\ RowsHold' /\ CallsHold'
<1>1. Idle \in CallStates /\ CallHolds(Idle)
  BY DEF CallStates, CallHolds, Idle
<1> QED BY <1>1, CallStep DEF OnlyCalls, world, IInv, TypeOK

\* What happens around the requests leaves the rows and the requests alone.
LEMMA WorldStep ==
  ASSUME IInv,
         \/ \E d \in Decisions, outcome \in {"confirmed", "declined"} : FinaliseDecision(d, outcome)
         \/ Reopen \/ \E k \in Keys : ReplaceKey(k)
         \/ UNCHANGED vars
  PROVE  TypeOK' /\ Kept /\ RowsHold' /\ CallsHold'
<1> USE DEF IInv
<1>1. UNCHANGED <<cert, known, call>>
  BY DEF FinaliseDecision, Reopen, ReplaceKey, vars
<1>2. TypeOK'
  BY <1>1 DEF TypeOK, FinaliseDecision, Reopen, ReplaceKey, vars
<1>3. \A d \in Decisions : final[d] # None => final'[d] = final[d]
  BY DEF TypeOK, FinaliseDecision, Reopen, ReplaceKey, vars
<1>4. Kept
  BY <1>1, <1>3, KeptUntouched
<1> QED BY <1>1, <1>2, <1>4, CallsStep, RowsUntouched
-----------------------------------------------------------------------------
\* Initially there is at most one certificate, a draft of a confirmed decision.
LEMMA InitHolds == Init => IInv
<1> SUFFICES ASSUME Init PROVE IInv
  OBVIOUS
<1>1. Idle \in CallStates /\ CallHolds(Idle)
  BY DEF CallStates, CallHolds, Idle
<1>2. CASE cert = [i \in CertIds |-> Absent]
  <2>1. TypeOK
    BY <1>1, <1>2 DEF Init, TypeOK
  <2>2. \A i \in CertIds : ~Stored(i)
    BY <1>2 DEF Stored
  <2>3. RowsHold
    BY <2>2 DEF RowsHold, RowsAreConfirmed, LinksAreStored, LinksAreMutual, SealsVerify,
                AtMostOneLive, Found
  <2> QED BY <1>1, <2>1, <2>3 DEF IInv, CallsHold, Init
<1>3. ASSUME NEW d \in Decisions, final[d] = "confirmed",
             cert = [i \in CertIds |-> IF i = 1 THEN Draft(d, None, None) ELSE Absent]
      PROVE  IInv
  <2> DEFINE new == Draft(d, None, None)
  <2>1. new \in Cert
    BY DraftType DEF Binding
  <2>2. /\ new.state = "draft" /\ ~new.deleted /\ new.decision = d
        /\ new.supersedes = None /\ new.supersededBy = None
    BY DEF Draft
  <2> HIDE DEF new
  <2>3. TypeOK
    BY <1>1, <1>3, <2>1 DEF Init, TypeOK, new
  <2>4. \A i \in CertIds : Stored(i) => i = 1 /\ cert[i] = new
    BY <1>3 DEF Stored, new
  <2>5. \A i \in CertIds : i # None
    BY ConstantsAssumption DEF Binding
  <2>6. RowsAreConfirmed /\ SealsVerify /\ AtMostOneLive
    BY <1>3, <2>2, <2>4 DEF RowsAreConfirmed, SealsVerify, AtMostOneLive, Found
  <2>7. LinksAreStored /\ LinksAreMutual
    BY <2>2, <2>4, <2>5 DEF LinksAreStored, LinksAreMutual
  <2> QED BY <1>1, <2>3, <2>6, <2>7 DEF IInv, RowsHold, CallsHold, Init
<1> QED BY <1>2, <1>3 DEF Init

\* Every step keeps the rows, the requests and what was decided.
LEMMA Step == IInv /\ [Next]_vars => IInv' /\ Kept
<1> SUFFICES ASSUME IInv, [Next]_vars PROVE TypeOK' /\ Kept /\ RowsHold' /\ CallsHold'
  BY DEF IInv
<1>1. ASSUME NEW c \in Calls, NEW i \in CertIds, ReissueCommit(c, i)
      PROVE  TypeOK' /\ Kept /\ RowsHold' /\ CallsHold'
  <2>1. CASE Found(call[c].id) /\ StillSigned(c)
    BY <1>1, <2>1, ReissueStep
  <2>2. CASE ~(Found(call[c].id) /\ StillSigned(c))
    BY <1>1, <2>2, EndStep DEF ReissueCommit
  <2> QED BY <2>1, <2>2
<1>2. ASSUME NEW c \in Calls, RevokeCommit(c)
      PROVE  TypeOK' /\ Kept /\ RowsHold' /\ CallsHold'
  BY <1>2, RevokeStep, EndStep DEF RevokeCommit, AfterConflict
<1> QED BY <1>1, <1>2, InsertStep, SignStep, PurgeStep, RequestStep, WorldStep DEF Next
\* The inductive invariant.
LEMMA Invariance == Spec => []IInv
<1> QED BY InitHolds, Step, PTL DEF Spec

\* Type correctness of certificates and of the requests at work on them.
THEOREM TypeCorrect == Spec => []TypeOK
BY Invariance, PTL DEF IInv

\* Every certificate that was signed, revoked since or not, passes the check of
\* its seal, whichever keys, requests and races produced it.
THEOREM SealsAlwaysVerify == Spec => []SealsVerify
BY Invariance, PTL DEF IInv, RowsHold

\* The links between certificates and what integrators are told agree with the
\* rows, whoever lost a race.
THEOREM RowsAndEventsAgree == Spec => []CertificatesAgree
<1>1. IInv => CertificatesAgree
  <2> SUFFICES ASSUME IInv PROVE TellsTheTruth
    BY DEF IInv, RowsHold, CertificatesAgree
  <2> QED BY DEF IInv, CallsHold, CallHolds, Happened, TellsTheTruth
<1> QED BY <1>1, Invariance, PTL

\* A set whose elements are all the same has at most one.
LEMMA AtMostOneElement ==
  ASSUME NEW S, \A x, y \in S : x = y
  PROVE  Cardinality(S) <= 1
<1>1. CASE S = {}
  BY <1>1, FS_EmptySet
<1>2. ASSUME NEW x \in S PROVE Cardinality(S) <= 1
  <2>1. S = {x}
    OBVIOUS
  <2> QED BY <2>1, FS_Singleton
<1> QED BY <1>1, <1>2

\* A certificate revoked or purged is not touched again: the requests that
\* read it before carry a version, or expect a state, that it has left behind.
LEMMA RevokedStep ==
  ASSUME IInv, [Next]_vars, NEW i \in CertIds, Stored(i),
         cert[i].state = "revoked" \/ cert[i].deleted
  PROVE  /\ cert'[i].state = cert[i].state
         /\ cert'[i].supersededBy = cert[i].supersededBy
         /\ cert'[i].deleted \/ ~cert[i].deleted
<1>0. /\ cert \in [CertIds -> Cert \cup {Absent}] /\ cert[i] \in Cert
      /\ \A c \in Calls : CallHolds(call[c])
  BY RowShape DEF IInv, TypeOK, CallsHold, Stored
<1>1. ASSUME NEW c \in Calls, call[c].pc \in {"sign", "replace", "revoke"}, call[c].id = i,
             StillDraft(c) \/ StillSigned(c)
      PROVE  ~cert[i].deleted /\ (StillSigned(c) => cert[i].state = "signed")
                              /\ (StillDraft(c) => cert[i].state = "draft")
  BY <1>0, <1>1 DEF CallHolds, Read, StillDraft, StillSigned, Unchanged, Cert
<1>2. CASE UNCHANGED cert
  BY <1>2
<1>3. ASSUME NEW c \in Calls, NEW j \in CertIds, GenerateInsert(c, j)
      PROVE  cert'[i] = cert[i]
  BY <1>0, <1>3 DEF GenerateInsert, Fresh
<1>4. ASSUME NEW c \in Calls, SignCommit(c)
      PROVE  cert'[i] = cert[i]
  BY <1>0, <1>1, <1>4 DEF SignCommit
<1>5. ASSUME NEW c \in Calls, NEW j \in CertIds, ReissueCommit(c, j)
      PROVE  cert'[i] = cert[i]
  BY <1>0, <1>1, <1>5 DEF ReissueCommit, Replaced, Fresh
<1>6. ASSUME NEW c \in Calls, RevokeCommit(c)
      PROVE  cert'[i] = cert[i]
  BY <1>0, <1>1, <1>6 DEF RevokeCommit
<1>7. CASE PurgeCase
  <2>1. cert'[i] = Tombstoned(i)
    BY <1>7 DEF PurgeCase
  <2> QED BY <1>0, <2>1 DEF Tombstoned, Cert
<1> QED BY <1>2, <1>3, <1>4, <1>5, <1>6, <1>7
        DEF Next, vars, GenerateCheck, SignRead, ReissueRead, RevokeRead, SealWithKey, RecordKey,
            SignConflict, Announce, Abort, FinaliseDecision, Reopen, ReplaceKey
\* A decision loses its live certificate only to a purge or a revocation: what
\* is signed stays live, and what a re-issue revokes it replaces.
LEMMA KeptStep ==
  ASSUME IInv, IInv', [Next]_vars, NEW d \in Decisions, Live(d) # {}, Live(d)' = {}
  PROVE  purged' # purged \/ \E c \in Calls : call[c].pc = "revoke" /\ call'[c].pc = "tell"
<1>0. PICK i \in CertIds : Found(i) /\ cert[i].decision = d /\ cert[i].state # "revoked"
  BY DEF Live
<1>1. cert \in [CertIds -> Cert \cup {Absent}] /\ cert[i] \in Cert /\ Stored(i)
  BY <1>0, RowShape DEF IInv, TypeOK, Found, Stored
<1>2. \A j \in CertIds : ~(/\ Stored(j)' /\ ~cert'[j].deleted
                           /\ cert'[j].decision = d /\ cert'[j].state # "revoked")
  BY DEF Live, Found
<1>3. cert'[i] # cert[i]
  BY <1>0, <1>2 DEF Found, Stored
<1>4. ASSUME NEW c \in Calls, NEW j \in CertIds, GenerateInsert(c, j)
      PROVE  FALSE
  BY <1>1, <1>3, <1>4 DEF GenerateInsert, Fresh
<1>5. ASSUME NEW c \in Calls, SignCommit(c)
      PROVE  FALSE
  <2>1. call[c].id = i /\ call[c] \in Signing
    BY <1>1, <1>3, <1>5, CallShape DEF SignCommit, IInv, TypeOK
  <2>2. cert'[i] = Signed(cert[i], call[c].seal) /\ call[c].seal \in Seal
    BY <1>1, <1>5, <2>1 DEF SignCommit, Signing
  <2> QED BY <1>0, <1>1, <1>2, <2>2, SignedRow, RowShape DEF Found, Stored
<1>6. ASSUME NEW c \in Calls, NEW j \in CertIds, ReissueCommit(c, j)
      PROVE  FALSE
  <2>1. j # i /\ call[c].id = i /\ cert' = Replaced(c, j)
    BY <1>1, <1>3, <1>6 DEF ReissueCommit, Replaced, Fresh
  <2>2. cert'[j] = Draft(d, j, i)
    BY <1>0, <1>1, <2>1 DEF Replaced
  <2>3. cert'[j] \in Cert
    BY <2>2, DraftType DEF Binding
  <2>4. Stored(j)'
    BY <2>3, RowShape DEF Stored
  <2> QED BY <1>2, <2>2, <2>4 DEF Draft
<1>7. ASSUME NEW c \in Calls, RevokeCommit(c)
      PROVE  call[c].pc = "revoke" /\ call'[c].pc = "tell"
  BY <1>3, <1>7 DEF RevokeCommit, Tell, Goto, IInv, TypeOK
<1>8. CASE PurgeCase
  BY <1>8 DEF PurgeCase, IInv, TypeOK
<1>9. CASE UNCHANGED cert
  BY <1>3, <1>9
<1> QED BY <1>4, <1>5, <1>6, <1>7, <1>8, <1>9
        DEF Next, vars, GenerateCheck, SignRead, ReissueRead, RevokeRead, SealWithKey, RecordKey,
            SignConflict, Announce, Abort, FinaliseDecision, Reopen, ReplaceKey

\* No race gives a decision a second live certificate, revives an old one, or
\* leaves a decision without the one it had.
THEOREM OneCertificateAlways == Spec => OneCertificate
<1>1. IInv /\ [Next]_vars =>
        [\A i \in CertIds : Stored(i) /\ (cert[i].state = "revoked" \/ cert[i].deleted)
           => /\ cert'[i].state = cert[i].state
              /\ cert'[i].supersededBy = cert[i].supersededBy
              /\ cert'[i].deleted \/ ~cert[i].deleted]_vars
  BY RevokedStep
<1>2. IInv /\ IInv' /\ [Next]_vars =>
        [\A d \in Decisions :
           /\ Cardinality(Live(d)') <= 1
           /\ Live(d) # {} /\ Live(d)' = {} =>
                purged' # purged \/ \E c \in Calls : call[c].pc = "revoke" /\ call'[c].pc = "tell"]_vars
  <2> SUFFICES ASSUME IInv, IInv', [Next]_vars, NEW d \in Decisions
               PROVE  /\ Cardinality(Live(d)') <= 1
                      /\ Live(d) # {} /\ Live(d)' = {} =>
                           purged' # purged \/ \E c \in Calls : call[c].pc = "revoke" /\ call'[c].pc = "tell"
    OBVIOUS
  <2>1. \A i, j \in Live(d)' : i = j
    BY DEF IInv, RowsHold, AtMostOneLive, Live
  <2> QED BY <2>1, AtMostOneElement, KeptStep
<1> QED BY <1>1, <1>2, Invariance, PTL DEF Spec, OneCertificate, RevokedStays, CertificateKept

-----------------------------------------------------------------------------
(* The committee's meetings.  A decision that is about to be finalised     *)
(* keeps the meeting it has, since it gets one only when it is proposed    *)
(* or finalised; and while requests come one at a time nothing is put on   *)
(* an agenda between the search for the meeting and the write.             *)

Tied(r) ==
  r.pc = "finalise" =>
    /\ proposal[r.d].status # "none"
    /\ proposal[r.d].status = "proposed" => proposal[r.d].meeting \in {None, r.link}
    /\ ~overlapped /\ r.link = None => Sit!Open = {}

SittingHolds ==
  /\ Sit!TypeOK /\ Sit!NoteOpens /\ overlapped \in BOOLEAN
  /\ \A d \in Proposals : proposal[d].status = "none" => proposal[d].meeting = None
  /\ \A c \in Calls : Tied(request[c])
  /\ Overlap => overlapped

SittingNext == Sit!Next /\ overlapped' = (overlapped \/ Overlap')

\* What a program counter says about the rest of a request.
LEMMA RequestShape ==
  ASSUME Sit!TypeOK, NEW c \in Calls
  PROVE  /\ request[c] = Sit!Idle \/ request[c].pc # "idle"
         /\ request[c].pc \in {"list", "schedule", "attend"} => request[c].m \in Meetings
         /\ request[c].pc = "attend" => request[c].u \in Papers
         /\ request[c].pc \in {"propose", "finalise"} =>
              request[c].d \in Proposals /\ request[c].link \in Sit!Links
<1> DEFINE r == request[c]
<1>1. r \in {Sit!Idle}
         \cup [pc : {"list", "schedule"}, m : Meetings]
         \cup [pc : {"propose", "finalise"}, d : Proposals, link : Sit!Links]
         \cup [pc : {"attend"}, m : Meetings, u : Papers]
  BY DEF Sit!TypeOK
<1> HIDE DEF r
<1>2. CASE r = Sit!Idle
  BY <1>2 DEF Sit!Idle, r
<1>3. CASE r \in [pc : {"list", "schedule"}, m : Meetings]
  BY <1>3 DEF r
<1>4. CASE r \in [pc : {"propose", "finalise"}, d : Proposals, link : Sit!Links]
  BY <1>4 DEF r
<1>5. CASE r \in [pc : {"attend"}, m : Meetings, u : Papers]
  BY <1>5 DEF r
<1> QED BY <1>1, <1>2, <1>3, <1>4, <1>5

LEMMA SittingTypes == Sit!TypeOK /\ Sit!Next => Sit!TypeOK'
<1> SUFFICES ASSUME Sit!TypeOK, Sit!Next
             PROVE  Sit!TypeOK'
  OBVIOUS
<1> USE DEF Sit!TypeOK
<1>1. ASSUME NEW m \in Meetings, Sit!CreateMeeting(m) \/ Sit!CancelMeeting(m) \/ Sit!RemoveItem(m)
      PROVE  Sit!TypeOK'
  BY <1>1 DEF Sit!CreateMeeting, Sit!CancelMeeting, Sit!RemoveItem
<1>2. ASSUME NEW to \in {"early", "ready", "committee", "decided"}, Sit!CaseMoves(to)
      PROVE  Sit!TypeOK'
  BY <1>2 DEF Sit!CaseMoves
<1>3. ASSUME NEW c \in Calls, NEW m \in Meetings, Sit!FindItem(c, m)
      PROVE  Sit!TypeOK'
  BY <1>3 DEF Sit!FindItem, Sit!Asks
<1>4. ASSUME NEW c \in Calls, Sit!InsertItem(c)
      PROVE  Sit!TypeOK'
  <2>1. request[c].m \in Meetings /\ request[c] \in [pc : {"list", "schedule"}, m : Meetings]
    BY <1>4, RequestShape DEF Sit!InsertItem, Sit!Idle
  <2>2. [request[c] EXCEPT !.pc = "schedule"] \in [pc : {"list", "schedule"}, m : Meetings]
    BY <2>1
  <2>3. request' \in {[request EXCEPT ![c] = Sit!Idle],
                      [request EXCEPT ![c] = [request[c] EXCEPT !.pc = "schedule"]]}
    BY <1>4 DEF Sit!InsertItem, Sit!Ends
  <2> QED BY <1>4, <2>1, <2>2, <2>3 DEF Sit!InsertItem
<1>5. ASSUME NEW c \in Calls, Sit!ScheduleCommittee(c) \/ Sit!RequestLost(c)
      PROVE  Sit!TypeOK'
  BY <1>5 DEF Sit!ScheduleCommittee, Sit!RequestLost, Sit!Ends
<1>6. ASSUME NEW c \in Calls, Sit!Propose(c) \/ Sit!FinaliseCommit(c)
      PROVE  Sit!TypeOK'
  <2>1. request[c].d \in Proposals /\ request[c].link \in Sit!Links
    BY <1>6, RequestShape DEF Sit!Propose, Sit!FinaliseCommit
  <2>2. request' \in [Calls -> {Sit!Idle}
             \cup [pc : {"list", "schedule"}, m : Meetings]
             \cup [pc : {"propose", "finalise"}, d : Proposals, link : Sit!Links]
             \cup [pc : {"attend"}, m : Meetings, u : Papers]]
    BY <1>6 DEF Sit!Propose, Sit!FinaliseCommit, Sit!Ends
  <2> DEFINE Rows == [Proposals -> [status : {"none", "proposed", "finalised"}, meeting : Sit!Links]]
  <2>3. ASSUME NEW status \in {"proposed", "finalised"}
        PROVE  [proposal EXCEPT ![request[c].d] =
                  [status |-> status, meeting |-> request[c].link]] \in Rows
    BY <2>1
  <2>4. CASE Sit!Propose(c)
    BY <2>2, <2>3, <2>4 DEF Sit!Propose
  <2>5. CASE Sit!FinaliseCommit(c)
    BY <2>2, <2>3, <2>5 DEF Sit!FinaliseCommit
  <2> QED BY <1>6, <2>4, <2>5
<1>7. ASSUME NEW c \in Calls, NEW d \in Proposals, NEW l \in Sit!Links,
             Sit!ProposeCheck(c, d, l) \/ Sit!FinaliseCheck(c, d, l)
      PROVE  Sit!TypeOK'
  <2>1. PICK link \in Sit!Links : request' \in {
               [request EXCEPT ![c] = [pc |-> "propose", d |-> d, link |-> link]],
               [request EXCEPT ![c] = [pc |-> "finalise", d |-> d, link |-> link]]}
    BY <1>7 DEF Sit!ProposeCheck, Sit!FinaliseCheck, Sit!Asks, Sit!Linked, Sit!Links
  <2> QED BY <1>7, <2>1 DEF Sit!ProposeCheck, Sit!FinaliseCheck
<1>8. ASSUME NEW c \in Calls, NEW m \in Meetings, NEW u \in Papers, Sit!AttendCheck(c, m, u)
      PROVE  Sit!TypeOK'
  BY <1>8 DEF Sit!AttendCheck, Sit!Asks
<1>9. ASSUME NEW c \in Calls, Sit!SaveAttendance(c)
      PROVE  Sit!TypeOK'
  <2> DEFINE x == <<request[c].m, request[c].u>>
  <2>1. x \in Meetings \X Papers
    BY <1>9, RequestShape DEF Sit!SaveAttendance
  <2>2. Sit!Saved(attendance[x], c) \in {None} \cup [id : Calls, sealed : Calls]
    BY <2>1 DEF Sit!Saved
  <2>3. attendance' = [attendance EXCEPT ![x] = Sit!Saved(attendance[x], c)]
    BY <1>9 DEF Sit!SaveAttendance
  <2> HIDE DEF x
  <2>4. attendance' \in [Meetings \X Papers -> {None} \cup [id : Calls, sealed : Calls]]
    BY <2>1, <2>2, <2>3
  <2> QED BY <1>9, <2>4 DEF Sit!SaveAttendance, Sit!Ends
<1> QED BY <1>1, <1>2, <1>3, <1>4, <1>5, <1>6, <1>7, <1>8, <1>9 DEF Sit!Next

\* A note is sealed under the id of its row.
LEMMA NotesStep == Sit!TypeOK /\ Sit!NoteOpens /\ Sit!Next => Sit!NoteOpens'
<1> SUFFICES ASSUME Sit!TypeOK, Sit!NoteOpens, Sit!Next
             PROVE  Sit!NoteOpens'
  OBVIOUS
<1>1. ASSUME NEW c \in Calls, Sit!SaveAttendance(c)
      PROVE  Sit!NoteOpens'
  <2> DEFINE x == <<request[c].m, request[c].u>>
  <2>1. x \in Meetings \X Papers
    BY <1>1, RequestShape DEF Sit!SaveAttendance
  <2>2. attendance' = [attendance EXCEPT ![x] = Sit!Saved(attendance[x], c)]
    BY <1>1 DEF Sit!SaveAttendance
  <2> HIDE DEF x
  <2>3. Sit!Saved(attendance[x], c).sealed = Sit!Saved(attendance[x], c).id
    BY <2>1 DEF Sit!Saved, Sit!TypeOK
  <2>4. DOMAIN attendance' = DOMAIN attendance
    BY <2>2
  <2> QED BY <2>1, <2>2, <2>3, <2>4 DEF Sit!NoteOpens, Sit!TypeOK
<1>2. CASE UNCHANGED attendance
  BY <1>2 DEF Sit!NoteOpens
<1> QED BY <1>1, <1>2 DEF Sit!Next, Sit!CreateMeeting, Sit!CancelMeeting, Sit!RemoveItem,
      Sit!CaseMoves, Sit!FindItem, Sit!InsertItem, Sit!ScheduleCommittee, Sit!Propose,
      Sit!FinaliseCommit, Sit!ProposeCheck, Sit!FinaliseCheck, Sit!AttendCheck, Sit!RequestLost

\* A decision is written when it did not exist, with the meeting found for it,
\* and when it is finalised, with the meeting it had or the one found.
LEMMA ProposalsStep ==
  ASSUME SittingHolds, Sit!Next, NEW d \in Proposals
  PROVE  /\ \/ proposal'[d] = proposal[d]
            \/ proposal[d].status = "none" /\ proposal'[d].status = "proposed"
            \/ \E c \in Calls :
                 /\ request[c].pc = "finalise" /\ request[c].d = d
                 /\ proposal[d].status = "proposed" /\ proposal'[d].status = "finalised"
                 /\ proposal'[d].meeting = request[c].link /\ UNCHANGED <<agenda, meeting>>
         /\ proposal[d].meeting # None => proposal'[d].meeting = proposal[d].meeting
<1>1. ASSUME NEW c \in Calls, Sit!Propose(c), request[c].d = d
      PROVE  /\ proposal[d].status = "none" /\ proposal'[d].status = "proposed"
             /\ proposal[d].meeting = None
  <2>1. proposal' = [proposal EXCEPT ![d] = [status |-> "proposed", meeting |-> request[c].link]]
    BY <1>1 DEF Sit!Propose
  <2> QED BY <1>1, <2>1 DEF SittingHolds, Sit!TypeOK, Sit!Propose
<1>2. ASSUME NEW c \in Calls, Sit!FinaliseCommit(c), request[c].d = d, proposal[d].status = "proposed",
             stage = "committee"
      PROVE  /\ request[c].pc = "finalise" /\ proposal'[d].status = "finalised"
             /\ proposal'[d].meeting = request[c].link /\ UNCHANGED <<agenda, meeting>>
             /\ proposal[d].meeting \in {None, request[c].link}
  <2>1. proposal' = [proposal EXCEPT ![d] = [status |-> "finalised", meeting |-> request[c].link]]
    BY <1>2 DEF Sit!FinaliseCommit
  <2>2. proposal[d].meeting \in {None, request[c].link}
    BY <1>2 DEF SittingHolds, Tied, Sit!FinaliseCommit
  <2> QED BY <1>2, <2>1, <2>2 DEF SittingHolds, Sit!TypeOK, Sit!FinaliseCommit
<1>3. ASSUME NEW c \in Calls, Sit!Propose(c) \/ Sit!FinaliseCommit(c), request[c].d # d
      PROVE  proposal'[d] = proposal[d]
  BY <1>3 DEF Sit!Propose, Sit!FinaliseCommit, SittingHolds, Sit!TypeOK
<1>4. ASSUME NEW c \in Calls, Sit!FinaliseCommit(c), ~(proposal[request[c].d].status = "proposed" /\ stage = "committee")
      PROVE  proposal'[d] = proposal[d]
  BY <1>4 DEF Sit!FinaliseCommit
<1>5. CASE UNCHANGED proposal
  BY <1>5
<1>6. CASE \E c \in Calls : Sit!Propose(c) \/ Sit!FinaliseCommit(c)
  BY <1>1, <1>2, <1>3, <1>4, <1>6
<1> QED BY <1>5, <1>6 DEF Sit!Next, Sit!CreateMeeting, Sit!CancelMeeting, Sit!RemoveItem,
      Sit!CaseMoves, Sit!FindItem, Sit!InsertItem, Sit!ScheduleCommittee, Sit!SaveAttendance,
      Sit!ProposeCheck, Sit!FinaliseCheck, Sit!AttendCheck, Sit!RequestLost

\* An agenda grows by requests that are not about to finalise anything.
LEMMA AgendaStep ==
  ASSUME Sit!TypeOK, Sit!Next
  PROVE  Sit!Open' \subseteq Sit!Open \/ \E c \in Calls : request[c].pc = "list"
<1>1. ASSUME NEW m \in Meetings, Sit!CreateMeeting(m) \/ Sit!CancelMeeting(m) \/ Sit!RemoveItem(m)
      PROVE  Sit!Open' \subseteq Sit!Open
  BY <1>1 DEF Sit!CreateMeeting, Sit!CancelMeeting, Sit!RemoveItem, Sit!Open, Sit!TypeOK
<1>2. ASSUME NEW c \in Calls, Sit!InsertItem(c)
      PROVE  request[c].pc = "list"
  BY <1>2 DEF Sit!InsertItem
<1>3. CASE UNCHANGED <<agenda, meeting>>
  BY <1>3 DEF Sit!Open
<1> QED BY <1>1, <1>2, <1>3 DEF Sit!Next, Sit!FinaliseCommit, Sit!Propose,
      Sit!CaseMoves, Sit!FindItem, Sit!ScheduleCommittee, Sit!SaveAttendance,
      Sit!ProposeCheck, Sit!FinaliseCheck, Sit!AttendCheck, Sit!RequestLost

\* What a request is about to do it was about to do, but for the one that moves.
LEMMA RequestsStep ==
  ASSUME Sit!TypeOK, Sit!Next, NEW c \in Calls
  PROVE  \/ request'[c] = request[c]
         \/ request'[c].pc # "finalise"
         \/ \E d \in Proposals, l \in Sit!Links :
              /\ Sit!FinaliseCheck(c, d, l)
              /\ request'[c].d = d /\ request'[c].link \in Sit!Linked(l, proposal[d].meeting)
<1>1. ASSUME NEW b \in Calls, NEW d \in Proposals, NEW l \in Sit!Links, Sit!FinaliseCheck(b, d, l)
      PROVE  \/ request'[c] = request[c]
             \/ /\ b = c
                /\ request'[c].d = d /\ request'[c].link \in Sit!Linked(l, proposal[d].meeting)
  <2>1. PICK k \in Sit!Linked(l, proposal[d].meeting) :
          request' = [request EXCEPT ![b] = [pc |-> "finalise", d |-> d, link |-> k]]
    BY <1>1 DEF Sit!FinaliseCheck, Sit!Asks
  <2> QED BY <2>1 DEF Sit!TypeOK
<1>2. ASSUME NEW b \in Calls, NEW d \in Proposals, NEW l \in Sit!Links, Sit!ProposeCheck(b, d, l)
      PROVE  request'[c] = request[c] \/ request'[c].pc # "finalise"
  <2>1. PICK k \in Sit!Linked(l, None) :
          request' = [request EXCEPT ![b] = [pc |-> "propose", d |-> d, link |-> k]]
    BY <1>2 DEF Sit!ProposeCheck, Sit!Asks
  <2> QED BY <2>1 DEF Sit!TypeOK
<1>3. ASSUME NEW b \in Calls, NEW m \in Meetings,
             Sit!FindItem(b, m) \/ \E u \in Papers : Sit!AttendCheck(b, m, u)
      PROVE  request'[c] = request[c] \/ request'[c].pc # "finalise"
  BY <1>3 DEF Sit!FindItem, Sit!AttendCheck, Sit!Asks, Sit!TypeOK
<1>4. ASSUME NEW b \in Calls, request' = [request EXCEPT ![b] = Sit!Idle]
      PROVE  request'[c] = request[c] \/ request'[c].pc # "finalise"
  BY <1>4 DEF Sit!TypeOK, Sit!Idle
<1>5. ASSUME NEW b \in Calls, Sit!InsertItem(b)
      PROVE  request'[c] = request[c] \/ request'[c].pc # "finalise"
  <2>1. CASE request' = [request EXCEPT ![b].pc = "schedule"]
    <3>1. request[b].m \in Meetings /\ request[b] \in [pc : {"list", "schedule"}, m : Meetings]
      BY <1>5, RequestShape DEF Sit!InsertItem, Sit!Idle, Sit!TypeOK
    <3> QED BY <2>1, <3>1 DEF Sit!TypeOK
  <2> QED BY <1>4, <1>5, <2>1 DEF Sit!InsertItem, Sit!Ends
<1>6. CASE UNCHANGED request
  BY <1>6
<1> QED BY <1>1, <1>2, <1>3, <1>4, <1>5, <1>6 DEF Sit!Next, Sit!CreateMeeting, Sit!CancelMeeting,
      Sit!RemoveItem, Sit!CaseMoves, Sit!ScheduleCommittee, Sit!Propose, Sit!FinaliseCommit,
      Sit!SaveAttendance, Sit!RequestLost, Sit!Ends

LEMMA SittingStep ==
  SittingHolds /\ SittingNext =>
    SittingHolds' /\ Sit!LinkKept /\ (~overlapped => Sit!NotInSilence)
<1> SUFFICES ASSUME SittingHolds, SittingNext
             PROVE  SittingHolds' /\ Sit!LinkKept /\ (~overlapped => Sit!NotInSilence)
  OBVIOUS
<1> USE DEF SittingNext
<1>1. Sit!TypeOK /\ Sit!TypeOK' /\ Sit!NoteOpens'
  BY SittingTypes, NotesStep DEF SittingHolds
<1>2. Sit!LinkKept
  BY ProposalsStep DEF Sit!LinkKept
<1>3. ASSUME NEW d \in Proposals, proposal'[d].status = "none"
      PROVE  proposal'[d].meeting = None
  BY <1>3, ProposalsStep DEF SittingHolds
<1>4. ASSUME ~overlapped
      PROVE  Sit!NotInSilence
  BY <1>4, ProposalsStep DEF Sit!NotInSilence, Sit!Finalises, SittingHolds, Tied
<1>5. (overlapped \in BOOLEAN)' /\ (Overlap => overlapped)'
  BY Zenon
<1>6. ASSUME NEW c \in Calls, request'[c].pc = "finalise"
      PROVE  Tied(request[c])'
  <2>1. ASSUME request'[c] = request[c], ~overlapped'
        PROVE  Sit!Open' \subseteq Sit!Open
    <3>1. ~Overlap
      BY <2>1 DEF SittingHolds
    <3>2. \A b \in Calls : request[b].pc # "list"
      BY <1>6, <2>1, <3>1 DEF Overlap, Sit!Idle
    <3> QED BY <1>1, <3>2, AgendaStep
  <2>2. CASE request'[c] = request[c]
    <3>1. request[c].d \in Proposals
      BY <1>1, <1>6, <2>2, RequestShape
    <3>2. Tied(request[c])
      BY DEF SittingHolds
    <3>3. /\ proposal'[request[c].d].status # "none"
          /\ proposal'[request[c].d].status = "proposed" =>
               proposal'[request[c].d].meeting \in {None, request[c].link}
      BY <1>6, <2>2, <3>1, <3>2, ProposalsStep DEF Tied
    <3> QED BY <1>6, <2>1, <2>2, <3>2, <3>3 DEF Tied
  <2>3. ASSUME NEW d \in Proposals, NEW l \in Sit!Links, Sit!FinaliseCheck(c, d, l),
               request'[c].d = d, request'[c].link \in Sit!Linked(l, proposal[d].meeting)
        PROVE  Tied(request[c])'
    <3>1. UNCHANGED <<proposal, agenda, meeting>> /\ proposal[d].status = "proposed"
      BY <2>3 DEF Sit!FinaliseCheck
    <3>2. /\ proposal[d].meeting \in {None, request'[c].link}
          /\ request'[c].link = None => Sit!Open = {}
      BY <2>3 DEF Sit!Linked
    <3>3. Sit!Open' = Sit!Open
      BY <3>1 DEF Sit!Open
    <3> QED BY <2>3, <3>1, <3>2, <3>3 DEF Tied
  <2> QED BY <1>1, <1>6, <2>2, <2>3, RequestsStep
<1>7. \A c \in Calls : Tied(request[c])'
  BY <1>6 DEF Tied
<1> QED BY <1>1, <1>2, <1>3, <1>4, <1>5, <1>7 DEF SittingHolds

LEMMA SittingIdle ==
  SittingHolds /\ UNCHANGED <<sittingVars, overlapped>> => SittingHolds'
<1> SUFFICES ASSUME SittingHolds, UNCHANGED <<sittingVars, overlapped>>
             PROVE  SittingHolds'
  OBVIOUS
<1> USE DEF sittingVars
<1> QED BY DEF SittingHolds, Tied, Overlap, Sit!TypeOK, Sit!NoteOpens, Sit!Open

\* The meeting of a decision never changes, no decision of a listed case is
\* finalised without one while requests come one at a time, and notes open.
THEOREM SittingsAlwaysStand == OfficeSpec => SittingsStand
<1>1. OfficeInit => SittingHolds
  <2> SUFFICES ASSUME OfficeInit
               PROVE  SittingHolds
    OBVIOUS
  <2>1. Sit!Init /\ overlapped = FALSE
    BY DEF OfficeInit
  <2>2. \A c \in Calls : request[c] = Sit!Idle
    BY <2>1 DEF Sit!Init
  <2>3. Sit!TypeOK
    BY <2>1 DEF Sit!Init, Sit!TypeOK, Sit!Links
  <2>4. Sit!NoteOpens
    BY <2>1 DEF Sit!Init, Sit!NoteOpens
  <2>5. ~Overlap /\ \A c \in Calls : Tied(request[c])
    BY <2>2 DEF Overlap, Tied, Sit!Idle
  <2>6. \A d \in Proposals : proposal[d].status = "none" => proposal[d].meeting = None
    BY <2>1 DEF Sit!Init
  <2> QED BY <2>1, <2>3, <2>4, <2>5, <2>6 DEF SittingHolds
<1>2. SittingHolds /\ [OfficeNext]_everything =>
        SittingHolds' /\ [Sit!LinkKept /\ (~overlapped => Sit!NotInSilence)]_<<sittingVars, overlapped>>
  <2> SUFFICES ASSUME SittingHolds, [OfficeNext]_everything
               PROVE  SittingHolds' /\
                      [Sit!LinkKept /\ (~overlapped => Sit!NotInSilence)]_<<sittingVars, overlapped>>
    OBVIOUS
  <2>1. CASE SittingNext
    BY <2>1, SittingStep
  <2>2. CASE UNCHANGED sittingVars /\ overlapped' = (overlapped \/ Overlap')
    <3>1. Overlap' = Overlap
      BY <2>2 DEF sittingVars, Overlap
    <3>2. UNCHANGED <<sittingVars, overlapped>>
      BY <2>2, <3>1, Zenon DEF SittingHolds
    <3> QED BY <3>2, SittingIdle
  <2>3. CASE UNCHANGED everything
    <3>1. UNCHANGED <<sittingVars, overlapped>>
      BY <2>3 DEF everything, history
    <3> QED BY <3>1, SittingIdle
  <2> QED BY <2>1, <2>2, <2>3 DEF OfficeNext, SittingNext
<1>3. SittingHolds => Sit!TypeOK /\ Sit!NoteOpens
  BY DEF SittingHolds
<1> QED BY <1>1, <1>2, <1>3, PTL DEF OfficeSpec, SittingsStand

-----------------------------------------------------------------------------
(* The letters.  A send is the only one that prints under its token, that  *)
(* seals its message and that puts its link on the letter, and it does the *)
(* last only while the letter is a draft: so one send at most goes beyond  *)
(* its commit, and what the others left they clean up themselves.          *)

LetterRows ==
  [status : {"draft", "sent"}, kind : Mail!Kinds, channel : {"email", "letter"},
   link : Calls \cup {None}, pdf : Calls \cup {None}, message : Calls \cup {None},
   disposal : {"none", "begun", "done"}]
SendRows ==
  [pc : {"address", "print", "commit", "clean up", "seal", "add", "point", "done"}, l : Papers]
PostRows == [pc : {"check", "post", "finish", "throw"}, s : Calls]

\* What a program counter says about the rest of a send or of a worker.
LEMMA MailShape ==
  ASSUME Mail!TypeOK
  PROVE  /\ letter \in [Papers -> {Mail!NoLetter} \cup LetterRows]
         /\ send \in [Calls -> {Mail!Idle} \cup SendRows]
         /\ poster \in [Posters -> {Mail!Idle} \cup PostRows]
         /\ \A s \in Calls :
              /\ send[s].pc # "idle" => send[s] \in SendRows /\ send[s].l \in Papers
              /\ send[s] = Mail!Idle <=> send[s].pc = "idle"
         /\ \A l \in Papers :
              /\ letter[l] # Mail!NoLetter => letter[l] \in LetterRows
              /\ letter[l] = Mail!NoLetter <=> letter[l].status = "none"
         /\ \A w \in Posters :
              /\ poster[w].pc # "idle" => poster[w] \in PostRows /\ poster[w].s \in Calls
              /\ poster[w] = Mail!Idle <=> poster[w].pc = "idle"
<1>1. /\ letter \in [Papers -> {Mail!NoLetter} \cup LetterRows]
      /\ send \in [Calls -> {Mail!Idle} \cup SendRows]
      /\ poster \in [Posters -> {Mail!Idle} \cup PostRows]
  BY DEF Mail!TypeOK, LetterRows, SendRows, PostRows
<1>2. \A r \in SendRows : r.pc # "idle" /\ r.l \in Papers
  BY DEF SendRows
<1>3. \A r \in PostRows : r.pc # "idle" /\ r.s \in Calls
  BY DEF PostRows
<1>4. \A r \in LetterRows : r.status # "none"
  BY DEF LetterRows
<1>5. Mail!Idle.pc = "idle" /\ Mail!NoLetter.status = "none"
  BY DEF Mail!Idle, Mail!NoLetter
<1> QED BY <1>1, <1>2, <1>3, <1>4, <1>5

\* A send that moves keeps its letter, and the others stay where they are.
LEMMA SendMoves ==
  ASSUME Mail!TypeOK, NEW s \in Calls, send[s].pc # "idle",
         NEW pc \in {"address", "print", "commit", "clean up", "seal", "add", "point", "done"},
         Mail!To(s, pc)
  PROVE  /\ send' \in [Calls -> {Mail!Idle} \cup SendRows]
         /\ send'[s].pc = pc /\ send'[s].l = send[s].l
         /\ \A t \in Calls : t # s => send'[t] = send[t]
<1>1. send \in [Calls -> {Mail!Idle} \cup SendRows] /\ send[s] \in SendRows
  BY MailShape
<1>2. send' = [send EXCEPT ![s] = [send[s] EXCEPT !.pc = pc]]
  BY DEF Mail!To
<1>3. /\ [send[s] EXCEPT !.pc = pc] \in SendRows
      /\ [send[s] EXCEPT !.pc = pc].pc = pc
      /\ [send[s] EXCEPT !.pc = pc].l = send[s].l
  BY <1>1 DEF SendRows
<1> HIDE DEF SendRows
<1> QED BY <1>1, <1>2, <1>3

\* What each step of a send does to its letter.
LEMMA LetterCommit ==
  ASSUME NEW r \in LetterRows, NEW s \in Calls, NEW pdf \in Calls \cup {None},
         NEW c, c = [r EXCEPT !.status = "sent", !.link = s, !.pdf = pdf]
  PROVE  /\ c \in LetterRows
         /\ c.status = "sent" /\ c.link = s /\ c.pdf = pdf
         /\ c.kind = r.kind /\ c.channel = r.channel /\ c.disposal = r.disposal
         /\ c.message = r.message
BY DEF LetterRows

LEMMA LetterErased ==
  ASSUME NEW r \in LetterRows, NEW e, e = [r EXCEPT !.disposal = "done", !.link = None, !.pdf = None]
  PROVE  /\ e \in LetterRows
         /\ e.status = r.status /\ e.link = None /\ e.pdf = None
         /\ e.kind = r.kind /\ e.channel = r.channel /\ e.disposal = "done" /\ e.message = r.message
BY DEF LetterRows

LEMMA LetterBegun ==
  ASSUME NEW r \in LetterRows, NEW b, b = [r EXCEPT !.disposal = "begun"]
  PROVE  /\ b \in LetterRows
         /\ b.status = r.status /\ b.link = r.link /\ b.pdf = r.pdf
         /\ b.kind = r.kind /\ b.channel = r.channel /\ b.disposal = "begun" /\ b.message = r.message
BY DEF LetterRows

LEMMA LetterPointed ==
  ASSUME NEW r \in LetterRows, NEW s \in Calls, NEW p, p = [r EXCEPT !.message = s]
  PROVE  /\ p \in LetterRows
         /\ p.status = r.status /\ p.link = r.link /\ p.pdf = r.pdf
         /\ p.kind = r.kind /\ p.channel = r.channel /\ p.disposal = r.disposal /\ p.message = s
BY DEF LetterRows

\* A send is of a letter that somebody drafted.
Drafted == \A s \in Calls : send[s].pc # "idle" => letter[send[s].l] # Mail!NoLetter

LEMMA LetterTypes ==
  ASSUME Mail!TypeOK, Drafted, Mail!Next
  PROVE  /\ letter' \in [Papers -> {Mail!NoLetter} \cup LetterRows]
         /\ \A l \in Papers : letter[l] # Mail!NoLetter => letter'[l] # Mail!NoLetter
<1> DEFINE Letters == [Papers -> {Mail!NoLetter} \cup LetterRows]
           Stay == \A l \in Papers : letter[l] # Mail!NoLetter => letter'[l] # Mail!NoLetter
<1>0. letter \in Letters /\ \A r \in LetterRows : r # Mail!NoLetter
  BY MailShape DEF LetterRows, Mail!NoLetter
<1>a. ASSUME NEW l \in Papers, NEW r \in LetterRows, letter' = [letter EXCEPT ![l] = r]
      PROVE  letter' \in Letters /\ Stay
  <2> HIDE DEF LetterRows
  <2> QED BY <1>0, <1>a
<1>1. ASSUME NEW l \in Papers, Mail!DraftCorrespondence(l)
      PROVE  letter' \in Letters /\ Stay
  <2>1. PICK kind \in Mail!Kinds, channel \in {"email", "letter"} :
          letter' = [letter EXCEPT ![l] =
            [status |-> "draft", kind |-> kind, channel |-> channel,
             link |-> None, pdf |-> None, message |-> None, disposal |-> "none"]]
    BY <1>1 DEF Mail!DraftCorrespondence
  <2>2. [status |-> "draft", kind |-> kind, channel |-> channel,
         link |-> None, pdf |-> None, message |-> None, disposal |-> "none"] \in LetterRows
    BY DEF LetterRows
  <2> QED BY <1>a, <2>1, <2>2
<1>2. ASSUME NEW l \in Papers, Mail!EraseObject(l)
      PROVE  letter' \in Letters /\ Stay
  <2>1. letter[l] \in LetterRows
    BY <1>2, MailShape DEF Mail!EraseObject
  <2>2. letter' = [letter EXCEPT ![l] = [letter[l] EXCEPT !.disposal = "begun"]]
    BY <1>2 DEF Mail!EraseObject
  <2> QED BY <1>a, <2>1, <2>2, LetterBegun
<1>3. ASSUME NEW l \in Papers, Mail!EraseLetter(l)
      PROVE  letter' \in Letters /\ Stay
  <2>1. letter[l] \in LetterRows
    BY <1>3, MailShape DEF Mail!EraseLetter
  <2>2. letter' = [letter EXCEPT ![l] = [letter[l] EXCEPT !.disposal = "done", !.link = None, !.pdf = None]]
    BY <1>3 DEF Mail!EraseLetter
  <2> QED BY <1>a, <2>1, <2>2, LetterErased
<1>4. ASSUME NEW s \in Calls, Mail!SendCommit(s)
      PROVE  letter' \in Letters /\ Stay
  <2>1. send[s].l \in Papers /\ letter[send[s].l] \in LetterRows
    BY <1>4, MailShape DEF Mail!SendCommit, Drafted
  <2>2. CASE UNCHANGED letter
    BY <1>0, <2>2
  <2>3. CASE Mail!StillDraft(s)
    <3>1. PICK pdf \in Calls \cup {None} :
            letter' = [letter EXCEPT ![send[s].l] =
                         [letter[send[s].l] EXCEPT !.status = "sent", !.link = s, !.pdf = pdf]]
      BY <1>4, <2>3 DEF Mail!SendCommit
    <3>2. [letter[send[s].l] EXCEPT !.status = "sent", !.link = s, !.pdf = pdf] \in LetterRows
      BY <2>1, LetterCommit
    <3> QED BY <1>a, <2>1, <3>1, <3>2
  <2> QED BY <1>4, <2>2, <2>3 DEF Mail!SendCommit
<1>5. ASSUME NEW s \in Calls, Mail!PointAtMessage(s)
      PROVE  letter' \in Letters /\ Stay
  <2>1. send[s].l \in Papers /\ letter[send[s].l] \in LetterRows
    BY <1>5, MailShape DEF Mail!PointAtMessage, Drafted
  <2>2. letter' = [letter EXCEPT ![send[s].l] = [letter[send[s].l] EXCEPT !.message = s]]
    BY <1>5 DEF Mail!PointAtMessage
  <2> QED BY <1>a, <2>1, <2>2, LetterPointed
<1>6. CASE UNCHANGED letter
  BY <1>0, <1>6
<1> QED BY <1>1, <1>2, <1>3, <1>4, <1>5, <1>6
        DEF Mail!Next, Mail!RecordMoves, Mail!RecordSuppression, Mail!ClearSuppression, Mail!SendRead,
            Mail!CheckAddress, Mail!PrintLetter, Mail!CleanUp, Mail!SealMessage, Mail!AddMail, Mail!SendFails,
            Mail!MailStalled, Mail!TakeMail, Mail!CheckMail, Mail!PostMail, Mail!RelayRefuses,
            Mail!MailDone, Mail!PosterDies, Mail!MailUnchanged

LEMMA SendTypes ==
  ASSUME Mail!TypeOK, Mail!Next
  PROVE  send' \in [Calls -> {Mail!Idle} \cup SendRows]
<1>0. send \in [Calls -> {Mail!Idle} \cup SendRows]
  BY MailShape
<1>1. ASSUME NEW s \in Calls, NEW l \in Papers, Mail!SendRead(s, l)
      PROVE  send' \in [Calls -> {Mail!Idle} \cup SendRows]
  <2>1. PICK pc \in {"print", "address"} : send' = [send EXCEPT ![s] = [pc |-> pc, l |-> l]]
    BY <1>1 DEF Mail!SendRead
  <2>2. [pc |-> pc, l |-> l] \in SendRows
    BY DEF SendRows
  <2> QED BY <1>0, <2>1, <2>2
<1>2. ASSUME NEW s \in Calls, send[s].pc # "idle",
             NEW pc \in {"address", "print", "commit", "clean up", "seal", "add", "point", "done"},
             Mail!To(s, pc)
      PROVE  send' \in [Calls -> {Mail!Idle} \cup SendRows]
  BY <1>2, SendMoves
<1>3. CASE UNCHANGED send
  BY <1>0, <1>3
<1>4. ASSUME NEW s \in Calls,
             Mail!CheckAddress(s) \/ Mail!PrintLetter(s) \/ Mail!SendCommit(s) \/ Mail!CleanUp(s)
               \/ Mail!SealMessage(s) \/ Mail!AddMail(s) \/ Mail!PointAtMessage(s) \/ Mail!SendFails(s)
      PROVE  send' \in [Calls -> {Mail!Idle} \cup SendRows]
  BY <1>2, <1>4 DEF Mail!CheckAddress, Mail!PrintLetter, Mail!SendCommit, Mail!CleanUp,
        Mail!SealMessage, Mail!AddMail, Mail!PointAtMessage, Mail!SendFails, Mail!Stops
<1> QED BY <1>1, <1>3, <1>4
        DEF Mail!Next, Mail!RecordMoves, Mail!RecordSuppression, Mail!ClearSuppression,
            Mail!DraftCorrespondence, Mail!EraseObject, Mail!EraseLetter, Mail!RestUnchanged,
            Mail!MailStalled, Mail!TakeMail, Mail!CheckMail, Mail!PostMail, Mail!RelayRefuses,
            Mail!MailDone, Mail!PosterDies, Mail!MailUnchanged

LEMMA PosterTypes ==
  ASSUME Mail!TypeOK, Mail!Next
  PROVE  /\ outbox' \in [Calls -> {"none", "queued", "active", "finished"}]
         /\ poster' \in [Posters -> {Mail!Idle} \cup PostRows]
         /\ mails' \in [Calls -> Nat]
         /\ losses' \in 0 .. MaxLosses
<1>0. /\ outbox \in [Calls -> {"none", "queued", "active", "finished"}]
      /\ poster \in [Posters -> {Mail!Idle} \cup PostRows]
      /\ mails \in [Calls -> Nat] /\ losses \in 0 .. MaxLosses
  BY MailShape DEF Mail!TypeOK
<1>1. losses' \in 0 .. MaxLosses
  <2>1. Mail!Lose => losses' \in 0 .. MaxLosses
    BY <1>0, OfficeAssumption DEF Mail!Lose
  <2>2. UNCHANGED losses => losses' \in 0 .. MaxLosses
    BY <1>0
  <2> QED BY <2>1, <2>2
        DEF Mail!Next, Mail!RecordMoves, Mail!RecordSuppression, Mail!ClearSuppression,
            Mail!DraftCorrespondence, Mail!EraseObject, Mail!EraseLetter, Mail!RestUnchanged,
            Mail!SendRead, Mail!CheckAddress, Mail!PrintLetter, Mail!SendCommit, Mail!CleanUp,
            Mail!SealMessage, Mail!AddMail, Mail!PointAtMessage, Mail!SendFails,
            Mail!MailStalled, Mail!TakeMail, Mail!CheckMail, Mail!PostMail, Mail!RelayRefuses,
            Mail!MailDone, Mail!PosterDies, Mail!MailUnchanged
<1> DEFINE Posts == /\ outbox' \in [Calls -> {"none", "queued", "active", "finished"}]
                    /\ poster' \in [Posters -> {Mail!Idle} \cup PostRows]
                    /\ mails' \in [Calls -> Nat]
<1>2. ASSUME NEW s \in Calls, Mail!AddMail(s) \/ Mail!MailStalled(s)
      PROVE  Posts
  BY <1>0, <1>2 DEF Mail!AddMail, Mail!MailStalled
<1>3. ASSUME NEW s \in Calls, NEW w \in Posters, Mail!TakeMail(w, s)
      PROVE  Posts
  <2>1. [pc |-> "check", s |-> s] \in PostRows
    BY DEF PostRows
  <2> QED BY <1>0, <1>3, <2>1 DEF Mail!TakeMail
<1>a. ASSUME NEW w \in Posters, poster[w].pc # "idle",
             NEW pc \in {"check", "post", "finish", "throw"}, Mail!Onward(w, pc)
      PROVE  poster' \in [Posters -> {Mail!Idle} \cup PostRows]
  <2>1. poster' = [poster EXCEPT ![w] = [poster[w] EXCEPT !.pc = pc]]
    BY <1>a DEF Mail!Onward
  <2>2. [poster[w] EXCEPT !.pc = pc] \in PostRows
    BY <1>a, MailShape DEF PostRows
  <2> QED BY <1>0, <2>1, <2>2
<1>4. ASSUME NEW w \in Posters, Mail!CheckMail(w) \/ Mail!RelayRefuses(w)
      PROVE  Posts
  <2>1. poster' \in [Posters -> {Mail!Idle} \cup PostRows]
    BY <1>a, <1>4 DEF Mail!CheckMail, Mail!RelayRefuses
  <2> QED BY <1>0, <1>4, <2>1 DEF Mail!CheckMail, Mail!RelayRefuses
<1>5. ASSUME NEW w \in Posters, Mail!PostMail(w)
      PROVE  Posts
  <2>1. poster' \in [Posters -> {Mail!Idle} \cup PostRows] /\ UNCHANGED outbox
    BY <1>a, <1>5 DEF Mail!PostMail
  <2>2. mails' = [mails EXCEPT ![poster[w].s] = mails[poster[w].s] + 1] /\ poster[w].s \in Calls
    BY <1>5, MailShape DEF Mail!PostMail, Mail!Mail
  <2>3. mails' \in [Calls -> Nat]
    BY <1>0, <2>2
  <2> QED BY <1>0, <2>1, <2>3
<1>6. ASSUME NEW w \in Posters, Mail!MailDone(w) \/ Mail!PosterDies(w)
      PROVE  Posts
  BY <1>0, <1>6 DEF Mail!MailDone, Mail!PosterDies
<1>7. ASSUME UNCHANGED <<outbox, poster, mails>>
      PROVE  Posts
  BY <1>0, <1>7
<1> QED BY <1>1, <1>2, <1>3, <1>4, <1>5, <1>6, <1>7
        DEF Mail!Next, Mail!RecordMoves, Mail!RecordSuppression, Mail!ClearSuppression,
            Mail!DraftCorrespondence, Mail!EraseObject, Mail!EraseLetter, Mail!RestUnchanged,
            Mail!SendRead, Mail!CheckAddress, Mail!PrintLetter, Mail!SendCommit, Mail!CleanUp,
            Mail!SealMessage, Mail!PointAtMessage, Mail!SendFails, Mail!SendUnchanged

LEMMA MailTypes == Mail!TypeOK /\ Drafted /\ Mail!Next => Mail!TypeOK'
<1> SUFFICES ASSUME Mail!TypeOK, Drafted, Mail!Next
             PROVE  Mail!TypeOK'
  OBVIOUS
<1>1. record' \in [Papers -> {"open", "settled", "revoked"}]
  <2>1. ASSUME NEW l \in Papers, Mail!RecordMoves(l)
        PROVE  record' \in [Papers -> {"open", "settled", "revoked"}]
    <3>1. PICK at \in {"settled", "revoked"} : record' = [record EXCEPT ![l] = at]
      BY <2>1 DEF Mail!RecordMoves
    <3> QED BY <3>1 DEF Mail!TypeOK
  <2>2. CASE UNCHANGED record
    BY <2>2 DEF Mail!TypeOK
  <2> QED BY <2>1, <2>2
        DEF Mail!Next, Mail!RecordSuppression, Mail!ClearSuppression,
            Mail!DraftCorrespondence, Mail!EraseObject, Mail!EraseLetter,
            Mail!SendRead, Mail!CheckAddress, Mail!PrintLetter, Mail!SendCommit, Mail!CleanUp,
            Mail!SealMessage, Mail!AddMail, Mail!PointAtMessage, Mail!SendFails, Mail!SendUnchanged,
            Mail!MailStalled, Mail!TakeMail, Mail!CheckMail, Mail!PostMail, Mail!RelayRefuses,
            Mail!MailDone, Mail!PosterDies, Mail!MailUnchanged
<1>2. suppressed' \subseteq Papers
  BY DEF Mail!TypeOK, Mail!Next, Mail!RecordMoves, Mail!RecordSuppression, Mail!ClearSuppression,
            Mail!DraftCorrespondence, Mail!EraseObject, Mail!EraseLetter,
            Mail!SendRead, Mail!CheckAddress, Mail!PrintLetter, Mail!SendCommit, Mail!CleanUp,
            Mail!SealMessage, Mail!AddMail, Mail!PointAtMessage, Mail!SendFails, Mail!SendUnchanged,
            Mail!MailStalled, Mail!TakeMail, Mail!CheckMail, Mail!PostMail, Mail!RelayRefuses,
            Mail!MailDone, Mail!PosterDies, Mail!MailUnchanged
<1>3. prints' \subseteq Calls
  <2>1. prints \subseteq Calls
    BY DEF Mail!TypeOK
  <2>2. prints' \subseteq prints \/ \E s \in Calls : prints' = prints \cup {s}
    BY DEF Mail!Next, Mail!RecordMoves, Mail!RecordSuppression, Mail!ClearSuppression,
            Mail!DraftCorrespondence, Mail!EraseObject, Mail!EraseLetter,
            Mail!SendRead, Mail!CheckAddress, Mail!PrintLetter, Mail!SendCommit, Mail!CleanUp,
            Mail!SealMessage, Mail!AddMail, Mail!PointAtMessage, Mail!SendFails, Mail!SendUnchanged,
            Mail!MailStalled, Mail!TakeMail, Mail!CheckMail, Mail!PostMail, Mail!RelayRefuses,
            Mail!MailDone, Mail!PosterDies, Mail!MailUnchanged
  <2> QED BY <2>1, <2>2
<1>4. message' \in [Calls -> {"none", "sealed", "erased"}]
  <2>1. ASSUME NEW l \in Papers, Mail!EraseLetter(l)
        PROVE  message' \in [Calls -> {"none", "sealed", "erased"}]
    BY <2>1 DEF Mail!EraseLetter, Mail!TypeOK
  <2>2. ASSUME NEW s \in Calls, Mail!SealMessage(s)
        PROVE  message' \in [Calls -> {"none", "sealed", "erased"}]
    BY <2>2 DEF Mail!SealMessage, Mail!TypeOK
  <2>3. CASE UNCHANGED message
    BY <2>3 DEF Mail!TypeOK
  <2> QED BY <2>1, <2>2, <2>3
        DEF Mail!Next, Mail!RecordMoves, Mail!RecordSuppression, Mail!ClearSuppression,
            Mail!DraftCorrespondence, Mail!EraseObject,
            Mail!SendRead, Mail!CheckAddress, Mail!PrintLetter, Mail!SendCommit, Mail!CleanUp,
            Mail!AddMail, Mail!PointAtMessage, Mail!SendFails, Mail!SendUnchanged,
            Mail!MailStalled, Mail!TakeMail, Mail!CheckMail, Mail!PostMail, Mail!RelayRefuses,
            Mail!MailDone, Mail!PosterDies, Mail!MailUnchanged
<1> QED BY <1>1, <1>2, <1>3, <1>4, LetterTypes, SendTypes, PosterTypes
        DEF Mail!TypeOK, LetterRows, SendRows, PostRows

\* What a letter says was recorded.
Recorded(l) ==
  letter[l].kind # "general" =>
    record[l] = "revoked" \/ (letter[l].kind # "revocation" /\ record[l] = "settled")

Beyond == {"seal", "add", "point", "done"}

SendHolds(s) ==
  LET k == send[s]
      l == letter[send[s].l] IN
  /\ k.pc = "idle" => s \notin prints /\ message[s] = "none"
  /\ k.pc # "idle" => l # Mail!NoLetter
  /\ k.pc \in {"print", "clean up"} => l.channel = "letter"
  /\ k.pc \in {"address", "seal", "add", "point"} => l.channel = "email"
  /\ k.pc \in {"address", "print", "commit"} => Recorded(k.l)
  /\ k.pc = "commit" /\ l.channel = "letter" => s \in prints
  /\ s \in prints => k.pc \in {"commit", "clean up", "done"} /\ l.channel = "letter"
  /\ message[s] # "none" => k.pc \in {"add", "point", "done"}
  /\ k.pc \in {"add", "point"} => message[s] # "none"
  /\ k.pc \in {"seal", "add", "point"} \/ message[s] # "none" =>
       l.status = "sent" /\ (l.link = s \/ l.disposal = "done")

LetterHolds(l) ==
  letter[l] # Mail!NoLetter =>
    /\ letter[l].status = "draft" =>
         letter[l].link = None /\ letter[l].pdf = None /\ letter[l].message = None
    /\ letter[l].link # None => send[letter[l].link].l = l /\ send[letter[l].link].pc \in Beyond
    /\ letter[l].pdf # None => letter[l].pdf = letter[l].link
    /\ letter[l].message # None =>
         message[letter[l].message] # "none" /\ send[letter[l].message].l = l
    /\ Mail!Sent(l) /\ letter[l].disposal = "none" /\ letter[l].channel = "letter" =>
         letter[l].pdf = letter[l].link /\ letter[l].pdf \in prints
    /\ Mail!Sent(l) => Recorded(l)

MailHolds ==
  /\ Mail!TypeOK
  /\ \A s \in Calls : SendHolds(s)
  /\ \A l \in Papers : LetterHolds(l)

LEMMA NoneIsNoCall == None \notin Calls
BY ConstantsAssumption DEF Binding

LEMMA MailDrafted == MailHolds => Drafted
BY DEF MailHolds, SendHolds, Drafted

\* A send under way keeps its letter, and one beyond its commit stays there.
LEMMA SendsFollow ==
  ASSUME Mail!TypeOK, Mail!Next, NEW s \in Calls
  PROVE  /\ send[s].pc # "idle" => send'[s].pc # "idle" /\ send'[s].l = send[s].l
         /\ send[s].pc \in Beyond => send'[s].pc \in Beyond
         /\ send[s].pc \in {"point", "done"} => send'[s].pc \in {"point", "done"}
         /\ message[s] # "none" => message'[s] # "none"
<1> DEFINE Follows == /\ send[s].pc # "idle" => send'[s].pc # "idle" /\ send'[s].l = send[s].l
                      /\ send[s].pc \in Beyond => send'[s].pc \in Beyond
                      /\ send[s].pc \in {"point", "done"} => send'[s].pc \in {"point", "done"}
           SentKept(t) == message[t] # "none" => message'[t] # "none"
<1>1. ASSUME NEW t \in Calls, NEW l \in Papers, Mail!SendRead(t, l)
      PROVE  Follows
  <2>1. send' = [send EXCEPT ![t] = send'[t]] /\ send[t].pc = "idle"
    BY <1>1, MailShape DEF Mail!SendRead
  <2>2. t # s => send'[s] = send[s]
    BY <2>1, MailShape
  <2> QED BY <2>1, <2>2 DEF Beyond
<1>2. ASSUME NEW t \in Calls, send[t].pc # "idle",
             NEW pc \in {"address", "print", "commit", "clean up", "seal", "add", "point", "done"},
             Mail!To(t, pc), send[t].pc \in Beyond => pc \in Beyond,
             send[t].pc \in {"point", "done"} => pc = "done"
      PROVE  Follows
  BY <1>2, SendMoves DEF Beyond
<1>3. ASSUME UNCHANGED send
      PROVE  Follows
  BY <1>3
<1>4. ASSUME NEW t \in Calls,
             Mail!CheckAddress(t) \/ Mail!PrintLetter(t) \/ Mail!SendCommit(t) \/ Mail!CleanUp(t)
               \/ Mail!SealMessage(t) \/ Mail!AddMail(t) \/ Mail!PointAtMessage(t) \/ Mail!SendFails(t)
      PROVE  Follows
  BY <1>2, <1>4 DEF Mail!CheckAddress, Mail!PrintLetter, Mail!SendCommit, Mail!CleanUp,
        Mail!SealMessage, Mail!AddMail, Mail!PointAtMessage, Mail!SendFails, Mail!Stops, Beyond
<1>5. Follows
  BY <1>1, <1>3, <1>4
        DEF Mail!Next, Mail!RecordMoves, Mail!RecordSuppression, Mail!ClearSuppression,
            Mail!DraftCorrespondence, Mail!EraseObject, Mail!EraseLetter, Mail!RestUnchanged,
            Mail!MailStalled, Mail!TakeMail, Mail!CheckMail, Mail!PostMail, Mail!RelayRefuses,
            Mail!MailDone, Mail!PosterDies, Mail!MailUnchanged
<1>6. ASSUME NEW l \in Papers, Mail!EraseLetter(l)
      PROVE  SentKept(s)
  BY <1>6 DEF Mail!EraseLetter, Mail!TypeOK
<1>7. ASSUME NEW t \in Calls, Mail!SealMessage(t)
      PROVE  SentKept(s)
  BY <1>7 DEF Mail!SealMessage, Mail!TypeOK
<1>8. SentKept(s)
  BY <1>6, <1>7
        DEF Mail!Next, Mail!RecordMoves, Mail!RecordSuppression, Mail!ClearSuppression,
            Mail!DraftCorrespondence, Mail!EraseObject,
            Mail!SendRead, Mail!CheckAddress, Mail!PrintLetter, Mail!SendCommit, Mail!CleanUp,
            Mail!AddMail, Mail!PointAtMessage, Mail!SendFails, Mail!SendUnchanged,
            Mail!MailStalled, Mail!TakeMail, Mail!CheckMail, Mail!PostMail, Mail!RelayRefuses,
            Mail!MailDone, Mail!PosterDies, Mail!MailUnchanged
<1> QED BY <1>5, <1>8

\* The steps that change a letter, and what they leave of it.
Same(l) ==
  /\ letter[l] # Mail!NoLetter /\ letter'[l] # Mail!NoLetter
  /\ letter'[l].kind = letter[l].kind /\ letter'[l].channel = letter[l].channel
Drafts(l) ==
  /\ Mail!DraftCorrespondence(l) /\ letter[l] = Mail!NoLetter
  /\ letter'[l].status = "draft" /\ letter'[l].link = None /\ letter'[l].pdf = None
  /\ letter'[l].message = None /\ letter'[l].disposal = "none"
Begins(l) ==
  /\ Mail!EraseObject(l) /\ Same(l)
  /\ letter[l].disposal = "none" /\ letter'[l].disposal = "begun"
  /\ letter'[l].status = letter[l].status /\ letter'[l].link = letter[l].link
  /\ letter'[l].pdf = letter[l].pdf /\ letter'[l].message = letter[l].message
Erases(l) ==
  /\ Mail!EraseLetter(l) /\ Same(l)
  /\ letter[l].disposal = "begun" /\ letter'[l].disposal = "done"
  /\ letter'[l].status = letter[l].status /\ letter'[l].link = None
  /\ letter'[l].pdf = None /\ letter'[l].message = letter[l].message
Commits(s, l) ==
  /\ Mail!SendCommit(s) /\ send[s].l = l /\ Same(l)
  /\ letter[l].status = "draft" /\ letter'[l].status = "sent" /\ letter'[l].link = s
  /\ letter'[l].pdf = (IF letter[l].channel = "letter" THEN s ELSE None)
  /\ letter'[l].message = letter[l].message /\ letter'[l].disposal = letter[l].disposal
Points(s, l) ==
  /\ Mail!PointAtMessage(s) /\ send[s].l = l /\ Same(l)
  /\ letter'[l].status = letter[l].status /\ letter'[l].link = letter[l].link
  /\ letter'[l].pdf = letter[l].pdf /\ letter'[l].message = s
  /\ letter'[l].disposal = letter[l].disposal

LEMMA LetterCases ==
  ASSUME Mail!TypeOK, Drafted, Mail!Next, NEW l \in Papers
  PROVE  \/ letter'[l] = letter[l]
         \/ Drafts(l) \/ Begins(l) \/ Erases(l)
         \/ \E s \in Calls : Commits(s, l) \/ Points(s, l)
<1> DEFINE Goal == \/ letter'[l] = letter[l]
                   \/ Drafts(l) \/ Begins(l) \/ Erases(l)
                   \/ \E s \in Calls : Commits(s, l) \/ Points(s, l)
<1>0. /\ letter \in [Papers -> {Mail!NoLetter} \cup LetterRows]
      /\ \A r \in LetterRows : r # Mail!NoLetter
  BY MailShape DEF LetterRows, Mail!NoLetter
<1>a. ASSUME NEW k \in Papers, NEW r, letter' = [letter EXCEPT ![k] = r]
      PROVE  letter'[k] = r /\ (k # l => letter'[l] = letter[l])
  BY <1>0, <1>a
<1>1. ASSUME NEW k \in Papers, Mail!DraftCorrespondence(k)
      PROVE  Goal
  <2>1. PICK kind \in Mail!Kinds, channel \in {"email", "letter"} :
          letter' = [letter EXCEPT ![k] =
            [status |-> "draft", kind |-> kind, channel |-> channel,
             link |-> None, pdf |-> None, message |-> None, disposal |-> "none"]]
    BY <1>1 DEF Mail!DraftCorrespondence
  <2>2. letter[k] = Mail!NoLetter
    BY <1>1 DEF Mail!DraftCorrespondence
  <2> QED BY <1>1, <1>a, <2>1, <2>2 DEF Drafts
<1>2. ASSUME NEW k \in Papers, Mail!EraseObject(k)
      PROVE  Goal
  <2>1. letter[k] \in LetterRows /\ letter[k].disposal = "none"
    BY <1>2, MailShape DEF Mail!EraseObject
  <2>2. letter' = [letter EXCEPT ![k] = [letter[k] EXCEPT !.disposal = "begun"]]
    BY <1>2 DEF Mail!EraseObject
  <2>3. k # l => letter'[l] = letter[l]
    BY <1>a, <2>2
  <2>4. letter'[k] = [letter[k] EXCEPT !.disposal = "begun"]
    BY <1>a, <2>2
  <2>5. CASE k = l
    BY <1>0, <1>2, <2>1, <2>4, <2>5, LetterBegun DEF Begins, Same
  <2> QED BY <2>3, <2>5
<1>3. ASSUME NEW k \in Papers, Mail!EraseLetter(k)
      PROVE  Goal
  <2>1. letter[k] \in LetterRows /\ letter[k].disposal = "begun"
    BY <1>3, MailShape DEF Mail!EraseLetter
  <2>2. letter' = [letter EXCEPT ![k] = [letter[k] EXCEPT !.disposal = "done", !.link = None, !.pdf = None]]
    BY <1>3 DEF Mail!EraseLetter
  <2>3. k # l => letter'[l] = letter[l]
    BY <1>a, <2>2
  <2>4. letter'[k] = [letter[k] EXCEPT !.disposal = "done", !.link = None, !.pdf = None]
    BY <1>a, <2>2
  <2>5. CASE k = l
    <3>1. letter'[l] = [letter[l] EXCEPT !.disposal = "done", !.link = None, !.pdf = None]
      BY <2>4, <2>5
    <3>2. /\ letter'[l] \in LetterRows
          /\ letter'[l].status = letter[l].status /\ letter'[l].link = None /\ letter'[l].pdf = None
          /\ letter'[l].kind = letter[l].kind /\ letter'[l].channel = letter[l].channel
          /\ letter'[l].disposal = "done" /\ letter'[l].message = letter[l].message
      BY <2>1, <2>5, <3>1, LetterErased
    <3> QED BY <1>0, <1>3, <2>1, <2>5, <3>2 DEF Erases, Same
  <2> QED BY <2>3, <2>5
<1>4. ASSUME NEW s \in Calls, Mail!SendCommit(s)
      PROVE  Goal
  <2> DEFINE k == send[s].l
             pdf == IF letter[k].channel = "letter" THEN s ELSE None
  <2>1. k \in Papers /\ letter[k] \in LetterRows
    BY <1>4, MailShape DEF Mail!SendCommit, Drafted
  <2>2. CASE UNCHANGED letter
    BY <2>2
  <2>3. CASE Mail!StillDraft(s)
    <3>1. letter' = [letter EXCEPT ![k] = [letter[k] EXCEPT !.status = "sent", !.link = s, !.pdf = pdf]]
      BY <1>4, <2>3 DEF Mail!SendCommit, Mail!Of
    <3>2. k # l => letter'[l] = letter[l]
      BY <1>a, <2>1, <3>1
    <3>3. letter'[k] = [letter[k] EXCEPT !.status = "sent", !.link = s, !.pdf = pdf]
      BY <1>a, <2>1, <3>1
    <3>4. pdf \in Calls \cup {None} /\ letter[k].status = "draft"
      BY <2>3 DEF Mail!StillDraft, Mail!Of
    <3>5. CASE k = l
      <4> HIDE DEF pdf
      <4>0. letter'[l] = [letter[l] EXCEPT !.status = "sent", !.link = s, !.pdf = pdf]
        BY <3>3, <3>5
      <4>a. letter[l] \in LetterRows /\ pdf \in Calls \cup {None}
        BY <2>1, <3>4, <3>5
      <4>1. /\ letter'[l] \in LetterRows
            /\ letter'[l].status = "sent" /\ letter'[l].link = s /\ letter'[l].pdf = pdf
            /\ letter'[l].kind = letter[l].kind /\ letter'[l].channel = letter[l].channel
            /\ letter'[l].disposal = letter[l].disposal /\ letter'[l].message = letter[l].message
        BY <4>0, <4>a DEF LetterRows
      <4> QED BY <1>0, <1>4, <2>1, <3>4, <3>5, <4>1 DEF Commits, Same, pdf
    <3> QED BY <3>2, <3>5
  <2> QED BY <1>4, <2>2, <2>3 DEF Mail!SendCommit
<1>5. ASSUME NEW s \in Calls, Mail!PointAtMessage(s)
      PROVE  Goal
  <2> DEFINE k == send[s].l
  <2>1. k \in Papers /\ letter[k] \in LetterRows
    BY <1>5, MailShape DEF Mail!PointAtMessage, Drafted
  <2>2. letter' = [letter EXCEPT ![k] = [letter[k] EXCEPT !.message = s]]
    BY <1>5 DEF Mail!PointAtMessage
  <2>3. k # l => letter'[l] = letter[l]
    BY <1>a, <2>1, <2>2
  <2>4. letter'[k] = [letter[k] EXCEPT !.message = s]
    BY <1>a, <2>1, <2>2
  <2>5. CASE k = l
    BY <1>0, <1>5, <2>1, <2>4, <2>5, LetterPointed DEF Points, Same
  <2> QED BY <2>3, <2>5
<1>6. CASE UNCHANGED letter
  BY <1>6
<1> QED BY <1>1, <1>2, <1>3, <1>4, <1>5, <1>6
        DEF Mail!Next, Mail!RecordMoves, Mail!RecordSuppression, Mail!ClearSuppression, Mail!SendRead,
            Mail!CheckAddress, Mail!PrintLetter, Mail!CleanUp, Mail!SealMessage, Mail!AddMail, Mail!SendFails,
            Mail!MailStalled, Mail!TakeMail, Mail!CheckMail, Mail!PostMail, Mail!RelayRefuses,
            Mail!MailDone, Mail!PosterDies, Mail!MailUnchanged

\* A letter that was drafted stays what it is, and once sent it stays sent
\* under its link until it is erased.
LEMMA LettersFollow ==
  ASSUME MailHolds, Mail!Next, NEW l \in Papers, letter[l] # Mail!NoLetter
  PROVE  /\ Same(l)
         /\ Recorded(l) => Recorded(l)'
         /\ letter[l].status = "sent" => letter'[l].status = "sent"
         /\ letter[l].disposal = "done" => letter'[l].disposal = "done"
         /\ letter[l].status = "sent" => letter'[l].link = letter[l].link \/ letter'[l].disposal = "done"
<1>1. \/ letter'[l] = letter[l]
      \/ Begins(l) \/ Erases(l) \/ \E s \in Calls : Commits(s, l) \/ Points(s, l)
  BY LetterCases, MailDrafted DEF MailHolds, Drafts
<1>2. Same(l)
  BY <1>1 DEF Same, Begins, Erases, Commits, Points
<1>3. Recorded(l) => Recorded(l)'
  <2>1. ASSUME NEW k \in Papers, Mail!RecordMoves(k)
        PROVE  \/ record'[l] = record[l]
               \/ record[l] = "open" /\ record'[l] = "settled"
               \/ record[l] = "settled" /\ record'[l] = "revoked"
    <3>1. PICK at \in {"settled", "revoked"} :
            /\ record' = [record EXCEPT ![k] = at]
            /\ (record[k] = "open" /\ at = "settled") \/ (record[k] = "settled" /\ at = "revoked")
      BY <2>1 DEF Mail!RecordMoves
    <3>2. record \in [Papers -> {"open", "settled", "revoked"}]
      BY DEF MailHolds, Mail!TypeOK
    <3> QED BY <3>1, <3>2
  <2>2. \/ record'[l] = record[l]
        \/ record[l] = "open" /\ record'[l] = "settled"
        \/ record[l] = "settled" /\ record'[l] = "revoked"
    BY <2>1 DEF Mail!Next, Mail!RecordSuppression, Mail!ClearSuppression,
            Mail!DraftCorrespondence, Mail!EraseObject, Mail!EraseLetter,
            Mail!SendRead, Mail!CheckAddress, Mail!PrintLetter, Mail!SendCommit, Mail!CleanUp,
            Mail!SealMessage, Mail!AddMail, Mail!PointAtMessage, Mail!SendFails, Mail!SendUnchanged,
            Mail!MailStalled, Mail!TakeMail, Mail!CheckMail, Mail!PostMail, Mail!RelayRefuses,
            Mail!MailDone, Mail!PosterDies, Mail!MailUnchanged
  <2>3. record[l] \in {"open", "settled", "revoked"}
    BY DEF MailHolds, Mail!TypeOK
  <2>4. CASE letter[l].kind = "revocation"
    <3>1. Recorded(l) => record[l] = "revoked"
      BY <2>4 DEF Recorded
    <3> QED BY <1>2, <2>2, <3>1 DEF Recorded, Same
  <2> QED BY <1>2, <2>2, <2>3, <2>4 DEF Recorded, Same
<1> QED BY <1>1, <1>2, <1>3 DEF Begins, Erases, Commits, Points

\* A send that another step leaves where it is.
LEMMA SendKept ==
  ASSUME MailHolds, Mail!Next, NEW s \in Calls, send'[s] = send[s],
         (message'[s] = "none") = (message[s] = "none"),
         s \in prints' => s \in prints,
         s \in prints /\ send[s].pc = "commit" => s \in prints'
  PROVE  SendHolds(s)'
<1>1. SendHolds(s)
  BY DEF MailHolds
<1>2. CASE send[s].pc = "idle"
  <2>1. s \notin prints' /\ message'[s] = "none"
    BY <1>1, <1>2 DEF SendHolds
  <2> QED BY <1>2, <2>1 DEF SendHolds
<1>3. CASE send[s].pc # "idle"
  <2>1. PICK l \in Papers : l = send[s].l /\ letter[l] # Mail!NoLetter
    BY <1>1, <1>3, MailShape DEF MailHolds, SendHolds
  <2>2. /\ Same(l)
        /\ Recorded(l) => Recorded(l)'
        /\ letter[l].status = "sent" => letter'[l].status = "sent"
        /\ letter[l].disposal = "done" => letter'[l].disposal = "done"
        /\ letter[l].status = "sent" => letter'[l].link = letter[l].link \/ letter'[l].disposal = "done"
    BY <2>1, LettersFollow
  <2>3. send'[s].l = l
    BY <2>1
  <2>4. /\ letter'[l] # Mail!NoLetter /\ letter'[l].channel = letter[l].channel
    BY <2>2 DEF Same
  <2>5. send[s].pc \in {"address", "print", "commit"} => Recorded(l)
    BY <1>1, <2>1 DEF SendHolds
  <2>6. send[s].pc \in {"address", "print", "commit"} => Recorded(send[s].l)'
    BY <2>2, <2>3, <2>5 DEF Recorded
  <2>7. send[s].pc \in {"seal", "add", "point"} \/ message'[s] # "none" =>
          letter'[l].status = "sent" /\ (letter'[l].link = s \/ letter'[l].disposal = "done")
    BY <1>1, <2>1, <2>2 DEF SendHolds
  <2>8. /\ send[s].pc \in {"print", "clean up"} => letter'[l].channel = "letter"
        /\ send[s].pc \in {"address", "seal", "add", "point"} => letter'[l].channel = "email"
        /\ send[s].pc = "commit" /\ letter'[l].channel = "letter" => s \in prints'
        /\ s \in prints' => send[s].pc \in {"commit", "clean up", "done"} /\ letter'[l].channel = "letter"
    BY <1>1, <2>1, <2>4 DEF SendHolds
  <2>9. /\ message'[s] # "none" => send[s].pc \in {"add", "point", "done"}
        /\ send[s].pc \in {"add", "point"} => message'[s] # "none"
    BY <1>1 DEF SendHolds
  <2> QED BY <1>3, <2>3, <2>4, <2>6, <2>7, <2>8, <2>9 DEF SendHolds
<1> QED BY <1>2, <1>3

\* The send that finds a draft puts its link on it.
LEMMA CommitShown ==
  ASSUME Mail!TypeOK, Drafted, NEW s \in Calls, Mail!SendCommit(s), Mail!StillDraft(s)
  PROVE  letter'[send[s].l].status = "sent" /\ letter'[send[s].l].link = s
<1> DEFINE l == send[s].l
<1>1. l \in Papers /\ letter[l] \in LetterRows /\ letter \in [Papers -> {Mail!NoLetter} \cup LetterRows]
  BY MailShape DEF Mail!SendCommit, Drafted
<1>2. PICK pdf \in Calls \cup {None} :
        letter' = [letter EXCEPT ![l] = [letter[l] EXCEPT !.status = "sent", !.link = s, !.pdf = pdf]]
  BY DEF Mail!SendCommit, Mail!Of
<1> HIDE DEF l
<1>3. letter'[l] = [letter[l] EXCEPT !.status = "sent", !.link = s, !.pdf = pdf]
  BY <1>1, <1>2
<1>4. letter'[l].status = "sent" /\ letter'[l].link = s
  BY <1>1, <1>3 DEF LetterRows
<1> QED BY <1>4 DEF l

\* What a send does to the PDFs, to the messages and to its own letter.
LEMMA OwnStep ==
  ASSUME MailHolds, Mail!Next, NEW s \in Calls,
         \/ Mail!CheckAddress(s) \/ Mail!PrintLetter(s) \/ Mail!SendCommit(s) \/ Mail!CleanUp(s)
         \/ Mail!SealMessage(s) \/ Mail!AddMail(s) \/ Mail!PointAtMessage(s) \/ Mail!SendFails(s)
  PROVE  SendHolds(s)'
<1> DEFINE l == send[s].l
<1>0. /\ send[s].pc # "idle" /\ SendHolds(s) /\ l \in Papers /\ letter[l] # Mail!NoLetter
      /\ Mail!TypeOK /\ send'[s].l = l
  <2>1. send[s].pc # "idle"
    BY DEF Mail!CheckAddress, Mail!PrintLetter, Mail!SendCommit, Mail!CleanUp,
        Mail!SealMessage, Mail!AddMail, Mail!PointAtMessage, Mail!SendFails
  <2> QED BY <2>1, MailShape, SendsFollow DEF MailHolds, SendHolds
<1>1. /\ Same(l)
      /\ Recorded(l) => Recorded(l)'
      /\ letter[l].status = "sent" => letter'[l].status = "sent"
      /\ letter[l].disposal = "done" => letter'[l].disposal = "done"
      /\ letter[l].status = "sent" => letter'[l].link = letter[l].link \/ letter'[l].disposal = "done"
  BY <1>0, LettersFollow
<1>2. letter[l].channel \in {"email", "letter"} /\ prints \subseteq Calls
      /\ message[s] \in {"none", "sealed", "erased"}
  BY <1>0, MailShape DEF LetterRows, Mail!TypeOK
<1>a. ASSUME NEW pc \in {"address", "print", "commit", "clean up", "seal", "add", "point", "done"},
             Mail!To(s, pc)
      PROVE  send'[s].pc = pc
  BY <1>0, <1>a, SendMoves
<1>3. CASE Mail!CheckAddress(s)
  <2>1. send'[s].pc \in {"done", "commit"} /\ UNCHANGED <<prints, message>>
    BY <1>3, <1>a DEF Mail!CheckAddress, Mail!Stops
  <2> QED BY <1>0, <1>1, <1>3, <2>1 DEF Mail!CheckAddress, SendHolds, Same, Recorded
<1>4. CASE Mail!PrintLetter(s)
  <2>1. send'[s].pc = "commit" /\ prints' = prints \cup {s} /\ UNCHANGED message
    BY <1>4, <1>a DEF Mail!PrintLetter
  <2> QED BY <1>0, <1>1, <1>4, <2>1 DEF Mail!PrintLetter, SendHolds, Same, Recorded
<1>5. CASE Mail!SendCommit(s)
  <2>1. UNCHANGED <<prints, message>> /\ send[s].pc = "commit"
    BY <1>5 DEF Mail!SendCommit
  <2>2. CASE Mail!StillDraft(s)
    <3>1. send'[s].pc = IF letter[l].channel = "letter" THEN "done" ELSE "seal"
      BY <1>5, <1>a, <2>2 DEF Mail!SendCommit, Mail!Stops, Mail!Of
    <3>2. letter'[l].status = "sent" /\ letter'[l].link = s
      BY <1>5, <2>2, CommitShown, MailDrafted DEF MailHolds
    <3> QED BY <1>0, <1>1, <1>2, <2>1, <3>1, <3>2 DEF SendHolds, Same, Recorded
  <2>3. CASE ~Mail!StillDraft(s)
    <3>1. send'[s].pc = IF letter[l].channel = "letter" THEN "clean up" ELSE "done"
      BY <1>5, <1>a, <2>3 DEF Mail!SendCommit, Mail!Stops, Mail!Of
    <3> QED BY <1>0, <1>1, <1>2, <2>1, <3>1 DEF SendHolds, Same, Recorded
  <2> QED BY <2>2, <2>3
<1>6. CASE Mail!CleanUp(s)
  <2>1. send'[s].pc = "done" /\ s \notin prints' /\ UNCHANGED message
    BY <1>6, <1>a DEF Mail!CleanUp, Mail!Stops
  <2> QED BY <1>0, <1>1, <1>6, <2>1 DEF Mail!CleanUp, SendHolds, Same, Recorded
<1>7. CASE Mail!SealMessage(s)
  <2>1. send'[s].pc = "add" /\ message'[s] = "sealed" /\ UNCHANGED prints
    BY <1>0, <1>7, <1>a DEF Mail!SealMessage, Mail!TypeOK
  <2> QED BY <1>0, <1>1, <1>7, <2>1 DEF Mail!SealMessage, SendHolds, Same, Recorded
<1>8. CASE Mail!AddMail(s)
  <2>1. send'[s].pc = "point" /\ UNCHANGED <<prints, message>>
    BY <1>8, <1>a DEF Mail!AddMail
  <2> QED BY <1>0, <1>1, <1>8, <2>1 DEF Mail!AddMail, SendHolds, Same, Recorded
<1>9. CASE Mail!PointAtMessage(s)
  <2>1. send'[s].pc = "done" /\ UNCHANGED <<prints, message>>
    BY <1>9, <1>a DEF Mail!PointAtMessage, Mail!Stops
  <2> QED BY <1>0, <1>1, <1>9, <2>1 DEF Mail!PointAtMessage, SendHolds, Same, Recorded
<1>10. CASE Mail!SendFails(s)
  <2>1. send'[s].pc = "done" /\ UNCHANGED <<prints, message>>
    BY <1>10, <1>a DEF Mail!SendFails, Mail!Stops
  <2> QED BY <1>0, <1>1, <2>1 DEF SendHolds, Same, Recorded
<1> QED BY <1>3, <1>4, <1>5, <1>6, <1>7, <1>8, <1>9, <1>10

LEMMA SendsHold ==
  ASSUME MailHolds, Mail!Next, NEW s \in Calls
  PROVE  SendHolds(s)'
<1>0. /\ SendHolds(s) /\ Mail!TypeOK
      /\ send \in [Calls -> {Mail!Idle} \cup SendRows]
      /\ message \in [Calls -> {"none", "sealed", "erased"}]
  BY MailShape DEF MailHolds, Mail!TypeOK
<1>1. ASSUME NEW l \in Papers, Mail!EraseObject(l)
      PROVE  SendHolds(s)'
  <2>1. UNCHANGED <<send, message>> /\ prints' = prints \ {letter[l].pdf} /\ letter[l] # Mail!NoLetter
    BY <1>1 DEF Mail!EraseObject, Mail!RestUnchanged
  <2>2. ASSUME s \in prints, send[s].pc = "commit"
        PROVE  s # letter[l].pdf
    <3>1. LetterHolds(l)
      BY DEF MailHolds
    <3> QED BY <2>1, <2>2, <3>1, NoneIsNoCall DEF LetterHolds, Beyond
  <2> QED BY <2>1, <2>2, SendKept
<1>2. ASSUME NEW l \in Papers, Mail!EraseLetter(l)
      PROVE  SendHolds(s)'
  <2>1. UNCHANGED <<send, prints>> /\ letter[l] # Mail!NoLetter
        /\ message'[s] = IF s = letter[l].message THEN "erased" ELSE message[s]
    BY <1>2 DEF Mail!EraseLetter, Mail!RestUnchanged
  <2>2. s = letter[l].message => message[s] # "none"
    <3>1. LetterHolds(l)
      BY DEF MailHolds
    <3> QED BY <2>1, <3>1, NoneIsNoCall DEF LetterHolds
  <2>3. (message'[s] = "none") = (message[s] = "none")
    BY <2>1, <2>2
  <2> QED BY <2>1, <2>3, SendKept
<1>3. ASSUME NEW t \in Calls,
             \/ Mail!CheckAddress(t) \/ Mail!PrintLetter(t) \/ Mail!SendCommit(t) \/ Mail!CleanUp(t)
             \/ Mail!SealMessage(t) \/ Mail!AddMail(t) \/ Mail!PointAtMessage(t) \/ Mail!SendFails(t)
      PROVE  SendHolds(s)'
  <2>1. CASE t = s
    BY <1>3, <2>1, OwnStep
  <2>2. CASE t # s
    <3>1. send'[s] = send[s]
      <4>1. send[t].pc # "idle"
        BY <1>3 DEF Mail!CheckAddress, Mail!PrintLetter, Mail!SendCommit, Mail!CleanUp,
              Mail!SealMessage, Mail!AddMail, Mail!PointAtMessage, Mail!SendFails
      <4>2. \E pc \in {"address", "print", "commit", "clean up", "seal", "add", "point", "done"} : Mail!To(t, pc)
        BY <1>3 DEF Mail!CheckAddress, Mail!PrintLetter, Mail!SendCommit, Mail!CleanUp,
              Mail!SealMessage, Mail!AddMail, Mail!PointAtMessage, Mail!SendFails, Mail!Stops
      <4> QED BY <1>0, <2>2, <4>1, <4>2, SendMoves
    <3>2. prints' \in {prints, prints \cup {t}, prints \ {t}}
      BY <1>3 DEF Mail!CheckAddress, Mail!PrintLetter, Mail!SendCommit, Mail!CleanUp, Mail!SendUnchanged,
            Mail!SealMessage, Mail!AddMail, Mail!PointAtMessage, Mail!SendFails
    <3>3. message' \in {message, [message EXCEPT ![t] = "sealed"]}
      BY <1>3 DEF Mail!CheckAddress, Mail!PrintLetter, Mail!SendCommit, Mail!CleanUp, Mail!SendUnchanged,
            Mail!SealMessage, Mail!AddMail, Mail!PointAtMessage, Mail!SendFails
    <3>4. message'[s] = message[s]
      BY <1>0, <2>2, <3>3
    <3> QED BY <2>2, <3>1, <3>2, <3>4, SendKept
  <2> QED BY <2>1, <2>2
<1>4. ASSUME NEW t \in Calls, NEW l \in Papers, Mail!SendRead(t, l)
      PROVE  SendHolds(s)'
  <2>1. PICK pc \in {"print", "address"} :
          /\ send' = [send EXCEPT ![t] = [pc |-> pc, l |-> l]]
          /\ pc = IF letter[l].channel = "letter" THEN "print" ELSE "address"
    BY <1>4 DEF Mail!SendRead
  <2>2. UNCHANGED <<letter, record, prints, message>> /\ letter[l] # Mail!NoLetter /\ Mail!Sendable(l)
        /\ send[t].pc = "idle"
    BY <1>4, MailShape, <1>0 DEF Mail!SendRead, Mail!SendUnchanged
  <2>3. CASE t = s
    <3>1. send'[s].pc = pc /\ send'[s].l = l
      BY <1>0, <2>1, <2>3
    <3>2. letter[l].channel \in {"email", "letter"} /\ letter[l].kind \in Mail!Kinds
      BY <1>0, <2>2, MailShape DEF LetterRows
    <3>3. Recorded(l)
      BY <2>2, <3>2 DEF Mail!Sendable, Mail!Kinds, Recorded
    <3> QED BY <1>0, <2>1, <2>2, <2>3, <3>1, <3>2, <3>3 DEF SendHolds, Recorded
  <2>4. CASE t # s
    BY <1>0, <2>1, <2>2, <2>4, SendKept
  <2> QED BY <2>3, <2>4
<1>5. CASE UNCHANGED <<send, prints, message>>
  BY <1>5, SendKept
<1> QED BY <1>1, <1>2, <1>3, <1>4, <1>5
        DEF Mail!Next, Mail!RecordMoves, Mail!RecordSuppression, Mail!ClearSuppression,
            Mail!DraftCorrespondence, Mail!RestUnchanged,
            Mail!MailStalled, Mail!TakeMail, Mail!CheckMail, Mail!PostMail, Mail!RelayRefuses,
            Mail!MailDone, Mail!PosterDies, Mail!MailUnchanged

\* A PDF goes with the row that names it, or by the send that made it in vain.
LEMMA PrintsFollow ==
  ASSUME MailHolds, Mail!Next, NEW s \in prints, s \notin prints'
  PROVE  (\E l \in Papers : Mail!EraseObject(l) /\ letter[l].pdf = s) \/ Mail!CleanUp(s)
BY DEF Mail!Next, Mail!RecordMoves, Mail!RecordSuppression, Mail!ClearSuppression,
       Mail!DraftCorrespondence, Mail!EraseObject, Mail!EraseLetter,
       Mail!SendRead, Mail!CheckAddress, Mail!PrintLetter, Mail!SendCommit, Mail!CleanUp,
       Mail!SealMessage, Mail!AddMail, Mail!PointAtMessage, Mail!SendFails, Mail!SendUnchanged,
       Mail!MailStalled, Mail!TakeMail, Mail!CheckMail, Mail!PostMail, Mail!RelayRefuses,
       Mail!MailDone, Mail!PosterDies, Mail!MailUnchanged

LEMMA LettersHold ==
  ASSUME MailHolds, Mail!Next, NEW l \in Papers
  PROVE  LetterHolds(l)'
<1>0. /\ LetterHolds(l) /\ Mail!TypeOK /\ Drafted
      /\ letter \in [Papers -> {Mail!NoLetter} \cup LetterRows]
      /\ letter[l] # Mail!NoLetter => letter[l] \in LetterRows
  BY MailShape, MailDrafted DEF MailHolds
<1>1. ASSUME letter[l] # Mail!NoLetter, Mail!Sent(l), letter[l].disposal = "none", letter[l].channel = "letter",
             ~Mail!EraseObject(l)
      PROVE  letter[l].pdf = letter[l].link /\ letter[l].pdf \in prints'
  <2> DEFINE s == letter[l].pdf
  <2>1. s = letter[l].link /\ s \in prints /\ s \in Calls /\ send[s].l = l /\ send[s].pc \in Beyond
    BY <1>0, <1>1, NoneIsNoCall DEF LetterHolds, Mail!TypeOK
  <2>2. ASSUME NEW k \in Papers, Mail!EraseObject(k), letter[k].pdf = s
        PROVE  FALSE
    <3>1. LetterHolds(k) /\ letter[k] # Mail!NoLetter
      BY <2>2 DEF MailHolds, Mail!EraseObject
    <3> QED BY <1>1, <2>1, <2>2, <3>1, NoneIsNoCall DEF LetterHolds
  <2>3. ~Mail!CleanUp(s)
    BY <2>1 DEF Mail!CleanUp, Beyond
  <2> QED BY <2>1, <2>2, <2>3, PrintsFollow
<1>2. ASSUME letter[l] # Mail!NoLetter
      PROVE  /\ Same(l)
             /\ Recorded(l) => Recorded(l)'
             /\ letter[l].status = "sent" => letter'[l].status = "sent"
             /\ letter[l].link \in Calls => send'[letter[l].link].l = l /\ send'[letter[l].link].pc \in Beyond
             /\ letter[l].message \in Calls =>
                  message'[letter[l].message] # "none" /\ send'[letter[l].message].l = l
             /\ letter[l].link \in Calls \cup {None} /\ letter[l].message \in Calls \cup {None}
             /\ letter[l].status \in {"draft", "sent"}
  <2>1. letter[l].link \in Calls \cup {None} /\ letter[l].message \in Calls \cup {None}
        /\ letter[l].status \in {"draft", "sent"}
    BY <1>0, <1>2 DEF LetterRows
  <2>2. letter[l].link \in Calls => send'[letter[l].link].l = l /\ send'[letter[l].link].pc \in Beyond
    BY <1>0, <1>2, NoneIsNoCall, SendsFollow DEF LetterHolds, Beyond
  <2>3. ASSUME letter[l].message \in Calls
        PROVE  message'[letter[l].message] # "none" /\ send'[letter[l].message].l = l
    <3>1. message[letter[l].message] # "none" /\ send[letter[l].message].l = l
      BY <1>0, <1>2, <2>3, NoneIsNoCall DEF LetterHolds
    <3>2. send[letter[l].message].pc # "idle"
      BY <2>3, <3>1 DEF MailHolds, SendHolds
    <3> QED BY <1>0, <2>3, <3>1, <3>2, SendsFollow
  <2> QED BY <1>2, <2>1, <2>2, <2>3, LettersFollow
<1>3. CASE letter'[l] = letter[l]
  <2>1. ~Mail!EraseObject(l) \/ letter[l] = Mail!NoLetter
    <3>1. ASSUME Mail!EraseObject(l), letter[l] \in LetterRows
          PROVE  FALSE
      <4>1. letter' = [letter EXCEPT ![l] = [letter[l] EXCEPT !.disposal = "begun"]] /\ letter[l].disposal = "none"
        BY <3>1 DEF Mail!EraseObject
      <4>2. letter'[l].disposal = "begun"
        BY <1>0, <3>1, <4>1 DEF LetterRows
      <4> QED BY <1>3, <4>1, <4>2
    <3> QED BY <1>0, <3>1
  <2> QED BY <1>0, <1>1, <1>2, <1>3, <2>1 DEF LetterHolds, Mail!Sent, Recorded
<1>4. CASE Drafts(l)
  BY <1>4 DEF Drafts, LetterHolds, Mail!Sent
<1>5. CASE Begins(l)
  BY <1>0, <1>2, <1>5 DEF Begins, Same, LetterHolds, Mail!Sent
<1>6. CASE Erases(l)
  BY <1>0, <1>2, <1>6 DEF Erases, Same, LetterHolds, Mail!Sent
<1>7. ASSUME NEW s \in Calls, Commits(s, l)
      PROVE  LetterHolds(l)'
  <2>1. /\ send[s].pc = "commit" /\ SendHolds(s) /\ UNCHANGED prints
        /\ Recorded(l) /\ letter[l].message = None
        /\ letter'[l].channel \in {"email", "letter"} /\ letter'[l].channel = letter[l].channel
    BY <1>0, <1>7 DEF Commits, Same, Mail!SendCommit, MailHolds, SendHolds, LetterHolds, LetterRows
  <2>2. send'[s].l = l /\ send'[s].pc \in {"done", "seal"}
    <3>1. send[s].pc # "idle" /\ Mail!StillDraft(s)
      BY <1>7 DEF Commits, Mail!SendCommit, Mail!StillDraft, Mail!Of
    <3>2. Mail!To(s, "done") \/ Mail!To(s, "seal")
      BY <1>7, <3>1 DEF Commits, Mail!SendCommit, Mail!Stops
    <3> QED BY <1>0, <1>7, <3>1, <3>2, SendMoves DEF Commits
  <2>3. letter[l].channel = "letter" => s \in prints'
    BY <1>7, <2>1 DEF Commits, SendHolds
  <2> QED BY <1>0, <1>2, <1>7, <2>1, <2>2, <2>3 DEF Commits, Same, LetterHolds, Mail!Sent, Beyond
<1>8. ASSUME NEW s \in Calls, Points(s, l)
      PROVE  LetterHolds(l)'
  <2>1. /\ send[s].pc = "point" /\ SendHolds(s) /\ send[s].l = l /\ ~Mail!EraseObject(l)
        /\ message'[s] # "none" /\ send'[s].l = l
    <3>1. send[s].pc = "point" /\ SendHolds(s) /\ send[s].l = l
      BY <1>8 DEF Points, Mail!PointAtMessage, MailHolds
    <3>2. message'[s] # "none" /\ send'[s].l = l
      BY <1>0, <3>1, SendsFollow DEF SendHolds
    <3>3. ~Mail!EraseObject(l)
      <4>1. ASSUME Mail!EraseObject(l)
            PROVE  FALSE
        <5>1. UNCHANGED send
          BY <4>1 DEF Mail!EraseObject, Mail!RestUnchanged
        <5>2. send'[s].pc = "done"
          BY <1>0, <1>8, <3>1, SendMoves DEF Points, Mail!PointAtMessage, Mail!Stops
        <5> QED BY <3>1, <5>1, <5>2
      <4> QED BY <4>1
    <3> QED BY <3>1, <3>2, <3>3
  <2>2. letter[l].status = "sent"
    BY <2>1 DEF SendHolds
  <2> QED BY <1>0, <1>1, <1>2, <1>8, <2>1, <2>2 DEF Points, Same, LetterHolds, Mail!Sent
<1> QED BY <1>0, <1>3, <1>4, <1>5, <1>6, <1>7, <1>8, LetterCases

\* A job is added by a send that goes on, and while nothing fails it is one
\* worker's until it is posted.
Carried(w) ==
  poster[w].pc # "idle" =>
    /\ outbox[poster[w].s] = "active"
    /\ poster[w].pc \in {"check", "post", "throw"} => mails[poster[w].s] = 0
Queued(s) ==
  /\ outbox[s] \in {"none", "queued"} => mails[s] = 0
  /\ mails[s] <= 1
  /\ outbox[s] = "active" => \E w \in Posters : poster[w].pc # "idle" /\ poster[w].s = s
OneCarrier ==
  \A v, w \in Posters :
    poster[v].pc # "idle" /\ poster[w].pc # "idle" /\ poster[v].s = poster[w].s => v = w
PostHolds ==
  /\ \A s \in Calls : outbox[s] # "none" => send[s].pc \in {"point", "done"}
  /\ \A w \in Posters : poster[w].pc # "idle" => outbox[poster[w].s] # "none"
  /\ losses = 0 =>
       OneCarrier /\ (\A w \in Posters : Carried(w)) /\ (\A s \in Calls : Queued(s))

\* What a worker's step does to the workers.
LEMMA PosterMoves ==
  ASSUME Mail!TypeOK, NEW w \in Posters, poster[w].pc # "idle",
         NEW pc \in {"check", "post", "finish", "throw"}, Mail!Onward(w, pc)
  PROVE  /\ poster'[w].pc = pc /\ poster'[w].s = poster[w].s
         /\ \A v \in Posters : v # w => poster'[v] = poster[v]
<1>1. poster \in [Posters -> {Mail!Idle} \cup PostRows] /\ poster[w] \in PostRows
  BY MailShape
<1>2. poster' = [poster EXCEPT ![w] = [poster[w] EXCEPT !.pc = pc]]
  BY DEF Mail!Onward
<1>3. [poster[w] EXCEPT !.pc = pc].pc = pc /\ [poster[w] EXCEPT !.pc = pc].s = poster[w].s
  BY <1>1 DEF PostRows
<1> HIDE DEF PostRows
<1> QED BY <1>1, <1>2, <1>3

LEMMA PostStep ==
  ASSUME MailHolds, PostHolds, Mail!Next
  PROVE  PostHolds'
<1>0. /\ Mail!TypeOK
      /\ poster \in [Posters -> {Mail!Idle} \cup PostRows]
      /\ outbox \in [Calls -> {"none", "queued", "active", "finished"}]
      /\ mails \in [Calls -> Nat] /\ losses \in Nat
      /\ \A w \in Posters : poster[w].pc # "idle" => poster[w].s \in Calls
  <2>1. Mail!TypeOK
    BY DEF MailHolds
  <2>2. losses \in Nat
    <3>1. losses \in 0 .. MaxLosses
      BY <2>1 DEF Mail!TypeOK
    <3> QED BY <3>1, OfficeAssumption
  <2>3. outbox \in [Calls -> {"none", "queued", "active", "finished"}] /\ mails \in [Calls -> Nat]
    BY <2>1 DEF Mail!TypeOK
  <2> QED BY <2>1, <2>2, <2>3, MailShape
<1>1. ASSUME NEW s \in Calls, outbox'[s] # "none"
      PROVE  send'[s].pc \in {"point", "done"}
  <2>1. CASE outbox[s] # "none"
    BY <1>0, <2>1, SendsFollow DEF PostHolds
  <2>2. ASSUME NEW t \in Calls, Mail!AddMail(t)
        PROVE  outbox'[s] = outbox[s] \/ send'[s].pc = "point"
    <3>1. send[t].pc # "idle" /\ Mail!To(t, "point") /\ outbox' = [outbox EXCEPT ![t] = "queued"]
      BY <2>2 DEF Mail!AddMail
    <3>2. send'[t].pc = "point"
      BY <1>0, <3>1, SendMoves
    <3> QED BY <1>0, <3>1, <3>2
  <2>3. ASSUME NEW t \in Calls, outbox[t] # "none", NEW at, outbox' = [outbox EXCEPT ![t] = at]
        PROVE  outbox[s] # "none" \/ outbox'[s] = outbox[s]
    BY <1>0, <2>3
  <2>4. ASSUME NEW t \in Calls, Mail!MailStalled(t) \/ \E w \in Posters : Mail!TakeMail(w, t)
        PROVE  outbox[s] # "none" \/ outbox'[s] = outbox[s]
    BY <2>3, <2>4 DEF Mail!MailStalled, Mail!TakeMail
  <2>5. ASSUME NEW w \in Posters, Mail!MailDone(w)
        PROVE  outbox[s] # "none" \/ outbox'[s] = outbox[s]
    <3>1. poster[w].s \in Calls /\ outbox[poster[w].s] # "none"
      BY <1>0, <2>5 DEF Mail!MailDone, PostHolds
    <3> QED BY <2>3, <2>5, <3>1 DEF Mail!MailDone, Mail!Mail
  <2> QED BY <1>1, <2>1, <2>2, <2>4, <2>5
        DEF Mail!Next, Mail!RecordMoves, Mail!RecordSuppression, Mail!ClearSuppression,
            Mail!DraftCorrespondence, Mail!EraseObject, Mail!EraseLetter, Mail!RestUnchanged,
            Mail!SendRead, Mail!CheckAddress, Mail!PrintLetter, Mail!SendCommit, Mail!CleanUp,
            Mail!SealMessage, Mail!PointAtMessage, Mail!SendFails, Mail!SendUnchanged,
            Mail!CheckMail, Mail!PostMail, Mail!RelayRefuses, Mail!PosterDies
<1> DEFINE Queues == \A w \in Posters : poster'[w].pc # "idle" => outbox'[poster'[w].s] # "none"
           Rest == losses' = 0 =>
                     OneCarrier' /\ (\A w \in Posters : Carried(w)') /\ (\A s \in Calls : Queued(s)')
<1>2. losses' = 0 => losses = 0 /\ UNCHANGED losses
  <2>1. ~(Mail!Lose /\ losses' = 0)
    BY <1>0 DEF Mail!Lose
  <2> QED BY <2>1
        DEF Mail!Next, Mail!RecordMoves, Mail!RecordSuppression, Mail!ClearSuppression,
            Mail!DraftCorrespondence, Mail!EraseObject, Mail!EraseLetter, Mail!RestUnchanged,
            Mail!SendRead, Mail!CheckAddress, Mail!PrintLetter, Mail!SendCommit, Mail!CleanUp,
            Mail!SealMessage, Mail!AddMail, Mail!PointAtMessage, Mail!SendFails,
            Mail!MailStalled, Mail!TakeMail, Mail!CheckMail, Mail!PostMail, Mail!RelayRefuses,
            Mail!MailDone, Mail!PosterDies
<1>3. ASSUME UNCHANGED <<outbox, poster, mails>>
      PROVE  Queues /\ Rest
  BY <1>2, <1>3 DEF PostHolds, OneCarrier, Carried, Queued
<1>4. ASSUME NEW s \in Calls, Mail!AddMail(s)
      PROVE  Queues /\ Rest
  <2>1. /\ outbox' = [outbox EXCEPT ![s] = "queued"] /\ UNCHANGED <<poster, mails>>
        /\ outbox[s] = "none"
    BY <1>0, <1>4 DEF Mail!AddMail, PostHolds
  <2> QED BY <1>0, <1>2, <2>1 DEF PostHolds, OneCarrier, Carried, Queued
<1>5. ASSUME NEW s \in Calls, Mail!MailStalled(s)
      PROVE  Queues /\ Rest
  <2>1. PICK at \in {"queued", "finished"} : outbox' = [outbox EXCEPT ![s] = at]
    BY <1>5 DEF Mail!MailStalled
  <2>2. UNCHANGED <<poster, mails>> /\ outbox[s] = "active"
    BY <1>5 DEF Mail!MailStalled
  <2>3. \A w \in Posters : poster[w].pc # "idle" => poster[w].s # s
    BY <1>0, <1>5, MailShape DEF Mail!MailStalled, Mail!Mail
  <2>4. losses # 0
    BY <2>2, <2>3 DEF PostHolds, Queued
  <2> QED BY <1>0, <1>2, <2>1, <2>2, <2>4 DEF PostHolds
<1>6. ASSUME NEW s \in Calls, NEW w \in Posters, Mail!TakeMail(w, s)
      PROVE  Queues /\ Rest
  <2>1. /\ outbox' = [outbox EXCEPT ![s] = "active"] /\ UNCHANGED mails /\ outbox[s] = "queued"
        /\ poster' = [poster EXCEPT ![w] = [pc |-> "check", s |-> s]] /\ poster[w].pc = "idle"
    BY <1>0, <1>6, MailShape DEF Mail!TakeMail
  <2>2. /\ poster'[w].pc = "check" /\ poster'[w].s = s /\ \A v \in Posters : v # w => poster'[v] = poster[v]
        /\ outbox'[s] = "active" /\ \A t \in Calls : t # s => outbox'[t] = outbox[t]
    BY <1>0, <2>1
  <2>3. ASSUME losses = 0
        PROVE  /\ mails[s] = 0
               /\ \A v \in Posters : poster[v].pc # "idle" => poster[v].s # s
    BY <2>1, <2>3 DEF PostHolds, Queued, Carried
  <2>4. Queues
    BY <1>0, <2>2 DEF PostHolds
  <2>5. ASSUME losses' = 0
        PROVE  OneCarrier' /\ (\A v \in Posters : Carried(v)') /\ (\A t \in Calls : Queued(t)')
    <3>1. losses = 0 /\ OneCarrier /\ (\A v \in Posters : Carried(v)) /\ (\A t \in Calls : Queued(t))
      BY <1>2, <2>5 DEF PostHolds
    <3>2. OneCarrier'
      BY <1>0, <2>2, <2>3, <3>1 DEF OneCarrier
    <3>3. ASSUME NEW v \in Posters
          PROVE  Carried(v)'
      BY <1>0, <2>1, <2>2, <2>3, <3>1 DEF Carried
    <3>4. ASSUME NEW t \in Calls
          PROVE  Queued(t)'
      BY <1>0, <2>1, <2>2, <2>3, <3>1 DEF Queued
    <3> QED BY <3>2, <3>3, <3>4
  <2> QED BY <2>4, <2>5
<1>a. ASSUME NEW w \in Posters, poster[w].pc # "idle",
             NEW pc \in {"check", "post", "finish", "throw"}, Mail!Onward(w, pc),
             UNCHANGED <<outbox, mails>>,
             losses' = 0 /\ poster[w].pc = "finish" => pc = "finish"
      PROVE  Queues /\ Rest
  <2>1. poster'[w].pc = pc /\ poster'[w].s = poster[w].s /\ \A v \in Posters : v # w => poster'[v] = poster[v]
    BY <1>0, <1>a, PosterMoves
  <2>2. poster[w].pc \in {"check", "post", "finish", "throw"}
    BY <1>0, <1>a, MailShape DEF PostRows
  <2>3. Queues
    BY <1>a, <2>1 DEF PostHolds
  <2>4. ASSUME losses' = 0
        PROVE  OneCarrier' /\ (\A v \in Posters : Carried(v)') /\ (\A t \in Calls : Queued(t)')
    <3>1. losses = 0 /\ OneCarrier /\ (\A v \in Posters : Carried(v)) /\ (\A t \in Calls : Queued(t))
      BY <1>2, <2>4 DEF PostHolds
    <3>2. OneCarrier'
      BY <1>a, <2>1, <3>1 DEF OneCarrier
    <3>3. ASSUME NEW v \in Posters
          PROVE  Carried(v)'
      BY <1>a, <2>1, <2>2, <2>4, <3>1 DEF Carried
    <3>4. ASSUME NEW t \in Calls
          PROVE  Queued(t)'
      BY <1>a, <2>1, <3>1 DEF Queued
    <3> QED BY <3>2, <3>3, <3>4
  <2> QED BY <2>3, <2>4
<1>7. ASSUME NEW w \in Posters, Mail!CheckMail(w)
      PROVE  Queues /\ Rest
  BY <1>a, <1>7 DEF Mail!CheckMail, Mail!MailUnchanged
<1>8. ASSUME NEW w \in Posters, Mail!PostMail(w)
      PROVE  Queues /\ Rest
  <2> DEFINE s == poster[w].s
  <2>1. /\ poster[w].pc = "post" /\ s \in Calls /\ UNCHANGED outbox
        /\ mails' = [mails EXCEPT ![s] = mails[s] + 1]
    BY <1>0, <1>8 DEF Mail!PostMail, Mail!Mail
  <2>2. poster'[w].pc = "finish" /\ poster'[w].s = s /\ \A v \in Posters : v # w => poster'[v] = poster[v]
    BY <1>0, <1>8, PosterMoves DEF Mail!PostMail
  <2>3. Queues
    BY <2>1, <2>2 DEF PostHolds
  <2>4. ASSUME losses' = 0
        PROVE  OneCarrier' /\ (\A v \in Posters : Carried(v)') /\ (\A t \in Calls : Queued(t)')
    <3>1. losses = 0 /\ OneCarrier /\ (\A v \in Posters : Carried(v)) /\ (\A t \in Calls : Queued(t))
      BY <1>2, <2>4 DEF PostHolds
    <3>2. OneCarrier'
      BY <2>1, <2>2, <3>1 DEF OneCarrier
    <3>a. outbox[s] = "active" /\ mails[s] = 0
      BY <2>1, <3>1 DEF Carried
    <3>b. mails'[s] = 1 /\ \A t \in Calls : t # s => mails'[t] = mails[t]
      BY <1>0, <2>1, <3>a
    <3>3. ASSUME NEW v \in Posters
          PROVE  Carried(v)'
      <4>1. v # w /\ poster[v].pc # "idle" => poster[v].s # s /\ poster[v].s \in Calls
        BY <1>0, <2>1, <3>1 DEF OneCarrier
      <4> QED BY <2>1, <2>2, <3>1, <3>a, <3>b, <4>1 DEF Carried
    <3>4. ASSUME NEW t \in Calls
          PROVE  Queued(t)'
      <4>1. CASE t = s
        BY <2>1, <2>2, <3>a, <3>b, <4>1 DEF Queued
      <4>2. CASE t # s
        BY <2>1, <2>2, <3>1, <3>b, <4>2 DEF Queued
      <4> QED BY <4>1, <4>2
    <3> QED BY <3>2, <3>3, <3>4
  <2> QED BY <2>3, <2>4
<1>9. ASSUME NEW w \in Posters, Mail!RelayRefuses(w)
      PROVE  Queues /\ Rest
  BY <1>a, <1>9 DEF Mail!RelayRefuses, Mail!MailUnchanged
<1>10. ASSUME NEW w \in Posters, Mail!MailDone(w)
       PROVE  Queues /\ Rest
  <2> DEFINE s == poster[w].s
  <2>1. PICK at \in {"queued", "finished"} :
          /\ outbox' = [outbox EXCEPT ![s] = at]
          /\ at = "queued" => poster[w].pc = "throw"
    BY <1>10 DEF Mail!MailDone, Mail!Mail
  <2>2. /\ poster[w].pc \in {"finish", "throw"} /\ s \in Calls /\ UNCHANGED mails
        /\ poster' = [poster EXCEPT ![w] = Mail!Idle]
    BY <1>0, <1>10 DEF Mail!MailDone
  <2>3. poster'[w].pc = "idle" /\ \A v \in Posters : v # w => poster'[v] = poster[v]
    BY <1>0, <2>2 DEF Mail!Idle
  <2>4. outbox'[s] = at /\ \A t \in Calls : t # s => outbox'[t] = outbox[t]
    BY <1>0, <2>1, <2>2
  <2>5. Queues
    BY <1>0, <2>3, <2>4 DEF PostHolds
  <2>6. ASSUME losses' = 0
        PROVE  OneCarrier' /\ (\A v \in Posters : Carried(v)') /\ (\A t \in Calls : Queued(t)')
    <3>1. losses = 0 /\ OneCarrier /\ (\A v \in Posters : Carried(v)) /\ (\A t \in Calls : Queued(t))
      BY <1>2, <2>6 DEF PostHolds
    <3>2. OneCarrier'
      BY <2>3, <3>1 DEF OneCarrier
    <3>a. ASSUME NEW v \in Posters, v # w, poster[v].pc # "idle"
          PROVE  poster[v].s # s /\ poster[v].s \in Calls
      BY <1>0, <2>2, <3>1, <3>a DEF OneCarrier
    <3>3. ASSUME NEW v \in Posters
          PROVE  Carried(v)'
      BY <2>2, <2>3, <2>4, <3>1, <3>a DEF Carried
    <3>4. ASSUME NEW t \in Calls
          PROVE  Queued(t)'
      <4>1. CASE t = s
        <5>1. mails[s] <= 1 /\ (at = "queued" => mails[s] = 0)
          BY <2>1, <2>2, <3>1 DEF Queued, Carried
        <5> QED BY <2>2, <2>4, <4>1, <5>1 DEF Queued
      <4>2. CASE t # s
        BY <2>2, <2>3, <2>4, <3>1, <4>2 DEF Queued
      <4> QED BY <4>1, <4>2
    <3> QED BY <3>2, <3>3, <3>4
  <2> QED BY <2>5, <2>6
<1>11. ASSUME NEW w \in Posters, Mail!PosterDies(w)
       PROVE  Queues /\ Rest
  <2>1. losses' # 0
    BY <1>0, <1>11 DEF Mail!PosterDies, Mail!Lose
  <2>2. poster' = [poster EXCEPT ![w] = Mail!Idle] /\ UNCHANGED outbox
    BY <1>11 DEF Mail!PosterDies
  <2> QED BY <1>0, <2>1, <2>2 DEF PostHolds, Mail!Idle
<1>12. Queues /\ Rest
  BY <1>3, <1>4, <1>5, <1>6, <1>7, <1>8, <1>9, <1>10, <1>11
        DEF Mail!Next, Mail!RecordMoves, Mail!RecordSuppression, Mail!ClearSuppression,
            Mail!DraftCorrespondence, Mail!EraseObject, Mail!EraseLetter, Mail!RestUnchanged,
            Mail!SendRead, Mail!CheckAddress, Mail!PrintLetter, Mail!SendCommit, Mail!CleanUp,
            Mail!SealMessage, Mail!PointAtMessage, Mail!SendFails, Mail!SendUnchanged
<1> QED BY <1>1, <1>12 DEF PostHolds

\* A send moves by its own steps, is stopped, or is as it was.
LEMMA SendCases ==
  ASSUME MailHolds, Mail!Next, NEW s \in Calls
  PROVE  \/ send'[s] = send[s]
         \/ /\ \E l \in Papers : Mail!SendRead(s, l) /\ send'[s].l = l
            /\ send'[s].pc \in {"print", "address"}
         \/ /\ \/ Mail!CheckAddress(s) \/ Mail!PrintLetter(s) \/ Mail!SendCommit(s) \/ Mail!CleanUp(s)
               \/ Mail!SealMessage(s) \/ Mail!AddMail(s) \/ Mail!PointAtMessage(s) \/ Mail!SendFails(s)
            /\ send[s].pc \notin {"idle", "done"} /\ send'[s].l = send[s].l
<1>0. Mail!TypeOK /\ send \in [Calls -> {Mail!Idle} \cup SendRows]
  BY MailShape DEF MailHolds
<1> DEFINE Own(t) == \/ Mail!CheckAddress(t) \/ Mail!PrintLetter(t) \/ Mail!SendCommit(t) \/ Mail!CleanUp(t)
                     \/ Mail!SealMessage(t) \/ Mail!AddMail(t) \/ Mail!PointAtMessage(t) \/ Mail!SendFails(t)
<1>1. ASSUME NEW t \in Calls, Own(t)
      PROVE  /\ send[t].pc \notin {"idle", "done"} /\ send'[t].l = send[t].l
             /\ t # s => send'[s] = send[s]
  <2>1. send[t].pc \notin {"idle", "done"}
    BY <1>1 DEF Mail!CheckAddress, Mail!PrintLetter, Mail!SendCommit, Mail!CleanUp,
          Mail!SealMessage, Mail!AddMail, Mail!PointAtMessage, Mail!SendFails
  <2>2. \E pc \in {"address", "print", "commit", "clean up", "seal", "add", "point", "done"} : Mail!To(t, pc)
    BY <1>1 DEF Mail!CheckAddress, Mail!PrintLetter, Mail!SendCommit, Mail!CleanUp,
          Mail!SealMessage, Mail!AddMail, Mail!PointAtMessage, Mail!SendFails, Mail!Stops
  <2> QED BY <1>0, <2>1, <2>2, SendMoves
<1>2. ASSUME NEW t \in Calls, NEW l \in Papers, Mail!SendRead(t, l)
      PROVE  /\ send'[t].l = l /\ send'[t].pc \in {"print", "address"}
             /\ t # s => send'[s] = send[s]
  <2>1. PICK pc \in {"print", "address"} : send' = [send EXCEPT ![t] = [pc |-> pc, l |-> l]]
    BY <1>2 DEF Mail!SendRead
  <2> QED BY <1>0, <2>1
<1>3. (\E t \in Calls : Own(t)) \/ (\E t \in Calls, l \in Papers : Mail!SendRead(t, l)) \/ UNCHANGED send
  BY DEF Mail!Next, Mail!RecordMoves, Mail!RecordSuppression, Mail!ClearSuppression,
            Mail!DraftCorrespondence, Mail!EraseObject, Mail!EraseLetter, Mail!RestUnchanged,
            Mail!MailStalled, Mail!TakeMail, Mail!CheckMail, Mail!PostMail, Mail!RelayRefuses,
            Mail!MailDone, Mail!PosterDies, Mail!MailUnchanged
<1>4. CASE \E t \in Calls : Own(t)
  BY <1>1, <1>4
<1>5. CASE \E t \in Calls, l \in Papers : Mail!SendRead(t, l)
  BY <1>2, <1>5
<1> QED BY <1>3, <1>4, <1>5

\* Prints are made, and messages sealed, by the send they are of.
LEMMA MadeBySends ==
  ASSUME MailHolds, Mail!Next, NEW s \in Calls
  PROVE  /\ s \in prints' => s \in prints \/ Mail!PrintLetter(s)
         /\ \/ message'[s] = message[s] \/ Mail!SealMessage(s)
            \/ \E l \in Papers : Mail!EraseLetter(l) /\ message'[s] = "erased"
<1>0. message \in [Calls -> {"none", "sealed", "erased"}]
  BY DEF MailHolds, Mail!TypeOK
<1>1. s \in prints' => s \in prints \/ Mail!PrintLetter(s)
  BY DEF Mail!Next, Mail!RecordMoves, Mail!RecordSuppression, Mail!ClearSuppression,
       Mail!DraftCorrespondence, Mail!EraseObject, Mail!EraseLetter,
       Mail!SendRead, Mail!CheckAddress, Mail!PrintLetter, Mail!SendCommit, Mail!CleanUp,
       Mail!SealMessage, Mail!AddMail, Mail!PointAtMessage, Mail!SendFails, Mail!SendUnchanged,
       Mail!MailStalled, Mail!TakeMail, Mail!CheckMail, Mail!PostMail, Mail!RelayRefuses,
       Mail!MailDone, Mail!PosterDies, Mail!MailUnchanged
<1>2. ASSUME NEW t \in Calls, Mail!SealMessage(t)
      PROVE  message'[s] = message[s] \/ t = s
  BY <1>0, <1>2 DEF Mail!SealMessage
<1>3. ASSUME NEW l \in Papers, Mail!EraseLetter(l)
      PROVE  message'[s] = message[s] \/ message'[s] = "erased"
  BY <1>3 DEF Mail!EraseLetter
<1> QED BY <1>1, <1>2, <1>3
        DEF Mail!Next, Mail!RecordMoves, Mail!RecordSuppression, Mail!ClearSuppression,
            Mail!DraftCorrespondence, Mail!EraseObject,
            Mail!SendRead, Mail!CheckAddress, Mail!PrintLetter, Mail!SendCommit, Mail!CleanUp,
            Mail!AddMail, Mail!PointAtMessage, Mail!SendFails, Mail!SendUnchanged,
            Mail!MailStalled, Mail!TakeMail, Mail!CheckMail, Mail!PostMail, Mail!RelayRefuses,
            Mail!MailDone, Mail!PosterDies, Mail!MailUnchanged

\* No send is under way once its letter is being erased, and while nothing
\* fails a send that ended has left only what its letter names.
Tidy(s) ==
  LET l == letter[send[s].l] IN
  send[s].pc # "idle" =>
    /\ send[s].pc = "done" /\ s \in prints => l.pdf = s
    /\ send[s].pc = "done" /\ message[s] = "sealed" => l.message = s
    /\ l.disposal # "none" => s \notin prints
    /\ l.disposal = "done" => message[s] # "sealed"
Quiet(l) ==
  /\ letter[l] # Mail!NoLetter /\ letter[l].disposal # "none" => ~UnderWay(l)
  /\ letter[l] # Mail!NoLetter /\ letter[l].disposal = "done" => letter[l].link = None
TidyHolds ==
  /\ overtaken \in BOOLEAN
  /\ ~overtaken => \A l \in Papers : Quiet(l)
  /\ ~overtaken /\ losses = 0 => \A s \in Calls : Tidy(s)

MailNext == Mail!Next /\ overtaken' = (overtaken \/ Overtakes')

LEMMA QuietStep ==
  ASSUME MailHolds, TidyHolds, MailNext, ~overtaken'
  PROVE  \A l \in Papers : Quiet(l) /\ Quiet(l)'
<1>0. ~overtaken /\ ~Overtakes' /\ Mail!Next /\ Mail!TypeOK
  BY DEF MailNext, MailHolds, TidyHolds
<1> SUFFICES ASSUME NEW l \in Papers
             PROVE  Quiet(l) /\ Quiet(l)'
  OBVIOUS
<1>1. Quiet(l)
  BY <1>0 DEF TidyHolds
<1>2. ASSUME letter'[l] # Mail!NoLetter, letter'[l].disposal = "done"
      PROVE  letter'[l].link = None /\ ~UnderWay(l)'
  <2>1. \/ letter[l] # Mail!NoLetter /\ letter[l].disposal = "done" /\ letter'[l].link = letter[l].link
        \/ Erases(l)
        \/ \E s \in Calls : Commits(s, l) /\ letter[l].disposal = "done"
    BY <1>0, <1>2, LetterCases, MailDrafted DEF Drafts, Begins, Erases, Commits, Points, Same
  <2>2. \A s \in Calls : ~Commits(s, l) \/ letter[l].disposal = "none"
    BY <1>1 DEF Quiet, Commits, Same, UnderWay, Mail!SendCommit
  <2>3. letter[l] # Mail!NoLetter /\ letter[l].disposal # "none" /\ letter'[l].link = None
    BY <1>1, <2>1, <2>2 DEF Erases, Same, Quiet
  <2>4. ASSUME NEW s \in Calls, send'[s].pc \notin {"idle", "done"}, send'[s].l = l
        PROVE  FALSE
    <3>1. ~(send[s].pc \notin {"idle", "done"} /\ send[s].l = l)
      BY <1>1, <2>3 DEF Quiet, UnderWay
    <3>2. Mail!SendRead(s, l)
      BY <1>0, <2>4, <3>1, SendCases
    <3>3. letter[l].disposal # "done" /\ UNCHANGED letter
      BY <3>2 DEF Mail!SendRead, Mail!Sendable
    <3> QED BY <1>2, <3>3
  <2> QED BY <2>3, <2>4 DEF UnderWay
<1>3. ASSUME letter'[l] # Mail!NoLetter, letter'[l].disposal # "none", letter'[l].disposal # "done"
      PROVE  ~UnderWay(l)'
  <2>1. letter'[l].disposal = "begun"
    BY <1>0, <1>3, LetterTypes, MailDrafted DEF LetterRows
  <2> QED BY <1>0, <1>3, <2>1 DEF Overtakes
<1> QED BY <1>1, <1>2, <1>3 DEF Quiet

LEMMA TidyStep ==
  ASSUME MailHolds, TidyHolds, MailNext
  PROVE  TidyHolds'
<1>0. Mail!Next /\ Mail!TypeOK /\ Drafted
  BY MailDrafted DEF MailNext, MailHolds
<1>1. overtaken' \in BOOLEAN
  BY Zenon DEF MailNext, TidyHolds
<1>2. ASSUME ~overtaken', losses' = 0, NEW s \in Calls, send'[s].pc # "idle"
      PROVE  Tidy(s)'
  <2>a. PICK l \in Papers : send'[s].l = l
    <3>1. send'[s] \in {Mail!Idle} \cup SendRows
      BY <1>0, SendTypes
    <3>2. send'[s] # Mail!Idle
      BY <1>2 DEF Mail!Idle
    <3>3. send'[s] \in SendRows
      BY <3>1, <3>2
    <3>4. send'[s].l \in Papers
      BY <3>3 DEF SendRows
    <3> QED BY <3>4
  <2> USE <2>a
  <2>0. losses = 0 /\ ~overtaken /\ ~Mail!SendFails(s) /\ SendHolds(s) /\ SendHolds(s)' /\ Tidy(s)
    <3>1. losses \in 0 .. MaxLosses
      BY <1>0 DEF Mail!TypeOK
    <3>2. losses \in Nat
      BY <3>1, OfficeAssumption
    <3>3. ~(Mail!Lose /\ losses' = 0)
      BY <3>2 DEF Mail!Lose
    <3>4. losses = 0
      BY <1>0, <1>2, <3>3
        DEF Mail!Next, Mail!RecordMoves, Mail!RecordSuppression, Mail!ClearSuppression,
            Mail!DraftCorrespondence, Mail!EraseObject, Mail!EraseLetter, Mail!RestUnchanged,
            Mail!SendRead, Mail!CheckAddress, Mail!PrintLetter, Mail!SendCommit, Mail!CleanUp,
            Mail!SealMessage, Mail!AddMail, Mail!PointAtMessage, Mail!SendFails,
            Mail!MailStalled, Mail!TakeMail, Mail!CheckMail, Mail!PostMail, Mail!RelayRefuses,
            Mail!MailDone, Mail!PosterDies
    <3> QED BY <1>0, <1>2, <3>3, <3>4, SendsHold DEF MailNext, TidyHolds, MailHolds, Mail!SendFails
  <2>1. l \in Papers /\ send'[s].l = l /\ Quiet(l) /\ Quiet(l)'
    BY <1>2, <2>a, QuietStep
  <2>2. letter[l] # Mail!NoLetter /\ LetterHolds(l) /\ Same(l)
    <3>1. letter[l] # Mail!NoLetter
      BY <1>0, <1>2, <2>0, SendCases DEF SendHolds, Mail!SendRead
    <3> QED BY <1>0, <2>1, <3>1, LettersFollow DEF MailHolds
  <2>3. ASSUME send'[s].pc = "done", s \in prints'
        PROVE  letter'[l].pdf = s
    <3>1. s \in prints /\ letter[l].channel = "letter"
      BY <1>0, <2>0, <2>2, <2>3, MadeBySends, SendMoves DEF SendHolds, Mail!PrintLetter, Same
    <3>2. CASE send'[s] = send[s]
      <4>1. letter[l].pdf = s /\ letter[l].disposal = "none"
        BY <2>0, <2>3, <3>1, <3>2 DEF Tidy
      <4>2. CASE Begins(l)
        BY <2>3, <4>1, <4>2 DEF Begins, Mail!EraseObject
      <4>3. \A t \in Calls : ~Commits(t, l)
        BY <2>2, <4>1, NoneIsNoCall DEF Commits, LetterHolds
      <4> QED BY <1>0, <2>1, <2>2, <4>1, <4>2, <4>3, LetterCases DEF Drafts, Erases, Points
    <3>3. CASE Mail!SendCommit(s) /\ send[s].l = l
      <4>1. Mail!StillDraft(s)
        <5>1. ASSUME ~Mail!StillDraft(s)
              PROVE  FALSE
          <6>1. send[s].pc # "idle" /\ Mail!To(s, "clean up")
            BY <3>1, <3>3, <5>1 DEF Mail!SendCommit, Mail!Of
          <6>2. send'[s].pc = "clean up"
            BY <1>0, <6>1, SendMoves
          <6> QED BY <2>3, <6>2
        <5> QED BY <5>1
      <4>2. letter'[l].link = s
        BY <1>0, <3>3, <4>1, CommitShown
      <4>3. letter[l].link = None
        BY <2>2, <3>3, <4>1 DEF LetterHolds, Mail!StillDraft, Mail!Of
      <4>4. \E t \in Calls : Commits(t, l)
        BY <1>0, <2>1, <2>2, <4>2, <4>3, NoneIsNoCall, LetterCases DEF Drafts, Begins, Erases, Points
      <4> QED BY <3>1, <4>2, <4>4 DEF Commits
    <3>4. ~Mail!CleanUp(s)
      BY <2>3 DEF Mail!CleanUp
    <3>5. send[s].pc # "done" => ~Mail!PointAtMessage(s) /\ ~Mail!CheckAddress(s)
      BY <2>0, <3>1 DEF SendHolds, Mail!PointAtMessage, Mail!CheckAddress
    <3>6. ~Mail!PrintLetter(s) /\ ~Mail!SealMessage(s) /\ ~Mail!AddMail(s)
      BY <1>0, <2>3, SendMoves DEF Mail!PrintLetter, Mail!SealMessage, Mail!AddMail
    <3> QED BY <1>0, <2>0, <2>3, <3>2, <3>3, <3>4, <3>5, <3>6, SendCases
  <2>4. ASSUME send'[s].pc = "done", message'[s] = "sealed"
        PROVE  letter'[l].message = s
    <3>1. message[s] = "sealed" /\ ~Mail!SealMessage(s)
      BY <1>0, <2>4, MadeBySends, SendMoves DEF Mail!SealMessage
    <3>2. send[s].pc \in {"add", "point", "done"} /\ letter[send[s].l].status = "sent"
      BY <2>0, <3>1 DEF SendHolds
    <3>3. CASE send'[s] = send[s]
      <4>1. letter[l].message = s
        BY <2>0, <2>4, <3>1, <3>3 DEF Tidy
      <4>2. ASSUME NEW t \in Calls, Points(t, l)
            PROVE  t = s
        <5>1. send[t].pc = "point" /\ send[t].l = l /\ SendHolds(t)
          BY <4>2 DEF Points, Mail!PointAtMessage, MailHolds
        <5>2. letter[l].disposal # "done"
          BY <2>1, <2>2, <5>1 DEF Quiet, UnderWay
        <5>3. letter[l].link = t
          BY <5>1, <5>2 DEF SendHolds
        <5>4. letter[l].link = s
          BY <2>0, <3>1, <3>3, <5>2 DEF SendHolds
        <5> QED BY <5>3, <5>4
      <4> QED BY <1>0, <2>1, <2>2, <4>1, <4>2, LetterCases DEF Drafts, Begins, Erases, Commits, Points
    <3>4. CASE Mail!PointAtMessage(s) /\ send[s].l = l
      <4>1. letter' = [letter EXCEPT ![l] = [letter[l] EXCEPT !.message = s]]
        BY <3>4 DEF Mail!PointAtMessage
      <4>2. letter[l] \in LetterRows /\ letter \in [Papers -> {Mail!NoLetter} \cup LetterRows]
        BY <1>0, <2>1, <2>2, MailShape
      <4>3. letter'[l] = [letter[l] EXCEPT !.message = s]
        BY <2>1, <4>1, <4>2
      <4> QED BY <4>2, <4>3 DEF LetterRows
    <3>5. ~Mail!AddMail(s)
      BY <1>0, <2>4, SendMoves DEF Mail!AddMail
    <3>6. \/ send'[s] = send[s] \/ ((Mail!AddMail(s) \/ Mail!PointAtMessage(s)) /\ send[s].l = l)
      <4>1. ~Mail!CheckAddress(s) /\ ~Mail!PrintLetter(s) /\ ~Mail!SendCommit(s) /\ ~Mail!CleanUp(s)
        BY <3>2 DEF Mail!CheckAddress, Mail!PrintLetter, Mail!SendCommit, Mail!CleanUp
      <4>2. \A k \in Papers : ~Mail!SendRead(s, k)
        BY <3>2 DEF Mail!SendRead, Mail!Idle
      <4> QED BY <1>0, <2>0, <3>1, <4>1, <4>2, SendCases
    <3> QED BY <3>3, <3>4, <3>5, <3>6
  <2>5. ASSUME letter'[l].disposal # "none"
        PROVE  s \notin prints'
    <3>1. send'[s].pc = "done"
      BY <1>2, <2>1, <2>2, <2>5 DEF Quiet, UnderWay, Same
    <3>2. ~Mail!PrintLetter(s)
      BY <1>0, <3>1, SendMoves DEF Mail!PrintLetter
    <3>3. CASE Begins(l)
      <4>1. prints' = prints \ {letter[l].pdf} /\ UNCHANGED send
        BY <3>3 DEF Begins, Mail!EraseObject, Mail!RestUnchanged
      <4> QED BY <2>0, <3>1, <4>1 DEF Tidy
    <3>4. CASE letter[l].disposal # "none"
      <4>1. send'[s] = send[s]
        BY <1>0, <2>1, <2>2, <3>1, <3>4, SendCases DEF Quiet, UnderWay
      <4> QED BY <1>0, <2>0, <3>1, <3>2, <3>4, <4>1, MadeBySends DEF Tidy
    <3> QED BY <1>0, <2>1, <2>2, <2>5, <3>3, <3>4, LetterCases DEF Drafts, Erases, Commits, Points
  <2>6. ASSUME letter'[l].disposal = "done"
        PROVE  message'[s] # "sealed"
    <3>1. send'[s].pc = "done"
      BY <1>2, <2>1, <2>2, <2>6 DEF Quiet, UnderWay, Same
    <3>2. letter[l].disposal # "none"
      BY <1>0, <2>1, <2>2, <2>6, LetterCases, QuietStep
         DEF Drafts, Begins, Erases, Commits, Points
    <3>3. send'[s] = send[s]
      BY <1>0, <2>1, <2>2, <3>1, <3>2, SendCases DEF Quiet, UnderWay
    <3>4. ~Mail!SealMessage(s)
      BY <3>1, <3>3 DEF Mail!SealMessage
    <3>5. CASE letter[l].disposal = "done"
      BY <1>0, <2>0, <3>1, <3>3, <3>4, <3>5, MadeBySends DEF Tidy
    <3>6. CASE Erases(l)
      <4>1. message' = [t \in Calls |-> IF t = letter[l].message THEN "erased" ELSE message[t]]
        BY <3>6 DEF Erases, Mail!EraseLetter
      <4> QED BY <2>0, <3>1, <3>3, <4>1 DEF Tidy
    <3> QED BY <1>0, <2>1, <2>2, <2>6, <3>5, <3>6, LetterCases DEF Drafts, Begins, Commits, Points
  <2> QED BY <2>3, <2>4, <2>5, <2>6 DEF Tidy
<1>3. ASSUME ~overtaken', losses' = 0
      PROVE  \A s \in Calls : Tidy(s)'
  BY <1>2, <1>3 DEF Tidy
<1> QED BY <1>1, <1>3, QuietStep DEF TidyHolds

-----------------------------------------------------------------------------
(* The notices.  A copy goes out once for the run that holds the job of    *)
(* the notice, and once more for each fault: a run that lost its lock may  *)
(* still post, and one that failed or died may have posted unmarked.       *)

CourierRows ==
  [pc : {"row", "member", "post", "mark", "finish", "throw"}, k : Papers, lost : BOOLEAN]

Runs(w, k) == courier[w].pc # "idle" /\ courier[w].k = k /\ ~courier[w].lost
Late(k) ==
  {w \in Posters : /\ courier[w].pc \in {"row", "member", "post"}
                   /\ courier[w].k = k /\ courier[w].lost}
\* A copy is still to come that no fault has been counted for.
Owes(k) ==
  \/ \E w \in Posters : Runs(w, k) /\ (courier[w].pc \in {"member", "post"}
                                       \/ (courier[w].pc = "row" /\ notice[k] # "emailed"))
  \/ notice[k] # "emailed" /\ \A w \in Posters : Runs(w, k) => courier[w].pc # "mark"
Owed(k) == IF Owes(k) THEN 1 ELSE 0

Counted(k) ==
  /\ IsFiniteSet(Late(k))
  /\ copies[k] + Cardinality(Late(k)) + Owed(k) <= 1 + mishaps

BellHolds ==
  /\ Bell!TypeOK
  /\ \A k \in Papers : notice[k] = "emailed" => copies[k] > 0
  /\ \A w \in Posters : courier[w].pc = "mark" => copies[courier[w].k] > 0
  /\ \A k \in Papers, v, w \in Posters : Runs(v, k) /\ Runs(w, k) => v = w
  /\ \A k \in Papers, w \in Posters : Runs(w, k) => offer[k] = "active"
  /\ \A k \in Papers : Counted(k)

LEMMA BellShape ==
  ASSUME Bell!TypeOK
  PROVE  /\ courier \in [Posters -> {Bell!Idle} \cup CourierRows]
         /\ producer \in [Calls -> {Bell!Idle} \cup [pc : {"wanted", "add"}, k : Papers]]
         /\ notice \in [Papers -> {"none", "unsent", "emailed"}]
         /\ offer \in [Papers -> {"none", "queued", "active", "finished"}]
         /\ copies \in [Papers -> Nat] /\ mishaps \in Nat
         /\ \A w \in Posters :
              /\ courier[w].pc # "idle" =>
                   courier[w] \in CourierRows /\ courier[w].k \in Papers /\ courier[w].lost \in BOOLEAN
              /\ courier[w] = Bell!Idle <=> courier[w].pc = "idle"
<1>1. /\ courier \in [Posters -> {Bell!Idle} \cup CourierRows]
      /\ producer \in [Calls -> {Bell!Idle} \cup [pc : {"wanted", "add"}, k : Papers]]
      /\ notice \in [Papers -> {"none", "unsent", "emailed"}]
      /\ offer \in [Papers -> {"none", "queued", "active", "finished"}]
      /\ copies \in [Papers -> Nat] /\ mishaps \in 0 .. MaxLosses
  BY DEF Bell!TypeOK, CourierRows
<1>2. mishaps \in Nat
  BY <1>1, OfficeAssumption
<1>3. \A r \in CourierRows : r.pc # "idle" /\ r.k \in Papers /\ r.lost \in BOOLEAN
  BY DEF CourierRows
<1>4. Bell!Idle.pc = "idle"
  BY DEF Bell!Idle
<1> QED BY <1>1, <1>2, <1>3, <1>4

\* What a worker's step does to the workers.
LEMMA CourierMoves ==
  ASSUME Bell!TypeOK, NEW w \in Posters, courier[w].pc # "idle",
         NEW pc \in {"row", "member", "post", "mark", "finish", "throw"}, Bell!Goto(w, pc)
  PROVE  /\ courier'[w].pc = pc /\ courier'[w].k = courier[w].k /\ courier'[w].lost = courier[w].lost
         /\ \A v \in Posters : v # w => courier'[v] = courier[v]
         /\ courier' \in [Posters -> {Bell!Idle} \cup CourierRows]
<1>1. courier \in [Posters -> {Bell!Idle} \cup CourierRows] /\ courier[w] \in CourierRows
  BY BellShape
<1>2. courier' = [courier EXCEPT ![w] = [courier[w] EXCEPT !.pc = pc]]
  BY DEF Bell!Goto
<1>3. /\ [courier[w] EXCEPT !.pc = pc] \in CourierRows
      /\ [courier[w] EXCEPT !.pc = pc].pc = pc
      /\ [courier[w] EXCEPT !.pc = pc].k = courier[w].k
      /\ [courier[w] EXCEPT !.pc = pc].lost = courier[w].lost
  BY <1>1 DEF CourierRows
<1> HIDE DEF CourierRows
<1> QED BY <1>1, <1>2, <1>3

LEMMA BellTypes == Bell!TypeOK /\ Bell!Next => Bell!TypeOK'
<1> SUFFICES ASSUME Bell!TypeOK, Bell!Next
             PROVE  Bell!TypeOK'
  OBVIOUS
<1>0. /\ courier \in [Posters -> {Bell!Idle} \cup CourierRows]
      /\ producer \in [Calls -> {Bell!Idle} \cup [pc : {"wanted", "add"}, k : Papers]]
      /\ notice \in [Papers -> {"none", "unsent", "emailed"}]
      /\ offer \in [Papers -> {"none", "queued", "active", "finished"}]
      /\ copies \in [Papers -> Nat] /\ mishaps \in 0 .. MaxLosses /\ wants \in BOOLEAN
  BY BellShape DEF Bell!TypeOK
<1> DEFINE Couriers == courier' \in [Posters -> {Bell!Idle} \cup CourierRows]
           Producers == producer' \in [Calls -> {Bell!Idle} \cup [pc : {"wanted", "add"}, k : Papers]]
           Rows == /\ notice' \in [Papers -> {"none", "unsent", "emailed"}]
                   /\ offer' \in [Papers -> {"none", "queued", "active", "finished"}]
                   /\ copies' \in [Papers -> Nat]
           Rest == mishaps' \in 0 .. MaxLosses /\ wants' \in BOOLEAN
<1>1. Rest
  <2>1. Bell!Lose => mishaps' \in 0 .. MaxLosses
    BY <1>0, OfficeAssumption DEF Bell!Lose
  <2>2. mishaps' \in 0 .. MaxLosses
    BY <1>0, <2>1 DEF Bell!Next, Bell!MemberChanges, Bell!Record, Bell!AskPreference, Bell!OfferJob,
         Bell!ProducerDies, Bell!TakeOffer, Bell!ReadNotice, Bell!ReadMember, Bell!PostCopy,
         Bell!MarkEmailed, Bell!StepFails, Bell!CourierDone, Bell!CourierDies, Bell!LoseLock,
         Bell!OfferStalled, Bell!ForgetOffer
  <2>3. wants' \in BOOLEAN
    BY <1>0 DEF Bell!Next, Bell!MemberChanges, Bell!Record, Bell!AskPreference, Bell!OfferJob,
         Bell!ProducerDies, Bell!TakeOffer, Bell!ReadNotice, Bell!ReadMember, Bell!PostCopy,
         Bell!MarkEmailed, Bell!StepFails, Bell!CourierDone, Bell!CourierDies, Bell!LoseLock,
         Bell!OfferStalled, Bell!ForgetOffer, Bell!ProducerUnchanged, Bell!CourierUnchanged
  <2> QED BY <2>2, <2>3
<1>2. CASE Bell!MemberChanges
  BY <1>0, <1>1, <1>2 DEF Bell!MemberChanges, Bell!TypeOK
<1>3. ASSUME NEW p \in Calls, NEW k \in Papers, Bell!Record(p, k)
      PROVE  Couriers /\ Producers /\ Rows
  <2>1. [pc |-> "wanted", k |-> k] \in [pc : {"wanted", "add"}, k : Papers]
    OBVIOUS
  <2>2. notice' \in [Papers -> {"none", "unsent", "emailed"}]
    BY <1>0, <1>3 DEF Bell!Record
  <2>3. producer' \in {producer, [producer EXCEPT ![p] = [pc |-> "wanted", k |-> k]]}
    BY <1>3 DEF Bell!Record
  <2> QED BY <1>0, <1>3, <2>1, <2>2, <2>3 DEF Bell!Record, Bell!ProducerUnchanged
<1>4. ASSUME NEW p \in Calls, Bell!AskPreference(p)
      PROVE  Couriers /\ Producers /\ Rows
  <2>1. producer[p] \in [pc : {"wanted", "add"}, k : Papers]
    BY <1>0, <1>4 DEF Bell!AskPreference, Bell!Idle
  <2>2. [producer[p] EXCEPT !.pc = "add"] \in [pc : {"wanted", "add"}, k : Papers]
    BY <2>1
  <2>3. producer' \in {[producer EXCEPT ![p] = Bell!Idle],
                       [producer EXCEPT ![p] = [producer[p] EXCEPT !.pc = "add"]]}
    BY <1>4 DEF Bell!AskPreference
  <2> QED BY <1>0, <1>4, <2>2, <2>3 DEF Bell!AskPreference, Bell!ProducerUnchanged
<1>5. ASSUME NEW p \in Calls, Bell!OfferJob(p) \/ Bell!ProducerDies(p)
      PROVE  Couriers /\ Producers /\ Rows
  <2>1. UNCHANGED <<courier, notice, copies>> /\ producer' = [producer EXCEPT ![p] = Bell!Idle]
    BY <1>5 DEF Bell!OfferJob, Bell!ProducerDies, Bell!ProducerUnchanged
  <2>2. offer' \in [Papers -> {"none", "queued", "active", "finished"}]
    BY <1>0, <1>5 DEF Bell!OfferJob, Bell!ProducerDies
  <2> QED BY <1>0, <2>1, <2>2
<1>6. ASSUME NEW k \in Papers, Bell!OfferStalled(k) \/ Bell!ForgetOffer(k)
      PROVE  Couriers /\ Producers /\ Rows
  <2>1. offer' \in [Papers -> {"none", "queued", "active", "finished"}]
    BY <1>0, <1>6 DEF Bell!OfferStalled, Bell!ForgetOffer
  <2> QED BY <1>0, <1>6, <2>1 DEF Bell!OfferStalled, Bell!ForgetOffer, Bell!CourierUnchanged
<1>7. ASSUME NEW k \in Papers, NEW w \in Posters, Bell!TakeOffer(w, k)
      PROVE  Couriers /\ Producers /\ Rows
  <2>1. [pc |-> "row", k |-> k, lost |-> FALSE] \in CourierRows
    BY DEF CourierRows
  <2>2. courier' = [courier EXCEPT ![w] = [pc |-> "row", k |-> k, lost |-> FALSE]]
    BY <1>7 DEF Bell!TakeOffer
  <2>3. Couriers
    BY <1>0, <2>1, <2>2
  <2> QED BY <1>0, <1>7, <2>3 DEF Bell!TakeOffer, Bell!CourierUnchanged
<1>8. ASSUME NEW w \in Posters,
             Bell!ReadNotice(w) \/ Bell!ReadMember(w) \/ Bell!PostCopy(w) \/ Bell!MarkEmailed(w) \/ Bell!StepFails(w)
      PROVE  Couriers /\ Producers /\ Rows
  <2>1. courier[w].pc # "idle"
    BY <1>8 DEF Bell!ReadNotice, Bell!ReadMember, Bell!PostCopy, Bell!MarkEmailed, Bell!StepFails
  <2>2. Couriers
    BY <1>8, <2>1, CourierMoves DEF Bell!ReadNotice, Bell!ReadMember, Bell!PostCopy, Bell!MarkEmailed, Bell!StepFails
  <2>3. courier[w].k \in Papers
    BY <2>1, BellShape
  <2>4. Producers /\ UNCHANGED offer
    BY <1>0, <1>8 DEF Bell!ReadNotice, Bell!ReadMember, Bell!PostCopy, Bell!MarkEmailed, Bell!StepFails,
                      Bell!CourierUnchanged
  <2>5. /\ notice' \in {notice, [notice EXCEPT ![courier[w].k] = "emailed"]}
        /\ copies' \in {copies, [copies EXCEPT ![courier[w].k] = copies[courier[w].k] + 1]}
    BY <1>8 DEF Bell!ReadNotice, Bell!ReadMember, Bell!PostCopy, Bell!MarkEmailed, Bell!StepFails, Bell!Of
  <2>6. notice' \in [Papers -> {"none", "unsent", "emailed"}]
    BY <1>0, <2>3, <2>5
  <2>7. copies' \in [Papers -> Nat]
    BY <1>0, <2>3, <2>5
  <2> QED BY <1>0, <2>2, <2>4, <2>6, <2>7
<1>9. ASSUME NEW w \in Posters, Bell!CourierDone(w) \/ Bell!CourierDies(w)
      PROVE  Couriers /\ Producers /\ Rows
  <2>1. courier' = [courier EXCEPT ![w] = Bell!Idle] /\ UNCHANGED <<producer, notice, copies>>
    BY <1>9 DEF Bell!CourierDone, Bell!CourierDies, Bell!CourierUnchanged
  <2>2. offer' = offer \/ \E at \in {"queued", "finished"} : offer' = [offer EXCEPT ![courier[w].k] = at]
    BY <1>9 DEF Bell!CourierDone, Bell!CourierDies, Bell!Of
  <2>3. offer' \in [Papers -> {"none", "queued", "active", "finished"}]
    BY <1>0, <2>2
  <2> QED BY <1>0, <2>1, <2>3
<1>10. ASSUME NEW w \in Posters, Bell!LoseLock(w)
       PROVE  Couriers /\ Producers /\ Rows
  <2>1. courier[w] \in CourierRows
    BY <1>10, BellShape DEF Bell!LoseLock
  <2>2. [courier[w] EXCEPT !.lost = TRUE] \in CourierRows
    BY <2>1 DEF CourierRows
  <2>3. courier' = [courier EXCEPT ![w] = [courier[w] EXCEPT !.lost = TRUE]]
    BY <1>10 DEF Bell!LoseLock
  <2>4. Couriers
    BY <1>0, <2>2, <2>3
  <2> QED BY <1>0, <1>10, <2>4 DEF Bell!LoseLock, Bell!CourierUnchanged
<1>11. Couriers /\ Producers /\ Rows => Bell!TypeOK'
  BY <1>1 DEF Bell!TypeOK, CourierRows
<1> QED BY <1>2, <1>3, <1>4, <1>5, <1>6, <1>7, <1>8, <1>9, <1>10, <1>11 DEF Bell!Next

\* Counting the runs that may still post.
LEMMA Sizes ==
  ASSUME NEW S, NEW T, IsFiniteSet(S)
  PROVE  /\ Cardinality(S) \in Nat
         /\ T \subseteq S => IsFiniteSet(T) /\ Cardinality(T) \in Nat /\ Cardinality(T) <= Cardinality(S)
         /\ (\E w : T \subseteq S \cup {w}) =>
              IsFiniteSet(T) /\ Cardinality(T) \in Nat /\ Cardinality(T) <= Cardinality(S) + 1
         /\ (\E w \in S : T \subseteq S \ {w}) =>
              IsFiniteSet(T) /\ Cardinality(T) \in Nat /\ Cardinality(T) <= Cardinality(S) - 1
<1>1. Cardinality(S) \in Nat
  BY FS_CardinalityType
<1>2. ASSUME T \subseteq S
      PROVE  IsFiniteSet(T) /\ Cardinality(T) \in Nat /\ Cardinality(T) <= Cardinality(S)
  BY <1>2, FS_Subset, FS_CardinalityType
<1>3. ASSUME NEW w, T \subseteq S \cup {w}
      PROVE  IsFiniteSet(T) /\ Cardinality(T) \in Nat /\ Cardinality(T) <= Cardinality(S) + 1
  <2>1. /\ IsFiniteSet(S \cup {w})
        /\ Cardinality(S \cup {w}) = Cardinality(S) \/ Cardinality(S \cup {w}) = Cardinality(S) + 1
    BY FS_AddElement
  <2>2. IsFiniteSet(T) /\ Cardinality(T) <= Cardinality(S \cup {w}) /\ Cardinality(T) \in Nat
    BY <1>3, <2>1, FS_Subset, FS_CardinalityType
  <2> QED BY <1>1, <2>1, <2>2
<1>4. ASSUME NEW w \in S, T \subseteq S \ {w}
      PROVE  IsFiniteSet(T) /\ Cardinality(T) \in Nat /\ Cardinality(T) <= Cardinality(S) - 1
  <2>1. IsFiniteSet(S \ {w}) /\ Cardinality(S \ {w}) = Cardinality(S) - 1
    BY FS_RemoveElement
  <2> QED BY <1>4, <2>1, FS_Subset, FS_CardinalityType
<1> QED BY <1>1, <1>2, <1>3, <1>4

\* The same, of a notice.
LEMMA CountKept ==
  ASSUME Bell!TypeOK, Bell!TypeOK', NEW k \in Papers, Counted(k),
         \/ /\ Late(k)' \subseteq Late(k) /\ copies'[k] = copies[k]
            /\ \/ (Owes(k)' => Owes(k)) /\ mishaps <= mishaps'
               \/ mishaps' = mishaps + 1
         \/ /\ Late(k)' \subseteq Late(k) /\ copies'[k] = copies[k] + 1 /\ mishaps' = mishaps
            /\ Owes(k) /\ ~Owes(k)'
         \/ /\ \E w : Late(k)' \subseteq Late(k) \cup {w}
            /\ copies'[k] = copies[k] /\ mishaps' = mishaps + 1 /\ (Owes(k)' => Owes(k))
         \/ /\ \E w \in Late(k) : Late(k)' \subseteq Late(k) \ {w}
            /\ copies'[k] = copies[k] + 1 /\ mishaps' = mishaps /\ (Owes(k)' => Owes(k))
  PROVE  Counted(k)'
<1>1. copies[k] \in Nat /\ mishaps \in Nat
  BY BellShape
<1>2. copies'[k] \in Nat
  BY DEF Bell!TypeOK
<1>3. mishaps' \in 0 .. MaxLosses
  BY DEF Bell!TypeOK
<1>4. mishaps' \in Nat
  BY <1>3, OfficeAssumption
<1>5. Owed(k) \in {0, 1} /\ Owed(k)' \in {0, 1}
  BY DEF Owed
<1>6. /\ (Owes(k)' => Owes(k)) => Owed(k)' <= Owed(k)
      /\ Owes(k) => Owed(k) = 1
      /\ ~Owes(k)' => Owed(k)' = 0
  BY DEF Owed
<1>7. IsFiniteSet(Late(k)) /\ copies[k] + Cardinality(Late(k)) + Owed(k) <= 1 + mishaps
  BY DEF Counted
<1>8. /\ Cardinality(Late(k)) \in Nat
      /\ Late(k)' \subseteq Late(k) =>
           /\ IsFiniteSet(Late(k)') /\ Cardinality(Late(k)') \in Nat
           /\ Cardinality(Late(k)') <= Cardinality(Late(k))
      /\ (\E w : Late(k)' \subseteq Late(k) \cup {w}) =>
           /\ IsFiniteSet(Late(k)') /\ Cardinality(Late(k)') \in Nat
           /\ Cardinality(Late(k)') <= Cardinality(Late(k)) + 1
      /\ (\E w \in Late(k) : Late(k)' \subseteq Late(k) \ {w}) =>
           /\ IsFiniteSet(Late(k)') /\ Cardinality(Late(k)') \in Nat
           /\ Cardinality(Late(k)') <= Cardinality(Late(k)) - 1
  <2> HIDE DEF Late
  <2> QED BY <1>7, Sizes
<1>9. IsFiniteSet(Late(k)') /\ copies'[k] + Cardinality(Late(k)') + Owed(k)' <= 1 + mishaps'
  <2> HIDE DEF Late, Owed, Owes
  <2> QED BY <1>1, <1>2, <1>4, <1>5, <1>6, <1>7, <1>8
<1> QED BY <1>9 DEF Counted

\* A worker's step counts for the notice it is about alone.
LEMMA ElsewhereKept ==
  ASSUME Bell!TypeOK, Bell!TypeOK', NEW w \in Posters, NEW j \in Papers, NEW k \in Papers, k # j, Counted(k),
         \A v \in Posters : v # w => courier'[v] = courier[v],
         courier[w].pc # "idle" => courier[w].k = j,
         courier'[w].pc # "idle" => courier'[w].k = j,
         notice'[k] = notice[k], copies'[k] = copies[k],
         mishaps' = mishaps \/ mishaps' = mishaps + 1
  PROVE  Counted(k)'
<1>1. \A v \in Posters : Runs(v, k)' <=> Runs(v, k)
  BY DEF Runs
<1>2. ~Runs(w, k) /\ ~Runs(w, k)'
  BY DEF Runs
<1>3. Owes(k)' => Owes(k)
  BY <1>1, <1>2 DEF Owes
<1>4. Late(k)' \subseteq Late(k)
  BY DEF Late
<1>5. mishaps <= mishaps'
  BY BellShape
<1> QED BY <1>3, <1>4, <1>5, CountKept

\* What a step may be, as far as the count of a notice goes.
LEMMA BellCases ==
  ASSUME Bell!TypeOK, Bell!Next
  PROVE  \/ /\ UNCHANGED <<courier, copies>>
            /\ \A k \in Papers : notice'[k] = "emailed" <=> notice[k] = "emailed"
            /\ mishaps' = mishaps \/ mishaps' = mishaps + 1
            /\ \A k \in Papers : offer[k] = "active" /\ Bell!Locked(k) => offer'[k] = "active"
         \/ \E w \in Posters, k \in Papers : Bell!TakeOffer(w, k)
         \/ \E w \in Posters :
              \/ Bell!ReadNotice(w) \/ Bell!ReadMember(w) \/ Bell!PostCopy(w) \/ Bell!MarkEmailed(w)
              \/ Bell!StepFails(w) \/ Bell!CourierDone(w) \/ Bell!CourierDies(w) \/ Bell!LoseLock(w)
<1> DEFINE Aside == /\ UNCHANGED <<courier, copies>>
                    /\ \A k \in Papers : notice'[k] = "emailed" <=> notice[k] = "emailed"
                    /\ mishaps' = mishaps \/ mishaps' = mishaps + 1
                    /\ \A k \in Papers : offer[k] = "active" /\ Bell!Locked(k) => offer'[k] = "active"
<1>0. /\ notice \in [Papers -> {"none", "unsent", "emailed"}]
      /\ offer \in [Papers -> {"none", "queued", "active", "finished"}]
  BY BellShape
<1>1. Bell!MemberChanges => Aside
  BY DEF Bell!MemberChanges
<1>2. ASSUME NEW p \in Calls, NEW k \in Papers, Bell!Record(p, k)
      PROVE  Aside
  BY <1>0, <1>2 DEF Bell!Record, Bell!ProducerUnchanged
<1>3. ASSUME NEW p \in Calls, Bell!AskPreference(p)
      PROVE  Aside
  BY <1>3 DEF Bell!AskPreference, Bell!ProducerUnchanged
<1>4. ASSUME NEW p \in Calls, Bell!OfferJob(p)
      PROVE  Aside
  <2>1. \A k \in Papers : offer[k] = "active" => offer'[k] = "active"
    BY <1>0, <1>4 DEF Bell!OfferJob
  <2> QED BY <1>4, <2>1 DEF Bell!OfferJob, Bell!ProducerUnchanged
<1>5. ASSUME NEW p \in Calls, Bell!ProducerDies(p)
      PROVE  Aside
  BY <1>5 DEF Bell!ProducerDies, Bell!ProducerUnchanged, Bell!Lose
<1>6. ASSUME NEW k \in Papers, Bell!OfferStalled(k)
      PROVE  Aside
  <2>1. \A j \in Papers : offer[j] = "active" /\ Bell!Locked(j) => offer'[j] = "active"
    BY <1>0, <1>6 DEF Bell!OfferStalled
  <2> QED BY <1>6, <2>1 DEF Bell!OfferStalled, Bell!CourierUnchanged
<1>7. ASSUME NEW k \in Papers, Bell!ForgetOffer(k)
      PROVE  Aside
  <2>1. \A j \in Papers : offer[j] = "active" => offer'[j] = "active"
    BY <1>0, <1>7 DEF Bell!ForgetOffer
  <2> QED BY <1>7, <2>1 DEF Bell!ForgetOffer, Bell!CourierUnchanged
<1> HIDE DEF Aside
<1>8. \/ Aside \/ (\E w \in Posters, k \in Papers : Bell!TakeOffer(w, k))
      \/ \E w \in Posters :
           \/ Bell!ReadNotice(w) \/ Bell!ReadMember(w) \/ Bell!PostCopy(w) \/ Bell!MarkEmailed(w)
           \/ Bell!StepFails(w) \/ Bell!CourierDone(w) \/ Bell!CourierDies(w) \/ Bell!LoseLock(w)
  BY <1>1, <1>2, <1>3, <1>4, <1>5, <1>6, <1>7 DEF Bell!Next
<1> QED BY <1>8 DEF Aside

\* A worker's own step, seen from the others.
LEMMA WorkerMoves ==
  ASSUME Bell!TypeOK, NEW w \in Posters,
         \/ Bell!ReadNotice(w) \/ Bell!ReadMember(w) \/ Bell!PostCopy(w) \/ Bell!MarkEmailed(w)
         \/ Bell!StepFails(w) \/ Bell!CourierDone(w) \/ Bell!CourierDies(w) \/ Bell!LoseLock(w)
  PROVE  /\ courier[w] \in CourierRows /\ courier[w].k \in Papers /\ courier[w].lost \in BOOLEAN
         /\ courier[w].pc # "idle"
         /\ \A v \in Posters : v # w => courier'[v] = courier[v]
         /\ courier'[w].pc # "idle" => courier'[w].k = courier[w].k
         /\ courier'[w].pc # "idle" /\ courier[w].lost => courier'[w].lost
         /\ \A k \in Papers : k # courier[w].k =>
              notice'[k] = notice[k] /\ copies'[k] = copies[k] /\ offer'[k] = offer[k]
         /\ mishaps' = mishaps \/ mishaps' = mishaps + 1
<1>1. courier[w].pc # "idle"
  BY BellShape DEF Bell!ReadNotice, Bell!ReadMember, Bell!PostCopy, Bell!MarkEmailed, Bell!StepFails,
     Bell!CourierDone, Bell!CourierDies, Bell!LoseLock
<1>2. courier[w] \in CourierRows /\ courier[w].k \in Papers /\ courier[w].lost \in BOOLEAN
  BY <1>1, BellShape
<1>3. courier \in [Posters -> {Bell!Idle} \cup CourierRows]
      /\ notice \in [Papers -> {"none", "unsent", "emailed"}]
      /\ offer \in [Papers -> {"none", "queued", "active", "finished"}] /\ copies \in [Papers -> Nat]
  BY BellShape
<1>4. \A k \in Papers : k # courier[w].k =>
        notice'[k] = notice[k] /\ copies'[k] = copies[k] /\ offer'[k] = offer[k]
  BY <1>2, <1>3 DEF Bell!ReadNotice, Bell!ReadMember, Bell!PostCopy, Bell!MarkEmailed, Bell!StepFails,
     Bell!CourierDone, Bell!CourierDies, Bell!LoseLock, Bell!Of
<1>5. mishaps' = mishaps \/ mishaps' = mishaps + 1
  BY DEF Bell!ReadNotice, Bell!ReadMember, Bell!PostCopy, Bell!MarkEmailed, Bell!StepFails,
     Bell!CourierDone, Bell!CourierDies, Bell!LoseLock, Bell!Lose
<1> DEFINE Moved == /\ \A v \in Posters : v # w => courier'[v] = courier[v]
                    /\ courier'[w].pc # "idle" => courier'[w].k = courier[w].k
                    /\ courier'[w].pc # "idle" /\ courier[w].lost => courier'[w].lost
<1>6. ASSUME Bell!ReadNotice(w) \/ Bell!ReadMember(w) \/ Bell!PostCopy(w) \/ Bell!MarkEmailed(w) \/ Bell!StepFails(w)
      PROVE  Moved
  <2>1. PICK pc \in {"row", "member", "post", "mark", "finish", "throw"} : Bell!Goto(w, pc)
    BY <1>6 DEF Bell!ReadNotice, Bell!ReadMember, Bell!PostCopy, Bell!MarkEmailed, Bell!StepFails
  <2> QED BY <1>1, <2>1, CourierMoves
<1>7. ASSUME Bell!CourierDone(w) \/ Bell!CourierDies(w)
      PROVE  Moved
  <2>1. courier' = [courier EXCEPT ![w] = Bell!Idle]
    BY <1>7 DEF Bell!CourierDone, Bell!CourierDies
  <2>2. Bell!Idle.pc = "idle"
    BY DEF Bell!Idle
  <2> QED BY <1>3, <2>1, <2>2
<1>8. ASSUME Bell!LoseLock(w)
      PROVE  Moved
  <2>1. courier' = [courier EXCEPT ![w] = [courier[w] EXCEPT !.lost = TRUE]]
    BY <1>8 DEF Bell!LoseLock
  <2>2. [courier[w] EXCEPT !.lost = TRUE].k = courier[w].k /\ [courier[w] EXCEPT !.lost = TRUE].lost
    BY <1>2 DEF CourierRows
  <2> QED BY <1>3, <2>1, <2>2
<1> QED BY <1>1, <1>2, <1>4, <1>5, <1>6, <1>7, <1>8

LEMMA TakeMoves ==
  ASSUME Bell!TypeOK, NEW w \in Posters, NEW k \in Papers, Bell!TakeOffer(w, k)
  PROVE  /\ courier[w].pc = "idle"
         /\ courier'[w].pc = "row" /\ courier'[w].k = k /\ courier'[w].lost = FALSE
         /\ \A v \in Posters : v # w => courier'[v] = courier[v]
         /\ offer[k] = "queued" /\ offer'[k] = "active"
         /\ \A j \in Papers : j # k => offer'[j] = offer[j]
         /\ UNCHANGED <<notice, copies, mishaps>>
<1>1. courier \in [Posters -> {Bell!Idle} \cup CourierRows]
      /\ offer \in [Papers -> {"none", "queued", "active", "finished"}]
  BY BellShape
<1>2. courier' = [courier EXCEPT ![w] = [pc |-> "row", k |-> k, lost |-> FALSE]]
  BY DEF Bell!TakeOffer
<1>3. courier'[w] = [pc |-> "row", k |-> k, lost |-> FALSE]
  BY <1>1, <1>2
<1>4. courier'[w].pc = "row" /\ courier'[w].k = k /\ courier'[w].lost = FALSE
  BY <1>3
<1>5. \A v \in Posters : v # w => courier'[v] = courier[v]
  BY <1>1, <1>2
<1>6. courier[w].pc = "idle"
  BY DEF Bell!TakeOffer, Bell!Idle
<1>7. offer[k] = "queued" /\ offer'[k] = "active" /\ \A j \in Papers : j # k => offer'[j] = offer[j]
  BY <1>1 DEF Bell!TakeOffer
<1> QED BY <1>4, <1>5, <1>6, <1>7 DEF Bell!TakeOffer

\* A row is marked, or about to be, only when its copy went out.
LEMMA BellMarks ==
  ASSUME BellHolds, Bell!Next
  PROVE  /\ \A k \in Papers : notice'[k] = "emailed" => copies'[k] > 0
         /\ \A w \in Posters : courier'[w].pc = "mark" => copies'[courier'[w].k] > 0
<1> DEFINE Marks == /\ \A k \in Papers : notice'[k] = "emailed" => copies'[k] > 0
                    /\ \A w \in Posters : courier'[w].pc = "mark" => copies'[courier'[w].k] > 0
<1>0. /\ Bell!TypeOK
      /\ \A k \in Papers : notice[k] = "emailed" => copies[k] > 0
      /\ \A w \in Posters : courier[w].pc = "mark" => copies[courier[w].k] > 0
  BY DEF BellHolds
<1>1. ASSUME UNCHANGED <<courier, copies>>, \A k \in Papers : notice'[k] = "emailed" <=> notice[k] = "emailed"
      PROVE  Marks
  BY <1>0, <1>1
<1>2. ASSUME NEW w \in Posters, NEW k \in Papers, Bell!TakeOffer(w, k)
      PROVE  Marks
  <2>1. /\ courier'[w].pc = "row" /\ UNCHANGED <<notice, copies>>
        /\ \A v \in Posters : v # w => courier'[v] = courier[v]
    BY <1>0, <1>2, TakeMoves
  <2> QED BY <1>0, <2>1
<1>3. ASSUME NEW w \in Posters,
             \/ Bell!ReadNotice(w) \/ Bell!ReadMember(w) \/ Bell!PostCopy(w) \/ Bell!MarkEmailed(w)
             \/ Bell!StepFails(w) \/ Bell!CourierDone(w) \/ Bell!CourierDies(w) \/ Bell!LoseLock(w)
      PROVE  Marks
  <2>1. /\ courier[w].k \in Papers /\ courier[w].pc # "idle" /\ courier[w] \in CourierRows
        /\ \A v \in Posters : v # w => courier'[v] = courier[v]
        /\ courier'[w].pc # "idle" => courier'[w].k = courier[w].k
        /\ \A k \in Papers : k # courier[w].k => notice'[k] = notice[k] /\ copies'[k] = copies[k]
    BY <1>0, <1>3, WorkerMoves
  <2>2. /\ copies \in [Papers -> Nat] /\ notice \in [Papers -> {"none", "unsent", "emailed"}]
        /\ courier \in [Posters -> {Bell!Idle} \cup CourierRows]
    BY <1>0, BellShape
  <2>3. copies' = copies \/ (Bell!PostCopy(w) /\ copies'[courier[w].k] = copies[courier[w].k] + 1)
    BY <1>3, <2>1, <2>2 DEF Bell!ReadNotice, Bell!ReadMember, Bell!PostCopy, Bell!MarkEmailed,
         Bell!StepFails, Bell!CourierDone, Bell!CourierDies, Bell!LoseLock, Bell!Of
  <2>4. \A k \in Papers : copies[k] \in Nat /\ copies'[k] \in Nat /\ copies'[k] >= copies[k]
    BY <2>1, <2>2, <2>3
  <2>5. notice' = notice \/ courier[w].pc = "mark"
    BY <1>3 DEF Bell!ReadNotice, Bell!ReadMember, Bell!PostCopy, Bell!MarkEmailed,
         Bell!StepFails, Bell!CourierDone, Bell!CourierDies, Bell!LoseLock
  <2>6. courier'[w].pc = "mark" =>
          courier[w].pc = "mark" \/ copies'[courier[w].k] = copies[courier[w].k] + 1
    <3>1. CASE Bell!PostCopy(w)
      BY <2>1, <2>2, <3>1 DEF Bell!PostCopy, Bell!Of
    <3>2. CASE Bell!ReadNotice(w) \/ Bell!ReadMember(w) \/ Bell!MarkEmailed(w) \/ Bell!StepFails(w)
      <4>1. PICK pc \in {"row", "member", "post", "finish", "throw"} : Bell!Goto(w, pc)
        BY <3>2 DEF Bell!ReadNotice, Bell!ReadMember, Bell!MarkEmailed, Bell!StepFails
      <4>2. courier'[w].pc = pc
        BY <1>0, <2>1, <4>1, CourierMoves
      <4> QED BY <4>2
    <3>3. CASE Bell!CourierDone(w) \/ Bell!CourierDies(w)
      <4>1. courier' = [courier EXCEPT ![w] = Bell!Idle] /\ Bell!Idle.pc = "idle"
        BY <3>3 DEF Bell!CourierDone, Bell!CourierDies, Bell!Idle
      <4> QED BY <2>2, <4>1
    <3>4. CASE Bell!LoseLock(w)
      <4>1. courier' = [courier EXCEPT ![w] = [courier[w] EXCEPT !.lost = TRUE]]
        BY <3>4 DEF Bell!LoseLock
      <4>2. [courier[w] EXCEPT !.lost = TRUE].pc = courier[w].pc
        BY <2>1 DEF CourierRows
      <4> QED BY <2>2, <4>1, <4>2
    <3> QED BY <1>3, <3>1, <3>2, <3>3, <3>4
  <2>7. \A k \in Papers : notice'[k] = "emailed" => copies'[k] > 0
    BY <1>0, <2>1, <2>4, <2>5
  <2>8. \A v \in Posters : courier'[v].pc = "mark" => copies'[courier'[v].k] > 0
    <3>1. ASSUME NEW v \in Posters, courier'[v].pc = "mark"
          PROVE  copies'[courier'[v].k] > 0
      <4>1. CASE v = w
        BY <1>0, <2>1, <2>4, <2>6, <3>1, <4>1
      <4>2. CASE v # w
        <5>1. courier[v].k \in Papers
          BY <1>0, <2>1, <3>1, <4>2, BellShape
        <5> QED BY <1>0, <2>1, <2>4, <3>1, <4>2, <5>1
      <4> QED BY <4>1, <4>2
    <3> QED BY <3>1
  <2> QED BY <2>7, <2>8
<1> QED BY <1>0, <1>1, <1>2, <1>3, BellCases

\* One run at a time holds the job of a notice.
LEMMA BellRuns ==
  ASSUME BellHolds, Bell!Next
  PROVE  /\ \A k \in Papers, v, w \in Posters : Runs(v, k)' /\ Runs(w, k)' => v = w
         /\ \A k \in Papers, w \in Posters : Runs(w, k)' => offer'[k] = "active"
<1> DEFINE Alone == \A k \in Papers, v, w \in Posters : Runs(v, k)' /\ Runs(w, k)' => v = w
           Active == \A k \in Papers, w \in Posters : Runs(w, k)' => offer'[k] = "active"
<1>0. /\ Bell!TypeOK
      /\ \A k \in Papers, v, w \in Posters : Runs(v, k) /\ Runs(w, k) => v = w
      /\ \A k \in Papers, w \in Posters : Runs(w, k) => offer[k] = "active"
  BY DEF BellHolds
<1>1. ASSUME UNCHANGED courier, \A k \in Papers : offer[k] = "active" /\ Bell!Locked(k) => offer'[k] = "active"
      PROVE  Alone /\ Active
  <2>1. \A k \in Papers, w \in Posters : Runs(w, k)' <=> Runs(w, k)
    BY <1>1 DEF Runs
  <2>2. \A k \in Papers, w \in Posters : Runs(w, k) => Bell!Locked(k)
    BY <1>0, BellShape DEF Runs, Bell!Locked, Bell!Of
  <2> QED BY <1>0, <1>1, <2>1, <2>2
<1>2. ASSUME NEW w \in Posters, NEW k \in Papers, Bell!TakeOffer(w, k)
      PROVE  Alone /\ Active
  <2>1. /\ courier'[w].pc = "row" /\ courier'[w].k = k
        /\ \A v \in Posters : v # w => courier'[v] = courier[v]
        /\ offer[k] = "queued" /\ offer'[k] = "active"
        /\ \A j \in Papers : j # k => offer'[j] = offer[j]
    BY <1>0, <1>2, TakeMoves
  <2>2. \A j \in Papers, v \in Posters : v # w => (Runs(v, j)' <=> Runs(v, j))
    BY <2>1 DEF Runs
  <2>3. \A j \in Papers : Runs(w, j)' => j = k
    BY <2>1 DEF Runs
  <2>4. \A v \in Posters : ~Runs(v, k)
    BY <1>0, <2>1
  <2> QED BY <1>0, <2>1, <2>2, <2>3, <2>4
<1>3. ASSUME NEW w \in Posters,
             \/ Bell!ReadNotice(w) \/ Bell!ReadMember(w) \/ Bell!PostCopy(w) \/ Bell!MarkEmailed(w)
             \/ Bell!StepFails(w) \/ Bell!CourierDone(w) \/ Bell!CourierDies(w) \/ Bell!LoseLock(w)
      PROVE  Alone /\ Active
  <2>1. /\ courier[w].k \in Papers /\ courier[w].pc # "idle"
        /\ \A v \in Posters : v # w => courier'[v] = courier[v]
        /\ courier'[w].pc # "idle" => courier'[w].k = courier[w].k
        /\ courier'[w].pc # "idle" /\ courier[w].lost => courier'[w].lost
        /\ \A k \in Papers : k # courier[w].k => offer'[k] = offer[k]
    BY <1>0, <1>3, WorkerMoves
  <2>2. \A k \in Papers, v \in Posters : Runs(v, k)' => Runs(v, k)
    BY <2>1 DEF Runs
  <2>3. offer' = offer \/ (Bell!CourierDone(w) /\ ~courier[w].lost)
    BY <1>3 DEF Bell!ReadNotice, Bell!ReadMember, Bell!PostCopy, Bell!MarkEmailed,
         Bell!StepFails, Bell!CourierDone, Bell!CourierDies, Bell!LoseLock
  <2>4. PICK j \in Papers : j = courier[w].k
    BY <2>1
  <2>5. ASSUME Bell!CourierDone(w), ~courier[w].lost
        PROVE  \A v \in Posters : ~Runs(v, j)'
    <3>1. Runs(w, j)
      BY <2>1, <2>4, <2>5 DEF Runs
    <3>2. courier \in [Posters -> {Bell!Idle} \cup CourierRows]
      BY <1>0, BellShape
    <3>3. courier' = [courier EXCEPT ![w] = Bell!Idle] /\ Bell!Idle.pc = "idle"
      BY <2>5 DEF Bell!CourierDone, Bell!Idle
    <3>4. courier'[w].pc = "idle"
      BY <3>2, <3>3
    <3>5. ~Runs(w, j)'
      BY <3>4 DEF Runs
    <3>6. \A v \in Posters : Runs(v, j) => v = w
      BY <1>0, <3>1
    <3> QED BY <2>2, <3>5, <3>6
  <2> QED BY <1>0, <2>1, <2>2, <2>3, <2>4, <2>5
<1> QED BY <1>0, <1>1, <1>2, <1>3, BellCases

\* The count of the notice that a worker is about.
LEMMA CountHere ==
  ASSUME BellHolds, Bell!TypeOK', NEW w \in Posters, NEW j \in Papers, j = courier[w].k,
         \/ Bell!ReadNotice(w) \/ Bell!ReadMember(w) \/ Bell!PostCopy(w) \/ Bell!MarkEmailed(w)
         \/ Bell!StepFails(w) \/ Bell!CourierDone(w) \/ Bell!CourierDies(w) \/ Bell!LoseLock(w)
  PROVE  Counted(j)'
<1>0. /\ Bell!TypeOK /\ Counted(j)
      /\ \A u, v \in Posters : Runs(u, j) /\ Runs(v, j) => u = v
  BY DEF BellHolds
<1>1. /\ courier[w] \in CourierRows /\ courier[w].lost \in BOOLEAN /\ courier[w].pc # "idle"
      /\ \A v \in Posters : v # w => courier'[v] = courier[v]
      /\ courier'[w].pc # "idle" => courier'[w].k = j
      /\ courier'[w].pc # "idle" /\ courier[w].lost => courier'[w].lost
  BY <1>0, WorkerMoves
<1>2. \A v \in Posters : v # w => (Runs(v, j)' <=> Runs(v, j))
  BY <1>1 DEF Runs
<1>3. /\ \A v \in Posters : v # w => (v \in Late(j)' <=> v \in Late(j))
      /\ Late(j)' \subseteq Late(j) \cup {w}
  BY <1>1 DEF Late
<1>4. /\ courier \in [Posters -> {Bell!Idle} \cup CourierRows]
      /\ notice \in [Papers -> {"none", "unsent", "emailed"}] /\ copies \in [Papers -> Nat] /\ mishaps \in Nat
  BY <1>0, BellShape
<1>5. CASE Bell!ReadNotice(w)
  <2>1. /\ courier'[w].pc = IF notice[j] = "emailed" THEN "finish" ELSE "member"
        /\ courier'[w].lost = courier[w].lost
    BY <1>0, <1>1, <1>5, CourierMoves DEF Bell!ReadNotice, Bell!Of
  <2>2. courier[w].pc = "row" /\ notice' = notice /\ copies' = copies /\ mishaps' = mishaps
    BY <1>5 DEF Bell!ReadNotice
  <2>3. Late(j)' \subseteq Late(j)
    BY <1>1, <2>1, <2>2 DEF Late
  <2>4. Runs(w, j)' => Runs(w, j)
    BY <1>1, <2>1 DEF Runs
  <2>5. Owes(j)' => Owes(j)
    BY <1>1, <1>2, <2>1, <2>2, <2>4 DEF Owes
  <2> QED BY <1>0, <1>4, <2>2, <2>3, <2>5, CountKept
<1>6. CASE Bell!ReadMember(w)
  <2>1. courier'[w].pc \in {"post", "finish"} /\ courier'[w].lost = courier[w].lost
    <3>1. PICK pc \in {"post", "finish"} : Bell!Goto(w, pc)
      BY <1>6 DEF Bell!ReadMember
    <3> QED BY <1>0, <1>1, <3>1, CourierMoves
  <2>2. courier[w].pc = "member" /\ notice' = notice /\ copies' = copies /\ mishaps' = mishaps
    BY <1>6 DEF Bell!ReadMember
  <2>3. Late(j)' \subseteq Late(j)
    BY <1>1, <2>1, <2>2 DEF Late
  <2>4. Runs(w, j)' => Runs(w, j)
    BY <1>1, <2>1 DEF Runs
  <2>5. Owes(j)' => Owes(j)
    BY <1>1, <1>2, <2>1, <2>2, <2>4 DEF Owes
  <2> QED BY <1>0, <1>4, <2>2, <2>3, <2>5, CountKept
<1>7. CASE Bell!PostCopy(w)
  <2>1. courier'[w].pc = "mark" /\ courier'[w].lost = courier[w].lost
    BY <1>0, <1>1, <1>7, CourierMoves DEF Bell!PostCopy
  <2>2. courier[w].pc = "post" /\ notice' = notice /\ mishaps' = mishaps
    BY <1>7 DEF Bell!PostCopy
  <2>3. copies'[j] = copies[j] + 1
    BY <1>4, <1>7 DEF Bell!PostCopy, Bell!Of
  <2>4. w \notin Late(j)'
    BY <2>1 DEF Late
  <2>5. CASE courier[w].lost
    <3>1. w \in Late(j) /\ Late(j)' \subseteq Late(j) \ {w}
      BY <1>3, <2>2, <2>4, <2>5 DEF Late
    <3>2. ~Runs(w, j) /\ ~Runs(w, j)'
      BY <1>1, <2>1, <2>5 DEF Runs
    <3>3. Owes(j)' => Owes(j)
      BY <1>1, <1>2, <2>2, <3>2 DEF Owes
    <3> QED BY <1>0, <2>2, <2>3, <3>1, <3>3, CountKept
  <2>6. CASE ~courier[w].lost
    <3>1. Runs(w, j) /\ Runs(w, j)'
      BY <1>1, <2>1, <2>2, <2>6 DEF Runs
    <3>2. Owes(j)
      BY <2>2, <3>1 DEF Owes
    <3>3. \A v \in Posters : Runs(v, j)' => v = w
      BY <1>0, <1>2, <3>1
    <3>4. ~Owes(j)'
      BY <2>1, <3>1, <3>3 DEF Owes
    <3>5. Late(j)' \subseteq Late(j)
      BY <1>3, <2>4
    <3> QED BY <1>0, <2>2, <2>3, <3>2, <3>4, <3>5, CountKept
  <2> QED BY <2>5, <2>6
<1>8. CASE Bell!MarkEmailed(w)
  <2>1. courier'[w].pc = "finish"
    BY <1>0, <1>1, <1>8, CourierMoves DEF Bell!MarkEmailed
  <2>2. /\ courier[w].pc = "mark" /\ copies' = copies /\ mishaps' = mishaps
        /\ notice'[j] = "emailed"
    BY <1>4, <1>8 DEF Bell!MarkEmailed, Bell!Of
  <2>3. Late(j)' \subseteq Late(j)
    BY <1>3, <2>1 DEF Late
  <2>4. Owes(j)' => Owes(j)
    BY <1>1, <1>2, <2>1, <2>2 DEF Owes
  <2> QED BY <1>0, <1>4, <2>2, <2>3, <2>4, CountKept
<1>9. CASE Bell!StepFails(w)
  <2>1. courier'[w].pc = "throw"
    BY <1>0, <1>1, <1>9, CourierMoves DEF Bell!StepFails
  <2>2. copies' = copies /\ mishaps' = mishaps + 1
    BY <1>9 DEF Bell!StepFails, Bell!Lose
  <2>3. Late(j)' \subseteq Late(j)
    BY <1>3, <2>1 DEF Late
  <2> QED BY <1>0, <2>2, <2>3, CountKept
<1>10. CASE Bell!CourierDone(w)
  <2>1. courier' = [courier EXCEPT ![w] = Bell!Idle] /\ Bell!Idle.pc = "idle"
    BY <1>10 DEF Bell!CourierDone, Bell!Idle
  <2>2. courier'[w].pc = "idle"
    BY <1>4, <2>1
  <2>3. courier[w].pc \in {"finish", "throw"} /\ notice' = notice /\ copies' = copies /\ mishaps' = mishaps
    BY <1>10 DEF Bell!CourierDone
  <2>4. Late(j)' \subseteq Late(j)
    BY <1>3, <2>2 DEF Late
  <2>5. ~Runs(w, j)'
    BY <2>2 DEF Runs
  <2>6. Owes(j)' => Owes(j)
    BY <1>1, <1>2, <2>3, <2>5 DEF Owes
  <2> QED BY <1>0, <1>4, <2>3, <2>4, <2>6, CountKept
<1>11. CASE Bell!CourierDies(w)
  <2>1. courier' = [courier EXCEPT ![w] = Bell!Idle] /\ Bell!Idle.pc = "idle"
    BY <1>11 DEF Bell!CourierDies, Bell!Idle
  <2>2. courier'[w].pc = "idle"
    BY <1>4, <2>1
  <2>3. copies' = copies /\ mishaps' = mishaps + 1
    BY <1>11 DEF Bell!CourierDies, Bell!Lose
  <2>4. Late(j)' \subseteq Late(j)
    BY <1>3, <2>2 DEF Late
  <2> QED BY <1>0, <2>3, <2>4, CountKept
<1>12. CASE Bell!LoseLock(w)
  <2>1. courier' = [courier EXCEPT ![w] = [courier[w] EXCEPT !.lost = TRUE]]
    BY <1>12 DEF Bell!LoseLock
  <2>2. [courier[w] EXCEPT !.lost = TRUE].lost /\ [courier[w] EXCEPT !.lost = TRUE].pc = courier[w].pc
    BY <1>1 DEF CourierRows
  <2>3. courier'[w].pc = courier[w].pc /\ courier'[w].lost
    BY <1>4, <2>1, <2>2
  <2>4. ~courier[w].lost /\ notice' = notice /\ copies' = copies /\ mishaps' = mishaps + 1
    BY <1>12 DEF Bell!LoseLock, Bell!Lose
  <2>5. CASE courier[w].pc \in {"row", "member", "post"}
    <3>1. Runs(w, j) /\ ~Runs(w, j)'
      BY <1>1, <2>3, <2>4 DEF Runs
    <3>2. \A v \in Posters : ~Runs(v, j)'
      BY <1>0, <1>2, <3>1
    <3>3. \A v \in Posters : Runs(v, j) => courier[v].pc # "mark"
      BY <1>0, <2>5, <3>1
    <3>4. Owes(j)' => Owes(j)
      BY <2>4, <3>2, <3>3 DEF Owes
    <3> QED BY <1>0, <1>3, <2>4, <3>4, CountKept
  <2>6. CASE courier[w].pc \notin {"row", "member", "post"}
    <3>1. Late(j)' \subseteq Late(j)
      BY <1>3, <2>3, <2>6 DEF Late
    <3> QED BY <1>0, <2>4, <3>1, CountKept
  <2> QED BY <2>5, <2>6
<1> QED BY <1>5, <1>6, <1>7, <1>8, <1>9, <1>10, <1>11, <1>12

LEMMA BellCounts ==
  ASSUME BellHolds, Bell!TypeOK', Bell!Next, NEW k \in Papers
  PROVE  Counted(k)'
<1>0. /\ Bell!TypeOK /\ Counted(k)
      /\ \A v \in Posters : Runs(v, k) => offer[k] = "active"
  BY DEF BellHolds
<1>1. ASSUME UNCHANGED <<courier, copies>>, notice'[k] = "emailed" <=> notice[k] = "emailed",
             mishaps' = mishaps \/ mishaps' = mishaps + 1
      PROVE  Counted(k)'
  <2>1. \A v \in Posters : Runs(v, k)' <=> Runs(v, k)
    BY <1>1 DEF Runs
  <2>2. Owes(k)' => Owes(k)
    BY <1>1, <2>1 DEF Owes
  <2>3. Late(k)' \subseteq Late(k)
    BY <1>1 DEF Late
  <2>4. mishaps <= mishaps'
    BY <1>0, <1>1, BellShape
  <2> QED BY <1>0, <1>1, <2>2, <2>3, <2>4, CountKept
<1>2. ASSUME NEW w \in Posters, NEW j \in Papers, Bell!TakeOffer(w, j)
      PROVE  Counted(k)'
  <2>1. /\ courier[w].pc = "idle" /\ offer[j] = "queued" /\ UNCHANGED <<notice, copies, mishaps>>
        /\ courier'[w].pc = "row" /\ courier'[w].k = j /\ courier'[w].lost = FALSE
        /\ \A v \in Posters : v # w => courier'[v] = courier[v]
    BY <1>0, <1>2, TakeMoves
  <2>2. CASE k # j
    BY <1>0, <2>1, <2>2, ElsewhereKept
  <2>3. CASE k = j
    <3>1. \A v \in Posters : ~Runs(v, k)
      BY <1>0, <2>1, <2>3
    <3>2. \A v \in Posters : Runs(v, k)' => v = w
      BY <2>1, <3>1 DEF Runs
    <3>3. Owes(k)' => Owes(k)
      BY <2>1, <3>1, <3>2 DEF Owes
    <3>4. Late(k)' \subseteq Late(k)
      BY <2>1 DEF Late
    <3>5. mishaps <= mishaps'
      BY <1>0, <2>1, BellShape
    <3> QED BY <1>0, <2>1, <3>3, <3>4, <3>5, CountKept
  <2> QED BY <2>2, <2>3
<1>3. ASSUME NEW w \in Posters,
             \/ Bell!ReadNotice(w) \/ Bell!ReadMember(w) \/ Bell!PostCopy(w) \/ Bell!MarkEmailed(w)
             \/ Bell!StepFails(w) \/ Bell!CourierDone(w) \/ Bell!CourierDies(w) \/ Bell!LoseLock(w)
      PROVE  Counted(k)'
  <2>1. /\ courier[w].k \in Papers
        /\ \A v \in Posters : v # w => courier'[v] = courier[v]
        /\ courier'[w].pc # "idle" => courier'[w].k = courier[w].k
        /\ \A i \in Papers : i # courier[w].k => notice'[i] = notice[i] /\ copies'[i] = copies[i]
        /\ mishaps' = mishaps \/ mishaps' = mishaps + 1
    BY <1>0, <1>3, WorkerMoves
  <2>2. PICK j \in Papers : j = courier[w].k
    BY <2>1
  <2>3. CASE k = j
    BY <1>3, <2>2, <2>3, CountHere
  <2>4. CASE k # j
    BY <1>0, <2>1, <2>2, <2>4, ElsewhereKept
  <2> QED BY <2>3, <2>4
<1> QED BY <1>0, <1>1, <1>2, <1>3, BellCases

LEMMA BellStep == BellHolds /\ Bell!Next => BellHolds'
<1> SUFFICES ASSUME BellHolds, Bell!Next
             PROVE  BellHolds'
  OBVIOUS
<1>1. Bell!TypeOK'
  BY BellTypes DEF BellHolds
<1>2. \A k \in Papers : Counted(k)'
  BY <1>1, BellCounts
<1>3. /\ \A k \in Papers : notice'[k] = "emailed" => copies'[k] > 0
      /\ \A w \in Posters : courier'[w].pc = "mark" => copies'[courier'[w].k] > 0
  BY BellMarks
<1>4. /\ \A k \in Papers, v, w \in Posters : Runs(v, k)' /\ Runs(w, k)' => v = w
      /\ \A k \in Papers, w \in Posters : Runs(w, k)' => offer'[k] = "active"
  BY BellRuns
<1> QED BY <1>1, <1>2, <1>3, <1>4 DEF BellHolds

\* What stands still stands.
LEMMA MailIdle ==
  ASSUME UNCHANGED letterVars
  PROVE  /\ MailHolds => MailHolds'
         /\ PostHolds => PostHolds'
         /\ TidyHolds /\ UNCHANGED overtaken => TidyHolds'
<1>0. UNCHANGED <<letter, record, suppressed, prints, send, message, outbox, poster, mails, losses>>
  BY DEF letterVars
<1>1. Mail!TypeOK' <=> Mail!TypeOK
  BY <1>0 DEF Mail!TypeOK
<1>2. \A l \in Papers : Recorded(l)' <=> Recorded(l)
  BY <1>0 DEF Recorded
<1>3. ASSUME NEW s \in Calls
      PROVE  SendHolds(s) => SendHolds(s)'
  BY <1>0, Zenon DEF SendHolds, Recorded, Beyond
<1>4. \A l \in Papers : LetterHolds(l) => LetterHolds(l)'
  BY <1>0, <1>2 DEF LetterHolds, Mail!Sent
<1>5. MailHolds => MailHolds'
  BY <1>1, <1>3, <1>4 DEF MailHolds
<1>6. PostHolds => PostHolds'
  BY <1>0 DEF PostHolds, OneCarrier, Carried, Queued
<1>7. \A l \in Papers : Quiet(l) => Quiet(l)'
  BY <1>0 DEF Quiet, UnderWay
<1>8. \A s \in Calls : Tidy(s) => Tidy(s)'
  BY <1>0 DEF Tidy
<1>9. ASSUME TidyHolds, UNCHANGED overtaken
      PROVE  TidyHolds'
  BY <1>0, <1>7, <1>8, <1>9 DEF TidyHolds
<1> QED BY <1>5, <1>6, <1>9

LEMMA BellIdle ==
  ASSUME BellHolds, UNCHANGED noticeVars
  PROVE  BellHolds'
<1>0. UNCHANGED <<notice, wants, producer, offer, courier, copies, mishaps>>
  BY DEF noticeVars
<1>1. Bell!TypeOK'
  BY <1>0 DEF BellHolds, Bell!TypeOK
<1>2. \A k \in Papers, w \in Posters : Runs(w, k)' <=> Runs(w, k)
  BY <1>0 DEF Runs
<1>3. \A k \in Papers : Late(k)' = Late(k)
  BY <1>0 DEF Late
<1>4. \A k \in Papers : Owes(k)' <=> Owes(k)
  BY <1>0, <1>2 DEF Owes
<1>5. \A k \in Papers : Owed(k)' = Owed(k)
  BY <1>4 DEF Owed
<1>6. \A k \in Papers : Counted(k) => Counted(k)'
  BY <1>0, <1>3, <1>5 DEF Counted
<1> QED BY <1>0, <1>1, <1>2, <1>6 DEF BellHolds

LEMMA LettersBegin ==
  ASSUME OfficeInit
  PROVE  MailHolds /\ PostHolds /\ TidyHolds /\ BellHolds
<1>0. Mail!Init /\ Bell!Init /\ overtaken = FALSE /\ 0 \in 0 .. MaxLosses
  BY OfficeAssumption DEF OfficeInit
<1>1. Mail!TypeOK
  BY <1>0 DEF Mail!Init, Mail!TypeOK
<1>2. /\ \A l \in Papers : letter[l] = Mail!NoLetter /\ letter[l].status = "none"
      /\ \A s \in Calls : send[s] = Mail!Idle /\ send[s].pc = "idle" /\ message[s] = "none"
                          /\ s \notin prints /\ outbox[s] = "none" /\ mails[s] = 0
      /\ \A w \in Posters : poster[w].pc = "idle"
      /\ losses = 0
  BY <1>0 DEF Mail!Init, Mail!NoLetter, Mail!Idle
<1>3. MailHolds
  BY <1>1, <1>2 DEF MailHolds, SendHolds, LetterHolds
<1>4. PostHolds
  BY <1>2 DEF PostHolds, OneCarrier, Carried, Queued
<1>5. TidyHolds
  BY <1>0, <1>2 DEF TidyHolds, Tidy, Quiet
<1>6. Bell!TypeOK
  BY <1>0 DEF Bell!Init, Bell!TypeOK
<1>7. /\ \A k \in Papers : notice[k] = "none" /\ copies[k] = 0
      /\ \A w \in Posters : courier[w].pc = "idle"
      /\ mishaps = 0
  BY <1>0 DEF Bell!Init, Bell!Idle
<1>8. ASSUME NEW k \in Papers
      PROVE  Counted(k)
  <2>1. Late(k) = {}
    BY <1>7 DEF Late
  <2>2. IsFiniteSet({}) /\ Cardinality({}) = 0
    BY FS_EmptySet
  <2>3. Owed(k) \in {0, 1}
    BY DEF Owed
  <2> QED BY <1>7, <2>1, <2>2, <2>3 DEF Counted
<1>9. BellHolds
  BY <1>6, <1>7, <1>8 DEF BellHolds, Runs
<1> QED BY <1>3, <1>4, <1>5, <1>9

\* What the four of them say of a state.
LEMMA LettersTell ==
  ASSUME MailHolds, PostHolds, TidyHolds, BellHolds
  PROVE  LettersStand
<1>1. Mail!TypeOK /\ (\A s \in Calls : SendHolds(s)) /\ (\A l \in Papers : LetterHolds(l))
  BY DEF MailHolds
<1>2. \A l \in Papers : Mail!Sent(l) => letter[l] # Mail!NoLetter
  BY DEF Mail!Sent, Mail!NoLetter
<1>3. Mail!SentIsPrinted
  BY <1>1, <1>2 DEF Mail!SentIsPrinted, LetterHolds
<1>4. Mail!MailOpensLetter
  BY <1>1 DEF Mail!MailOpensLetter, SendHolds, Mail!Sent
<1>5. Mail!SentIsSettled
  BY <1>1, <1>2 DEF Mail!SentIsSettled, LetterHolds, Recorded
<1>6. losses = 0 => Mail!MailedOnce
  BY DEF PostHolds, Queued, Mail!MailedOnce
<1>7. ASSUME losses = 0, ~overtaken
      PROVE  Mail!NoStrayPrint /\ \A l \in Papers : Mail!ErasedIsGone(l)
  <2>1. (\A l \in Papers : Quiet(l)) /\ \A s \in Calls : Tidy(s)
    BY <1>7 DEF TidyHolds
  <2>2. prints \subseteq Calls
    BY <1>1 DEF Mail!TypeOK
  <2>3. Mail!NoStrayPrint
    BY <2>1, <2>2 DEF Mail!NoStrayPrint, Tidy
  <2>4. \A l \in Papers : Mail!ErasedIsGone(l)
    <3>1. ASSUME NEW l \in Papers, letter[l] # Mail!NoLetter, letter[l].disposal = "done",
                 NEW s \in Calls, send[s] # Mail!Idle, send[s].l = l
          PROVE  s \notin prints /\ message[s] # "sealed" /\ letter[l].link # s
      <4>1. send[s].pc # "idle"
        BY <1>1, <3>1, MailShape
      <4>2. letter[l].link = None
        BY <2>1, <3>1 DEF Quiet
      <4> QED BY <2>1, <3>1, <4>1, <4>2, NoneIsNoCall DEF Tidy
    <3> QED BY <3>1 DEF Mail!ErasedIsGone
  <2> QED BY <2>3, <2>4
<1>8. Bell!TypeOK /\ Bell!CopiesBounded
  <2>1. Bell!TypeOK /\ \A k \in Papers : Counted(k) /\ (notice[k] = "emailed" => copies[k] > 0)
    BY DEF BellHolds
  <2>2. ASSUME NEW k \in Papers
        PROVE  copies[k] <= 1 + mishaps
    <3>1. copies[k] \in Nat /\ mishaps \in Nat
      BY <2>1, BellShape
    <3>2. Cardinality(Late(k)) \in Nat /\ Owed(k) \in {0, 1}
      BY <2>1, FS_CardinalityType DEF Counted, Owed
    <3> QED BY <2>1, <3>1, <3>2 DEF Counted
  <2> QED BY <2>1, <2>2 DEF Bell!CopiesBounded
<1> QED BY <1>1, <1>3, <1>4, <1>5, <1>6, <1>7, <1>8 DEF LettersStand

(* However many sends, workers and producers overlap, whatever fails: a    *)
(* letter is sent once, with its PDF or with a message whose link opens    *)
(* it, of what was recorded; while nothing fails nothing is left over or   *)
(* mailed twice, and what is erased is gone unless a send was overtaken;   *)
(* and a notice goes out once, and once more for each fault.               *)
THEOREM LettersAlwaysStand == OfficeSpec => []LettersStand
<1> DEFINE Hold == MailHolds /\ PostHolds /\ TidyHolds /\ BellHolds
<1>1. OfficeInit => Hold
  BY LettersBegin
<1>2. Hold /\ [OfficeNext]_everything => Hold'
  <2> SUFFICES ASSUME MailHolds, PostHolds, TidyHolds, BellHolds, [OfficeNext]_everything
               PROVE  MailHolds' /\ PostHolds' /\ TidyHolds' /\ BellHolds'
    OBVIOUS
  <2>1. CASE MailNext /\ UNCHANGED noticeVars
    <3>1. Mail!Next
      BY <2>1 DEF MailNext
    <3>2. MailHolds'
      <4>1. Mail!TypeOK'
        BY <3>1, MailTypes, MailDrafted DEF MailHolds
      <4> QED BY <3>1, <4>1, SendsHold, LettersHold DEF MailHolds
    <3>3. PostHolds'
      BY <3>1, PostStep
    <3>4. TidyHolds'
      BY <2>1, TidyStep
    <3>5. BellHolds'
      BY <2>1, BellIdle
    <3> QED BY <3>2, <3>3, <3>4, <3>5
  <2>2. CASE UNCHANGED letterVars /\ UNCHANGED overtaken /\ Bell!Next
    BY <2>2, MailIdle, BellStep
  <2>3. CASE UNCHANGED <<letterVars, noticeVars, overtaken>>
    BY <2>3, MailIdle, BellIdle
  <2>4. UNCHANGED everything => UNCHANGED <<letterVars, noticeVars, overtaken>>
    BY DEF everything, history
  <2> QED BY <2>1, <2>2, <2>3, <2>4 DEF OfficeNext, MailNext
<1>3. Hold => LettersStand
  BY LettersTell
<1> HIDE DEF Hold
<1> QED BY <1>1, <1>2, <1>3, PTL DEF OfficeSpec
=============================================================================
