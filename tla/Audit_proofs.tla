---------------------------- MODULE Audit_proofs ----------------------------
(***************************************************************************)
(* The two halves of one audit chain.                                      *)
(*                                                                         *)
(* Appending to it and walking it, for any number of transactions, events  *)
(* and clock readings and any page size: the committed events, and those a *)
(* transaction has written under the lock, are one chain in the verifier's *)
(* order.  From that: no insert meets the unique index, no walk diverges,  *)
(* and the chain is a log that only grows at its end.                      *)
(*                                                                         *)
(* Its scheduled verification, for any number of jobs, events, days and    *)
(* restores.  First what holds however the runs overlap: checkpoints       *)
(* stand, and a chain that lost anchored events is never signed again.     *)
(* Then what holds while runs do not overlap: the anchors link and no      *)
(* alarm is false.                                                         *)
(***************************************************************************)
EXTENDS MCAudit, FiniteSetTheorems, WellFoundedInduction, TLAPS

-----------------------------------------------------------------------------
(* Finite sets of events in the order of the chain.                        *)

(* Events with ids of their own.                                           *)
Distinct(S) ==
  /\ S \subseteq Events /\ IsFiniteSet(S)
  /\ \A r, s \in S : r.id = s.id => r = s

Earlier(r, S) == {s \in S : Before(s, r)}
Rank(r, S) == Cardinality(Earlier(r, S))

\* The shape of an event.
LEMMA EventShape ==
  ASSUME NEW r \in Events
  PROVE  /\ r.ts \in Nat /\ r.id \in Ids /\ r.prev \in Ids \cup {None}
         /\ r.id \in Nat /\ r.id # None
BY BoundsAssumption DEF Events, Ids, None

\* Timestamps and then ids order the events.
LEMMA Total ==
  ASSUME NEW S, Distinct(S), NEW r \in S, NEW s \in S
  PROVE  r # s => Before(r, s) \/ Before(s, r)
<1>1. r \in Events /\ s \in Events /\ (r.id = s.id => r = s)
  BY DEF Distinct
<1> QED BY <1>1, EventShape DEF Before

\* Of two events only one comes first.
LEMMA Strict ==
  ASSUME NEW r \in Events, NEW s \in Events
  PROVE  ~(Before(r, s) /\ Before(s, r)) /\ ~Before(r, r)
BY EventShape DEF Before

\* The order is transitive.
LEMMA Transitive ==
  ASSUME NEW r \in Events, NEW s \in Events, NEW q \in Events, Before(q, r), Before(r, s)
  PROVE  Before(q, s)
BY EventShape DEF Before

\* A number of events come before each.
LEMMA RankType ==
  ASSUME NEW S, Distinct(S), NEW r \in S
  PROVE  /\ IsFiniteSet(Earlier(r, S)) /\ Cardinality(S) \in Nat
         /\ Rank(r, S) \in Nat /\ Rank(r, S) + 1 <= Cardinality(S)
<1>1. Earlier(r, S) \in SUBSET S /\ IsFiniteSet(S) /\ r \in Events
  BY DEF Earlier, Distinct
<1>2. IsFiniteSet(Earlier(r, S))
  BY <1>1, FS_Subset
<1>3. r \notin Earlier(r, S)
  BY <1>1, Strict DEF Earlier
<1>4. Cardinality(Earlier(r, S) \cup {r}) = Rank(r, S) + 1
  BY <1>2, <1>3, FS_AddElement DEF Rank
<1>5. Earlier(r, S) \cup {r} \in SUBSET S
  BY <1>1
<1>6. Cardinality(Earlier(r, S) \cup {r}) <= Cardinality(S)
  BY <1>1, <1>5, FS_Subset
<1>7. Rank(r, S) \in Nat /\ Cardinality(S) \in Nat
  BY <1>1, <1>2, FS_CardinalityType DEF Rank
<1> QED BY <1>2, <1>4, <1>6, <1>7

\* An event has more events before it than any of those has.
LEMMA RankGrows ==
  ASSUME NEW S, Distinct(S), NEW r \in S, NEW s \in S, Before(r, s)
  PROVE  Rank(r, S) + 1 <= Rank(s, S)
<1>1. r \in Events /\ s \in Events /\ S \subseteq Events
  BY DEF Distinct
<1>2. Earlier(r, S) \cup {r} \in SUBSET Earlier(s, S)
  BY <1>1, Transitive DEF Earlier
<1>3. r \notin Earlier(r, S)
  BY <1>1, Strict DEF Earlier
<1>4. Cardinality(Earlier(r, S) \cup {r}) = Rank(r, S) + 1
  BY <1>3, RankType, FS_AddElement DEF Rank
<1>5. IsFiniteSet(Earlier(s, S))
  BY RankType
<1> QED BY <1>2, <1>4, <1>5, FS_Subset DEF Rank

\* A set of numbers that is not empty has a least one.
LEMMA MinExists ==
  ASSUME NEW S \in SUBSET Nat, S # {}
  PROVE  \E m \in S : \A k \in S : m <= k
<1> DEFINE R == {ss \in Nat \X Nat : ss[1] < ss[2]}
<1>1. IsWellFoundedOn(R, Nat)
  BY NatLessThanWellFounded DEF OpToRel
<1>2. PICK x \in S : \A y \in S : <<y, x>> \notin R
  <2> HIDE DEF R
  <2> QED BY <1>1, WFMin
<1>3. \A y \in S : ~(y < x)
  BY <1>2
<1> QED BY <1>3

\* A set of events that is not empty has a first one.
LEMMA FirstExists ==
  ASSUME NEW S, Distinct(S), S # {}
  PROVE  \E r \in S : \A s \in S : s # r => Before(r, s)
<1> DEFINE N == {Rank(r, S) : r \in S}
<1>1. N \in SUBSET Nat /\ N # {}
  BY RankType
<1>2. PICK m \in N : \A k \in N : m <= k
  <2> HIDE DEF N
  <2> QED BY <1>1, MinExists
<1>3. PICK r \in S : m = Rank(r, S)
  BY <1>2
<1>4. ASSUME NEW s \in S, s # r PROVE Before(r, s)
  <2>1. Rank(r, S) <= Rank(s, S) /\ Rank(r, S) \in Nat /\ Rank(s, S) \in Nat
    BY <1>2, <1>3, RankType
  <2>2. ~Before(s, r)
    <3>1. Before(s, r) => Rank(s, S) + 1 <= Rank(r, S)
      BY RankGrows
    <3> QED BY <2>1, <3>1
  <2> QED BY <1>4, <2>2, Total
<1> QED BY <1>4

\* And a last one.
LEMMA LastExists ==
  ASSUME NEW S, Distinct(S), S # {}
  PROVE  \E r \in S : \A s \in S : s # r => Before(s, r)
<1> DEFINE N == {Cardinality(S) - Rank(r, S) : r \in S}
<1>1. N \in SUBSET Nat
  BY RankType
<1>2. N # {}
  OBVIOUS
<1>3. PICK m \in N : \A k \in N : m <= k
  <2> HIDE DEF N
  <2> QED BY <1>1, <1>2, MinExists
<1>4. PICK r \in S : m = Cardinality(S) - Rank(r, S)
  BY <1>3
<1>5. ASSUME NEW s \in S, s # r PROVE Before(s, r)
  <2>1. Cardinality(S) - Rank(r, S) <= Cardinality(S) - Rank(s, S)
    BY <1>3, <1>4
  <2>2. Cardinality(S) \in Nat /\ Rank(r, S) \in Nat /\ Rank(s, S) \in Nat
    BY RankType
  <2>3. ~Before(r, s)
    <3>1. Before(r, s) => Rank(r, S) + 1 <= Rank(s, S)
      BY RankGrows
    <3> QED BY <2>1, <2>2, <3>1
  <2> QED BY <1>5, <2>3, Total
<1> QED BY <1>5

\* The event Last chooses.
LEMMA LastIs ==
  ASSUME NEW S, Distinct(S)
  PROVE  /\ S # {} => Last(S) \in S /\ \A s \in S : s # Last(S) => Before(s, Last(S))
         /\ \A r \in S : (\A s \in S : s # r => Before(s, r)) => r = Last(S)
<1>1. ASSUME S # {}
      PROVE  Last(S) \in S /\ \A s \in S : s # Last(S) => Before(s, Last(S))
  <2>1. \E r \in S : \A s \in S \ {r} : Before(s, r)
    BY <1>1, LastExists
  <2> QED BY <2>1 DEF Last
<1>2. ASSUME NEW r \in S, \A s \in S : s # r => Before(s, r)
      PROVE  r = Last(S)
  <2> DEFINE l == Last(S)
  <2>1. l \in S /\ \A s \in S : s # l => Before(s, l)
    BY <1>1, <1>2
  <2> HIDE DEF l
  <2>2. r \in Events /\ l \in Events
    BY <2>1 DEF Distinct
  <2>3. r = l
    BY <1>2, <2>1, <2>2, Strict
  <2> QED BY <2>3 DEF l
<1> QED BY <1>1, <1>2

-----------------------------------------------------------------------------
(* Chains.                                                                 *)

(* The event r links to is the one before it, and there is one unless r is *)
(* the first.                                                              *)
LinksIn(r, S) ==
  \/ r.prev = None /\ \A s \in S : ~Before(s, r)
  \/ \E p \in S : /\ p.id = r.prev /\ Before(p, r)
                  /\ \A s \in S : Before(s, r) /\ s # p => Before(s, p)

Chained(S) == Distinct(S) /\ \A r \in S : LinksIn(r, S)

(* An event that continues a chain.                                        *)
Follows(e, S) ==
  /\ e \in Events
  /\ \A s \in S : s.id # e.id /\ Before(s, e)
  /\ IF S = {} THEN e.prev = None ELSE e.prev = Last(S).id

\* A chain and an event that continues it are a chain.
LEMMA ChainExtends ==
  ASSUME NEW S, NEW e, Chained(S), Follows(e, S)
  PROVE  Chained(S \cup {e})
<1> DEFINE T == S \cup {e}
<1>1. Distinct(S) /\ S \subseteq Events /\ e \in Events
  BY DEF Chained, Distinct, Follows
<1>2. Distinct(T)
  <2>1. IsFiniteSet(T)
    BY <1>1, FS_AddElement DEF Distinct
  <2> QED BY <1>1, <2>1 DEF Distinct, Follows
<1>3. LinksIn(e, T)
  <2>1. ~Before(e, e)
    BY <1>1, Strict
  <2>2. CASE S = {}
    BY <2>1, <2>2 DEF Follows, LinksIn
  <2>3. CASE S # {}
    <3>1. Last(S) \in S /\ \A s \in S : s # Last(S) => Before(s, Last(S))
      BY <1>1, <2>3, LastIs
    <3>2. e.prev = Last(S).id /\ Before(Last(S), e)
      BY <2>3, <3>1 DEF Follows
    <3> QED BY <2>1, <3>1, <3>2 DEF LinksIn
  <2> QED BY <2>2, <2>3
<1>4. ASSUME NEW r \in S PROVE LinksIn(r, T)
  <2>1. Before(r, e) /\ LinksIn(r, S) /\ r \in Events
    BY <1>1 DEF Follows, Chained
  <2>2. ~Before(e, r)
    BY <1>1, <2>1, Strict
  <2> QED BY <2>1, <2>2 DEF LinksIn
<1> QED BY <1>2, <1>3, <1>4 DEF Chained

\* No event of a chain links to where the next one will.
LEMMA FollowerFits ==
  ASSUME NEW S, NEW e, Chained(S), Follows(e, S)
  PROVE  Fits(e, S)
<1> SUFFICES ASSUME NEW r \in S, r.prev = e.prev PROVE FALSE
  BY DEF Fits
<1>1. Distinct(S) /\ S # {} /\ r \in Events
  BY DEF Chained, Distinct
<1>2. Last(S) \in S /\ \A s \in S : s # Last(S) => Before(s, Last(S))
  BY <1>1, LastIs
<1>3. Last(S) \in Events /\ e.prev = Last(S).id
  BY <1>1, <1>2 DEF Distinct, Follows
<1>4. PICK p \in S : p.id = r.prev /\ Before(p, r)
  <2>1. r.prev # None
    BY <1>3, EventShape
  <2> QED BY <2>1 DEF Chained, LinksIn
<1>5. p = Last(S)
  BY <1>1, <1>2, <1>3, <1>4 DEF Distinct
<1>6. Before(Last(S), r) /\ r # Last(S)
  BY <1>1, <1>4, <1>5, Strict
<1> QED BY <1>1, <1>2, <1>3, <1>6, Strict

(* A cursor of the walk: the beginning or an event of the chain.           *)
CursorStands(c) ==
  c = Genesis \/ \E r \in rows : r.ts = c.ts /\ r.id = c.id

\* Every event is after the beginning; after another cursor are the events
\* after its event.
LEMMA CursorOrder ==
  ASSUME Distinct(rows), NEW c \in Cursors, CursorStands(c)
  PROVE  \/ c = Genesis /\ \A r \in rows : Before(c, r)
         \/ \E x \in rows : x.id = c.id /\ \A r \in rows : Before(c, r) <=> Before(x, r)
<1>1. CASE c = Genesis
  <2>1. \A r \in rows : r.ts \in Nat
    BY EventShape DEF Distinct
  <2> QED BY <1>1, <2>1 DEF Genesis, Before
<1>2. ASSUME NEW x \in rows, x.ts = c.ts, x.id = c.id
      PROVE  \A r \in rows : Before(c, r) <=> Before(x, r)
  BY <1>2 DEF Before
<1> QED BY <1>1, <1>2 DEF CursorStands

\* A page is of rows after the cursor, and holds whatever of them comes before
\* one of its rows.
LEMMA PageClosed ==
  ASSUME Distinct(rows), NEW c \in Cursors, NEW r \in Page(c)
  PROVE  /\ Page(c) \subseteq After(c) /\ After(c) \subseteq rows
         /\ \A s \in After(c) : Before(s, r) => s \in Page(c)
<1>1. Page(c) \subseteq After(c) /\ After(c) \subseteq rows
  BY DEF Page, After
<1>2. Distinct(After(c))
  <2>1. IsFiniteSet(After(c))
    BY <1>1, FS_Subset DEF Distinct
  <2> QED BY <1>1, <2>1 DEF Distinct
<1>3. ASSUME NEW s \in After(c), Before(s, r) PROVE s \in Page(c)
  <2>1. Rank(s, After(c)) + 1 <= Rank(r, After(c))
    BY <1>1, <1>2, <1>3, RankGrows
  <2>2. Rank(r, After(c)) < PageSize
    BY DEF Page, Rank, Earlier
  <2>3. Rank(s, After(c)) \in Nat /\ Rank(r, After(c)) \in Nat
    BY <1>1, <1>2, RankType
  <2>4. Rank(s, After(c)) < PageSize
    BY <2>1, <2>2, <2>3, BoundsAssumption
  <2> QED BY <2>4 DEF Page, Rank, Earlier
<1> QED BY <1>1, <1>3

\* The pages of a chain link to where the walk is, and to one another.
LEMMA PageLinks ==
  ASSUME Chained(rows), NEW c \in Cursors, CursorStands(c)
  PROVE  Linked(c, Page(c))
<1> SUFFICES ASSUME NEW r \in Page(c) PROVE r.prev = Predecessor(r, c, Page(c))
  BY DEF Linked
<1> DEFINE P == Page(c)
           B == {s \in P : Before(s, r)}
<1>1. /\ Distinct(rows) /\ P \subseteq After(c) /\ P \subseteq rows /\ r \in rows
      /\ \A s \in After(c) : Before(s, r) => s \in P
  BY PageClosed DEF Chained
<1>2. LinksIn(r, rows) /\ Before(c, r) /\ rows \subseteq Events
  BY <1>1 DEF Chained, After, Distinct
<1>3. Distinct(B)
  <2>1. B \in SUBSET rows
    BY <1>1
  <2>2. IsFiniteSet(B)
    BY <1>1, <2>1, FS_Subset DEF Distinct
  <2> QED BY <1>1, <2>1, <2>2 DEF Distinct
<1> HIDE DEF P
<1>4. CASE r.prev = None /\ \A s \in rows : ~Before(s, r)
  <2>1. B = {}
    BY <1>1, <1>4
  <2>2. c = Genesis
    BY <1>1, <1>2, <1>4, CursorOrder
  <2> QED BY <1>4, <2>1, <2>2 DEF Predecessor, Genesis, P
<1>5. ASSUME NEW p \in rows, p.id = r.prev, Before(p, r),
             \A s \in rows : Before(s, r) /\ s # p => Before(s, p)
      PROVE  r.prev = Predecessor(r, c, Page(c))
  <2>1. CASE Before(c, p)
    <3>1. p \in B
      BY <1>1, <1>5, <2>1 DEF After
    <3>2. \A s \in B : s # p => Before(s, p)
      BY <1>1, <1>5
    <3> HIDE DEF B
    <3>3. p = Last(B) /\ B # {}
      BY <1>3, <3>1, <3>2, LastIs
    <3> QED BY <1>5, <3>3 DEF Predecessor, B, P
  <2>2. CASE ~Before(c, p)
    <3>1. PICK x \in rows : x.id = c.id /\ \A q \in rows : Before(c, q) <=> Before(x, q)
      BY <1>1, <1>5, <2>2, CursorOrder
    <3>2. x = p
      <4>1. Before(x, r) /\ ~Before(x, p)
        BY <1>1, <1>2, <1>5, <2>2, <3>1
      <4> QED BY <1>5, <4>1
    <3>3. B = {}
      <4> SUFFICES ASSUME NEW s \in B PROVE FALSE
        OBVIOUS
      <4>1. s \in rows /\ Before(c, s) /\ Before(s, r)
        BY <1>1 DEF After
      <4>2. Before(p, s)
        BY <3>1, <3>2, <4>1
      <4> QED BY <1>2, <1>5, <4>1, <4>2, Strict
    <3> QED BY <1>5, <3>1, <3>2, <3>3 DEF Predecessor, P
  <2> QED BY <2>1, <2>2
<1> QED BY <1>2, <1>4, <1>5 DEF LinksIn

\* A page that is not empty ends at one of its rows.
LEMMA PageEnds ==
  ASSUME Distinct(rows), NEW c \in Cursors, Page(c) # {}
  PROVE  Last(Page(c)) \in rows
<1>1. Page(c) \in SUBSET rows
  BY DEF Page, After
<1>2. Distinct(Page(c))
  BY <1>1, FS_Subset DEF Distinct
<1> QED BY <1>1, <1>2, LastIs

-----------------------------------------------------------------------------
(* The inductive invariant.                                                *)

(* What a transaction sees is one chain, its own events after the          *)
(* committed ones; only the holder of the lock has any, and the event it   *)
(* is about to insert continues that chain.                                *)
TxHolds(t) ==
  /\ tx[t].mine # {} => lock = t
  /\ Chained(Visible(t))
  /\ \A r \in rows, m \in tx[t].mine : Before(r, m)
  /\ At(t, "insert") => Follows(tx[t].next, Visible(t))

WalkHolds ==
  /\ CursorStands(resume)
  /\ Walking => ~walk.diverged /\ CursorStands(walk.at)

IInv == TypeOK /\ Chained(rows) /\ (\A t \in Txs : TxHolds(t)) /\ WalkHolds

\* The shape of a transaction.
LEMMA TxShape ==
  ASSUME TypeOK, NEW t \in Txs
  PROVE  /\ tx[t].mine \in SUBSET Events
         /\ At(t, "idle") <=> tx[t] = IdleTx
         /\ At(t, "insert") <=> tx[t] \in Pending
         /\ At(t, "insert") => tx[t].next \in Events
         /\ tx[t].pc \in {"idle", "wait", "read", "insert", "open"}
         /\ tx[t].pc \in {"wait", "read", "open"} => tx[t] \in Quiet
<1>1. tx[t] = IdleTx \/ tx[t] \in Quiet \/ tx[t] \in Pending
  BY DEF TypeOK
<1>2. CASE tx[t] = IdleTx
  BY <1>2 DEF IdleTx, At, Pending
<1>3. CASE tx[t] \in Quiet
  BY <1>3 DEF Quiet, At, IdleTx, Pending
<1>4. CASE tx[t] \in Pending
  BY <1>4 DEF Pending, At, IdleTx
<1> QED BY <1>1, <1>2, <1>3, <1>4

\* A transaction that a step leaves alone sees what it saw.
LEMMA OtherTx ==
  ASSUME IInv, NEW u \in Txs, tx'[u] = tx[u], rows' = rows, lock = u => lock' = u
  PROVE  TxHolds(u)'
<1>1. TxHolds(u)
  BY DEF IInv
<1> QED BY <1>1 DEF TxHolds, Visible, At

\* Cursors outlive a step that removes no row.
LEMMA WalkKept ==
  ASSUME WalkHolds, UNCHANGED <<walk, resume>>, rows \subseteq rows'
  PROVE  WalkHolds'
BY DEF WalkHolds, Walking, CursorStands

\* The new record of one transaction keeps the types.
LEMMA TxTyped ==
  ASSUME TypeOK, NEW t \in Txs, NEW r \in {IdleTx} \cup Quiet \cup Pending,
         tx' = [tx EXCEPT ![t] = r], rows' \subseteq Events, UNCHANGED <<walk, resume>>,
         lock' \in Txs \cup {NoTx}, r.pc \in {"read", "insert", "open"} => lock' = t,
         \A u \in Txs : u # t /\ lock = u => lock' = u
  PROVE  TypeOK' /\ tx'[t] = r /\ \A u \in Txs : u # t => tx'[u] = tx[u]
<1>1. /\ tx' \in [Txs -> {IdleTx} \cup Quiet \cup Pending]
      /\ tx'[t] = r /\ \A u \in Txs : u # t => tx'[u] = tx[u]
  BY DEF TypeOK
<1>2. ASSUME NEW u \in Txs, tx'[u].pc \in {"read", "insert", "open"} PROVE lock' = u
  BY <1>1, <1>2 DEF TypeOK
<1>3. /\ resume' \in Cursors
      /\ walk' = IdleWalk \/ walk' \in [pc : {"page"}, at : Cursors, diverged : BOOLEAN]
  BY DEF TypeOK
<1> QED BY <1>1, <1>2, <1>3 DEF TypeOK

\* recordAudit, from the first event to the end of the transaction.
LEMMA TxKeeps ==
  ASSUME IInv, NEW t \in Txs, TxStep(t)
  PROVE  IInv'
<1>0. /\ TypeOK /\ Chained(rows) /\ TxHolds(t) /\ WalkHolds /\ rows \subseteq Events
      /\ lock \in Txs \cup {NoTx} /\ NoTx \notin Txs
  BY BoundsAssumption DEF IInv, TypeOK
<1>1. CASE Record(t)
  <2> DEFINE r == [pc |-> "wait", mine |-> tx[t].mine]
  <2>1. r \in Quiet /\ r.mine = tx[t].mine /\ r.pc = "wait"
    BY <1>0, TxShape DEF Quiet
  <2>2. tx' = [tx EXCEPT ![t] = r] /\ UNCHANGED <<rows, lock, walk, resume>>
    BY <1>1 DEF Record, Walker
  <2> HIDE DEF r
  <2>3. TypeOK' /\ tx'[t] = r /\ \A u \in Txs : u # t => tx'[u] = tx[u]
    BY <1>0, <2>1, <2>2, TxTyped
  <2>4. TxHolds(t)'
    BY <1>0, <2>1, <2>2, <2>3 DEF TxHolds, Visible, At
  <2> QED BY <1>0, <2>2, <2>3, <2>4, OtherTx, WalkKept DEF IInv
<1>2. CASE Lock(t)
  <2> DEFINE r == [tx[t] EXCEPT !.pc = "read"]
  <2>1. r \in Quiet /\ r.mine = tx[t].mine /\ r.pc = "read"
    BY <1>0, <1>2, TxShape DEF Quiet, Lock, At
  <2>2. tx' = [tx EXCEPT ![t] = r] /\ UNCHANGED <<rows, walk, resume>> /\ lock' = t
    BY <1>2 DEF Lock, Walker
  <2>3. \A u \in Txs : u # t => lock # u
    BY <1>0, <1>2 DEF Lock
  <2> HIDE DEF r
  <2>4. TypeOK' /\ tx'[t] = r /\ \A u \in Txs : u # t => tx'[u] = tx[u]
    BY <1>0, <2>1, <2>2, <2>3, TxTyped
  <2>5. TxHolds(t)'
    BY <1>0, <2>1, <2>2, <2>4 DEF TxHolds, Visible, At
  <2> QED BY <1>0, <2>2, <2>3, <2>4, <2>5, OtherTx, WalkKept DEF IInv
<1>3. CASE ReadTip(t)
  <2> DEFINE tip == IF Visible(t) = {} THEN Genesis ELSE Last(Visible(t))
  <2>1. PICK now \in Clock, id \in Ids \ Taken :
          tx' = [tx EXCEPT ![t] =
                   [pc |-> "insert", mine |-> tx[t].mine,
                    next |-> [id |-> id, ts |-> Stamp(tip, now), prev |-> tip.id]]]
    BY <1>3 DEF ReadTip
  <2>2. At(t, "read") /\ UNCHANGED <<rows, lock, walk, resume>> /\ lock = t
    BY <1>0, <1>3 DEF ReadTip, Walker, At, TypeOK
  <2> DEFINE e == [id |-> id, ts |-> Stamp(tip, now), prev |-> tip.id]
             r == [pc |-> "insert", mine |-> tx[t].mine, next |-> e]
  <2>3. /\ tip.id \in Ids \cup {None} /\ tip.ts \in Int
        /\ Visible(t) = {} => tip.id = None /\ tip.ts = -1
        /\ Visible(t) # {} => /\ tip = Last(Visible(t)) /\ tip \in Visible(t)
                             /\ \A s \in Visible(t) : s # tip => Before(s, tip)
    <3>1. CASE Visible(t) = {}
      BY <3>1 DEF Genesis
    <3>2. CASE Visible(t) # {}
      <4>1. Distinct(Visible(t))
        BY <1>0 DEF TxHolds, Chained
      <4>2. tip \in Visible(t) /\ \A s \in Visible(t) : s # tip => Before(s, tip)
        BY <3>2, <4>1, LastIs
      <4>3. tip \in Events
        BY <4>1, <4>2 DEF Distinct
      <4> HIDE DEF tip
      <4>4. tip.id \in Ids /\ tip.ts \in Int
        BY <4>3, EventShape
      <4> QED BY <3>2, <4>2, <4>4 DEF tip
    <3> QED BY <3>1, <3>2
  <2> HIDE DEF tip
  <2>4. now \in Nat /\ Stamp(tip, now) \in Nat /\ Stamp(tip, now) > tip.ts /\ id \in Ids
    BY <2>3, BoundsAssumption DEF Stamp, Clock
  <2>5. e \in Events /\ e.id = id /\ e.ts = Stamp(tip, now) /\ e.prev = tip.id
    BY <2>3, <2>4 DEF Events
  <2> HIDE DEF e
  <2>6. r \in Pending /\ r.mine = tx[t].mine /\ r.pc = "insert" /\ r.next = e
    BY <1>0, <2>5, TxShape DEF Pending
  <2> HIDE DEF r
  <2>7. TypeOK' /\ tx'[t] = r /\ \A u \in Txs : u # t => tx'[u] = tx[u]
    <3>1. tx' = [tx EXCEPT ![t] = r]
      BY <2>1 DEF r, e
    <3> QED BY <1>0, <2>2, <2>6, <3>1, TxTyped
  <2>8. ASSUME NEW s \in Visible(t) PROVE s.id # e.id /\ Before(s, e)
    <3>1. s \in Events /\ tip \in Events /\ (s = tip \/ Before(s, tip))
      BY <1>0, <2>3, <2>8 DEF TxHolds, Chained, Distinct
    <3>2. Before(s, e)
      BY <2>4, <2>5, <3>1, EventShape DEF Before
    <3>3. s.id \in Taken
      <4>1. s \in rows \/ s \in tx[t].mine
        BY <2>8 DEF Visible
      <4> QED BY <4>1 DEF Taken
    <3> QED BY <2>1, <2>5, <3>2, <3>3
  <2>9. Follows(e, Visible(t))
    BY <2>3, <2>5, <2>8 DEF Follows
  <2>10. TxHolds(t)'
    <3>1. Visible(t)' = Visible(t)
      BY <2>2, <2>6, <2>7 DEF Visible
    <3>2. tx'[t].mine = tx[t].mine /\ tx'[t].next = e
      BY <2>6, <2>7
    <3>3. Follows(tx[t].next, Visible(t))'
      BY <2>9, <3>1, <3>2 DEF Follows
    <3> QED BY <1>0, <2>2, <3>1, <3>2, <3>3 DEF TxHolds
  <2> QED BY <1>0, <2>2, <2>7, <2>10, OtherTx, WalkKept DEF IInv
<1>4. CASE Insert(t)
  <2> DEFINE e == tx[t].next
             r == [pc |-> "open", mine |-> tx[t].mine \cup {e}]
  <2>1. At(t, "insert") /\ e \in Events /\ Follows(e, Visible(t)) /\ lock = t
    BY <1>0, <1>4, TxShape DEF Insert, TxHolds, At, TypeOK
  <2>2. tx' = [tx EXCEPT ![t] = r] /\ UNCHANGED <<rows, lock, walk, resume>>
    BY <1>4 DEF Insert, Walker
  <2> HIDE DEF e
  <2>3. r \in Quiet /\ r.mine = tx[t].mine \cup {e} /\ r.pc = "open"
    BY <1>0, <2>1, TxShape DEF Quiet
  <2> HIDE DEF r
  <2>4. TypeOK' /\ tx'[t] = r /\ \A u \in Txs : u # t => tx'[u] = tx[u]
    BY <1>0, <2>1, <2>2, <2>3, TxTyped
  <2>5. TxHolds(t)'
    <3>1. Visible(t)' = Visible(t) \cup {e}
      BY <2>2, <2>3, <2>4 DEF Visible
    <3>2. Chained(Visible(t) \cup {e})
      BY <1>0, <2>1, ChainExtends DEF TxHolds
    <3>3. \A q \in rows, m \in tx[t].mine \cup {e} : Before(q, m)
      BY <1>0, <2>1 DEF TxHolds, Follows, Visible
    <3> QED BY <2>1, <2>2, <2>3, <2>4, <3>1, <3>2, <3>3 DEF TxHolds, At
  <2> QED BY <1>0, <2>2, <2>4, <2>5, OtherTx, WalkKept DEF IInv
<1>5. CASE Commit(t) \/ Rollback(t)
  <2>1. /\ tx' = [tx EXCEPT ![t] = IdleTx] /\ UNCHANGED <<walk, resume>>
        /\ lock' = IF lock = t THEN NoTx ELSE lock
        /\ rows' = rows \/ (rows' = Visible(t) /\ lock = t)
    BY <1>0, <1>5 DEF Commit, Rollback, Release, Walker, Visible, At, TypeOK
  <2>2. Chained(rows') /\ rows \subseteq rows' /\ rows' \subseteq Events
    BY <1>0, <2>1 DEF TxHolds, Visible, Chained, Distinct
  <2>3. TypeOK' /\ tx'[t] = IdleTx /\ \A u \in Txs : u # t => tx'[u] = tx[u]
    <3>1. IdleTx.pc = "idle"
      BY DEF IdleTx
    <3> QED BY <1>0, <2>1, <2>2, <3>1, TxTyped
  <2>4. TxHolds(t)'
    <3>1. tx'[t].mine = {} /\ tx'[t].pc = "idle"
      BY <2>3 DEF IdleTx
    <3> QED BY <2>2, <3>1 DEF TxHolds, Visible, At
  <2>5. ASSUME NEW u \in Txs, u # t PROVE TxHolds(u)'
    <3>1. CASE rows' = rows
      BY <2>1, <2>3, <2>5, <3>1, OtherTx
    <3>2. CASE lock = t
      <4>1. tx[u].mine = {} /\ ~At(u, "insert") /\ tx'[u] = tx[u]
        BY <1>0, <2>3, <2>5, <3>2 DEF IInv, TxHolds, TypeOK, At
      <4> QED BY <2>2, <4>1 DEF TxHolds, Visible, At
    <3> QED BY <2>1, <3>1, <3>2
  <2> QED BY <1>0, <2>1, <2>2, <2>3, <2>4, <2>5, WalkKept DEF IInv
<1> QED BY <1>1, <1>2, <1>3, <1>4, <1>5 DEF TxStep

\* The verifier writes cursors only.
LEMMA WalkKeeps ==
  ASSUME IInv, WalkStart \/ WalkPage \/ WalkDies \/ UNCHANGED vars
  PROVE  IInv'
<1>1. /\ UNCHANGED <<rows, tx, lock>> /\ TypeOK /\ Chained(rows) /\ WalkHolds
      /\ \A t \in Txs : TxHolds(t)
  BY DEF IInv, WalkStart, WalkPage, WalkDies, vars
<1>2. ASSUME NEW t \in Txs PROVE TxHolds(t)'
  BY <1>1, OtherTx
<1>3. /\ resume' \in Cursors /\ WalkHolds'
      /\ walk' = IdleWalk \/ walk' \in [pc : {"page"}, at : Cursors, diverged : BOOLEAN]
  <2>1. CASE WalkStart
    <3>1. walk' = [pc |-> "page", at |-> resume, diverged |-> FALSE] /\ resume' = resume
      BY <2>1 DEF WalkStart
    <3> QED BY <1>1, <3>1 DEF WalkHolds, Walking, CursorStands, TypeOK
  <2>2. CASE WalkDies
    BY <1>1, <2>2 DEF WalkDies, WalkHolds, Walking, CursorStands, TypeOK, IdleWalk
  <2>3. CASE UNCHANGED vars
    BY <1>1, <2>3 DEF vars, WalkHolds, Walking, CursorStands, TypeOK
  <2>4. CASE WalkPage
    <3> DEFINE P == Page(walk.at)
               end == IF P = {} THEN walk.at ELSE [ts |-> Last(P).ts, id |-> Last(P).id]
    <3>1. /\ walk \in [pc : {"page"}, at : Cursors, diverged : BOOLEAN]
          /\ walk.at \in Cursors /\ CursorStands(walk.at) /\ ~walk.diverged
      BY <1>1, <2>4 DEF WalkPage, Walking, TypeOK, WalkHolds, IdleWalk
    <3>2. Linked(walk.at, P)
      BY <1>1, <3>1, PageLinks
    <3>3. end \in Cursors /\ CursorStands(end)
      <4>1. CASE P = {}
        BY <3>1, <4>1
      <4>2. CASE P # {}
        <5>1. Last(P) \in rows
          BY <1>1, <3>1, <4>2, PageEnds DEF Chained
        <5>2. Last(P) \in Events
          BY <1>1, <5>1 DEF Chained, Distinct
        <5> HIDE DEF P
        <5>3. [ts |-> Last(P).ts, id |-> Last(P).id] \in Cursors
          BY <5>2, EventShape DEF Cursors
        <5>4. CursorStands([ts |-> Last(P).ts, id |-> Last(P).id])
          BY <5>1 DEF CursorStands
        <5> QED BY <4>2, <5>3, <5>4
      <4> QED BY <4>1, <4>2
    <3>4. \/ walk' = IdleWalk /\ resume' = end
          \/ walk' = [walk EXCEPT !.at = end] /\ resume' = resume
      BY <2>4, <3>2 DEF WalkPage
    <3> HIDE DEF end
    <3>5. CASE walk' = IdleWalk /\ resume' = end
      BY <1>1, <3>3, <3>5 DEF WalkHolds, Walking, CursorStands, IdleWalk
    <3>6. CASE walk' = [walk EXCEPT !.at = end] /\ resume' = resume
      <4>1. /\ walk' \in [pc : {"page"}, at : Cursors, diverged : BOOLEAN]
            /\ walk'.at = end /\ ~walk'.diverged
        BY <3>1, <3>3, <3>6
      <4> QED BY <1>1, <3>3, <3>6, <4>1 DEF WalkHolds, Walking, CursorStands, TypeOK
    <3> QED BY <3>4, <3>5, <3>6
  <2> QED BY <2>1, <2>2, <2>3, <2>4
<1>4. TypeOK'
  BY <1>1, <1>3 DEF TypeOK
<1> QED BY <1>1, <1>2, <1>3, <1>4 DEF IInv

\* Every step keeps the invariant.
LEMMA Step == IInv /\ [Next]_vars => IInv'
BY TxKeeps, WalkKeeps DEF Next

\* An empty set is a chain.
LEMMA EmptyChain == Chained({})
BY FS_EmptySet DEF Chained, Distinct

\* The chain is empty and nobody is at work.
LEMMA InitHolds == Init => IInv
<1> SUFFICES ASSUME Init PROVE IInv
  OBVIOUS
<1>1. rows = {} /\ Chained(rows)
  BY EmptyChain DEF Init
<1>2. TypeOK
  BY DEF Init, TypeOK, IdleTx, IdleWalk, Genesis, Cursors
<1>3. ASSUME NEW t \in Txs PROVE TxHolds(t)
  <2>1. tx[t].mine = {} /\ tx[t].pc = "idle"
    BY DEF Init, IdleTx
  <2> QED BY <1>1, <2>1 DEF TxHolds, Visible, At
<1>4. WalkHolds
  BY DEF Init, WalkHolds, Walking, CursorStands, IdleWalk
<1> QED BY <1>1, <1>2, <1>3, <1>4 DEF IInv

\* The inductive invariant.
LEMMA Invariance == Spec => []IInv
BY InitHolds, Step, PTL DEF Spec

\* It implies that the chain stands: at an insert nobody else has rows that
\* are not committed, so what the transaction sees is all there is.
LEMMA InvImpliesStands == IInv => ChainStands
<1> SUFFICES ASSUME IInv PROVE ChainStands
  OBVIOUS
<1>1. ASSUME NEW t \in Txs, At(t, "insert")
      PROVE  Fits(tx[t].next, rows \cup UNION {tx[u].mine : u \in Txs})
  <2>1. Follows(tx[t].next, Visible(t)) /\ Chained(Visible(t)) /\ lock = t
    BY <1>1 DEF IInv, TxHolds, TypeOK, At
  <2>2. \A u \in Txs : u # t => tx[u].mine = {}
    BY <2>1 DEF IInv, TxHolds
  <2>3. rows \cup UNION {tx[u].mine : u \in Txs} = Visible(t)
    BY <2>2 DEF Visible
  <2> QED BY <2>1, <2>3, FollowerFits
<1> QED BY <1>1 DEF IInv, ChainStands, InsertSucceeds, NeverDiverges, ResumeStands, WalkHolds,
                    CursorStands

\* Whatever commits, rolls back or dies and whatever the clocks say: no insert
\* meets the unique index, no walk of an honest chain diverges, on whatever
\* page, and the checkpoint names an event of the chain.
THEOREM ChainAlwaysStands == Spec => []ChainStands
BY Invariance, InvImpliesStands, PTL

-----------------------------------------------------------------------------
(* The log.                                                                *)

\* No two events have as many before them.
LEMMA RankOnce ==
  ASSUME NEW S, Distinct(S), NEW r \in S, NEW s \in S, Rank(r, S) = Rank(s, S)
  PROVE  r = s
<1>1. Rank(r, S) \in Nat /\ Rank(s, S) \in Nat
  BY RankType
<1>2. ~Before(r, s)
  <2>1. Before(r, s) => Rank(r, S) + 1 <= Rank(s, S)
    BY RankGrows
  <2> QED BY <1>1, <2>1
<1>3. ~Before(s, r)
  <2>1. Before(s, r) => Rank(s, S) + 1 <= Rank(r, S)
    BY RankGrows
  <2> QED BY <1>1, <2>1
<1> QED BY <1>2, <1>3, Total

\* The event after r has one more before it.
LEMMA NextRank ==
  ASSUME NEW S, Distinct(S), NEW r \in S, Rank(r, S) + 1 < Cardinality(S)
  PROVE  \E q \in S : Rank(q, S) = Rank(r, S) + 1
<1> DEFINE T == {s \in S : Before(r, s)}
<1>1. /\ S \subseteq Events /\ r \in Events /\ IsFiniteSet(Earlier(r, S))
      /\ r \notin Earlier(r, S) /\ Rank(r, S) \in Nat /\ Cardinality(S) \in Nat
  BY RankType, Strict DEF Distinct, Earlier
<1>2. Cardinality(Earlier(r, S) \cup {r}) = Rank(r, S) + 1
  BY <1>1, FS_AddElement DEF Rank
<1>3. T # {}
  <2> SUFFICES ASSUME T = {} PROVE FALSE
    OBVIOUS
  <2>1. S = Earlier(r, S) \cup {r}
    BY Total DEF Earlier
  <2> QED BY <1>1, <1>2, <2>1
<1>4. Distinct(T)
  <2>1. T \in SUBSET S
    OBVIOUS
  <2> HIDE DEF T
  <2> QED BY <2>1, FS_Subset DEF Distinct
<1>5. PICK q \in T : \A s \in T : s # q => Before(q, s)
  <2> HIDE DEF T
  <2> QED BY <1>3, <1>4, FirstExists
<1>6. Earlier(q, S) = Earlier(r, S) \cup {r}
  <2>1. q \in Events /\ q \in S /\ Before(r, q)
    BY <1>1, <1>5
  <2>2. ASSUME NEW s \in S, Before(s, q) PROVE s \in Earlier(r, S) \cup {r}
    <3>1. ~Before(r, s)
      BY <1>1, <1>5, <2>1, <2>2, Strict
    <3> QED BY <3>1, Total DEF Earlier
  <2>3. ASSUME NEW s \in Earlier(r, S) \cup {r} PROVE s \in Earlier(q, S)
    <3>1. s \in S /\ (s = r \/ Before(s, r))
      BY <2>3 DEF Earlier
    <3> QED BY <1>1, <2>1, <3>1, Transitive DEF Earlier
  <2> QED BY <2>2, <2>3 DEF Earlier
<1> QED BY <1>2, <1>5, <1>6 DEF Rank

\* Every number below that of the events is that of the events before one.
LEMMA RankFound ==
  ASSUME NEW S, Distinct(S), NEW i \in 1..Cardinality(S)
  PROVE  \E r \in S : Rank(r, S) = i - 1
<1> DEFINE N == {k \in 1..Cardinality(S) : \A r \in S : Rank(r, S) # k - 1}
<1>1. Cardinality(S) \in Nat
  BY FS_CardinalityType DEF Distinct
<1> SUFFICES ASSUME N # {} PROVE FALSE
  OBVIOUS
<1>2. N \in SUBSET Nat
  BY <1>1
<1>3. PICK m \in N : \A k \in N : m <= k
  <2> HIDE DEF N
  <2> QED BY <1>2, MinExists
<1>4. m \in 1..Cardinality(S) /\ \A r \in S : Rank(r, S) # m - 1
  OBVIOUS
<1>5. CASE m = 1
  <2>1. S # {}
    BY <1>1, <1>4, FS_EmptySet DEF Distinct
  <2>2. PICK r \in S : \A s \in S : s # r => Before(r, s)
    BY <2>1, FirstExists
  <2>3. Earlier(r, S) = {}
    BY <2>2, Strict DEF Earlier, Distinct
  <2>4. Rank(r, S) = 0
    BY <2>3, FS_EmptySet DEF Rank
  <2> QED BY <1>4, <1>5, <2>4
<1>6. CASE m > 1
  <2>1. m - 1 \in 1..Cardinality(S) /\ m - 1 \notin N /\ (m - 1) - 1 = m - 2
    BY <1>1, <1>3, <1>4, <1>6
  <2>2. PICK r \in S : Rank(r, S) = m - 2
    BY <2>1
  <2>3. Rank(r, S) + 1 < Cardinality(S)
    BY <1>1, <1>4, <2>2
  <2>4. PICK q \in S : Rank(q, S) = Rank(r, S) + 1
    BY <2>3, NextRank
  <2> QED BY <1>4, <2>2, <2>4
<1> QED BY <1>1, <1>4, <1>5, <1>6

\* The event at a place of the order.
LEMMA OrderIs ==
  ASSUME NEW S, Distinct(S), NEW r \in S, NEW i \in 1..Cardinality(S), Rank(r, S) = i - 1
  PROVE  Order(S)[i] = r.id
<1> DEFINE q == CHOOSE q \in S : Cardinality({s \in S : Before(s, q)}) = i - 1
<1>1. q \in S /\ Rank(q, S) = i - 1
  BY DEF Rank, Earlier
<1> HIDE DEF q
<1>2. q = r
  BY <1>1, RankOnce
<1> QED BY <1>2 DEF Order, q

\* Events after all others come after them in the order, and change none.
LEMMA OrderExtends ==
  ASSUME NEW S, NEW T, Distinct(S), Distinct(T), S \subseteq T,
         \A r \in S, m \in T \ S : Before(r, m)
  PROVE  /\ Cardinality(S) \in Nat /\ Cardinality(T) \in Nat
         /\ S # T => Cardinality(S) < Cardinality(T)
         /\ Cardinality(S) <= Cardinality(T)
         /\ \A i \in 1..Cardinality(S) : Order(T)[i] = Order(S)[i]
<1>1. /\ Cardinality(S) \in Nat /\ Cardinality(T) \in Nat
      /\ Cardinality(S) <= Cardinality(T) /\ (Cardinality(S) = Cardinality(T) => S = T)
  <2>1. S \in SUBSET T /\ IsFiniteSet(S) /\ IsFiniteSet(T)
    BY DEF Distinct
  <2>2. Cardinality(S) <= Cardinality(T) /\ (Cardinality(T) = Cardinality(S) => T = S)
    BY <2>1, FS_Subset
  <2> QED BY <2>1, <2>2, FS_CardinalityType
<1>2. ASSUME NEW i \in 1..Cardinality(S)
      PROVE  Order(T)[i] = Order(S)[i]
  <2>1. PICK r \in S : Rank(r, S) = i - 1
    BY RankFound
  <2>2. Earlier(r, T) = Earlier(r, S)
    <3>1. ASSUME NEW m \in T \ S PROVE ~Before(m, r)
      <4>1. m \in Events /\ r \in Events /\ Before(r, m)
        BY <3>1 DEF Distinct
      <4> QED BY <4>1, Strict
    <3> QED BY <3>1 DEF Earlier
  <2>3. Rank(r, T) = i - 1 /\ r \in T
    BY <2>1, <2>2 DEF Rank
  <2>4. i \in 1..Cardinality(T)
    BY <1>1
  <2>5. Order(S)[i] = r.id
    BY <2>1, OrderIs
  <2>6. Order(T)[i] = r.id
    BY <2>3, <2>4, OrderIs
  <2> QED BY <2>5, <2>6
<1> QED BY <1>1, <1>2

\* The order is a sequence as long as the set.
LEMMA OrderIsSequence ==
  ASSUME NEW S, Cardinality(S) \in Nat
  PROVE  /\ DOMAIN Order(S) = 1..Cardinality(S) /\ Len(Order(S)) = Cardinality(S)
         /\ Order(S) = [i \in 1..Cardinality(S) |-> Order(S)[i]]
BY DEF Order

\* A commit appends to the log; no other step touches it.
LEMMA LogGrows == IInv /\ [Next]_vars => [Log!Grow]_(Order(rows))
<1> SUFFICES ASSUME IInv, [Next]_vars, rows' # rows PROVE Log!Grow
  <2>1. rows' = rows => UNCHANGED Order(rows)
    BY DEF Order
  <2> QED BY <2>1
<1>1. PICK t \in Txs : Commit(t)
  BY DEF Next, TxStep, Record, Lock, ReadTip, Insert, Rollback, WalkStart, WalkPage, WalkDies, vars
<1>2. rows' = Visible(t) /\ Distinct(rows) /\ Distinct(rows')
  BY <1>1 DEF Commit, Visible, IInv, TxHolds, Chained
<1>3. rows \subseteq rows' /\ \A r \in rows, m \in rows' \ rows : Before(r, m)
  BY <1>2 DEF Visible, IInv, TxHolds
<1> DEFINE n == Cardinality(rows)
           k == Cardinality(rows')
<1>4. n \in Nat /\ k \in Nat /\ n < k /\ \A i \in 1..n : Order(rows')[i] = Order(rows)[i]
  BY <1>2, <1>3, OrderExtends
<1>5. /\ Len(Order(rows)) = n /\ Len(Order(rows')) = k
      /\ Order(rows) = [i \in 1..n |-> Order(rows)[i]]
  BY <1>4, OrderIsSequence
<1>6. SubSeq(Order(rows'), 1, n) = [i \in 1..n |-> Order(rows')[i]]
  BY <1>4, <1>5
<1>7. SubSeq(Order(rows'), 1, n) = Order(rows)
  BY <1>4, <1>5, <1>6
<1>8. Order(rows)' = Order(rows')
  BY DEF Order
<1> QED BY <1>4, <1>5, <1>7, <1>8 DEF Log!Grow

\* In the verifier's order the committed events are a log that only grows at
\* its end: every step of the transactions and the verifier appends to it or
\* leaves it alone, although clocks repeat and step back.
THEOREM LogOnlyGrows == Spec => ImplementsLog
<1>1. Init => Log!Init
  <2> SUFFICES ASSUME Init PROVE Order(rows) = <<>>
    BY DEF Log!Init
  <2>1. rows = {} /\ Cardinality(rows) = 0
    BY FS_EmptySet DEF Init
  <2> QED BY <2>1 DEF Order
<1> QED BY <1>1, LogGrows, Invariance, PTL DEF Spec, ImplementsLog, Log!Spec

-----------------------------------------------------------------------------
(* Verification of the chain.                                              *)

(* The chain still is what an anchor was taken of.                         *)
Good(d) == anchors[d].count <= Len(chain) /\ chain[anchors[d].count] = anchors[d].head

\* A run never looks past the chain; every anchor it has not loaded was put
\* since, in the epoch of the run; and once it has compared the anchors it
\* loaded, the chain matches them all.
JobHolds(j) ==
  job[j] # IdleJob =>
    /\ job[j].tip <= Len(chain)
    /\ job[j].pc # "probe" => job[j].tip > 0 /\ job[j].day \in 1 .. day
    /\ job[j].pc = "assess" => \A d \in Days \ job[j].loaded : Anchored(d) => Good(d)
    /\ job[j].pc \in {"day", "put", "checkpoint"} => ~Mismatch

JobsHold == \A j \in Jobs : JobHolds(j)

VerifyInv == CheckpointsStand /\ JobsHold

-----------------------------------------------------------------------------
(* Greatest elements of bounded sets of numbers, which CHOOSE needs.       *)

\* A bounded one has a greatest.
LEMMA MaxExists ==
  ASSUME NEW n \in Nat, NEW S \in SUBSET (0..n), S # {}
  PROVE  \E m \in S : \A k \in S : k <= m
<1> DEFINE T == {n - k : k \in S}
<1>1. T \in SUBSET Nat
  OBVIOUS
<1>2. T # {}
  OBVIOUS
<1>3. PICK t \in T : \A u \in T : t <= u
  <2> HIDE DEF T
  <2> QED BY <1>1, <1>2, MinExists
<1>4. PICK m \in S : t = n - m
  BY <1>3
<1>5. ASSUME NEW k \in S PROVE k <= m
  <2>1. n - m <= n - k
    BY <1>3, <1>4
  <2> QED BY <2>1
<1> QED BY <1>5

\* The latest checkpoint is one of the checkpoints, or none.
LEMMA LatestType ==
  ASSUME checkpoints \subseteq Heads
  PROVE  LatestCheckpoint \in 0..MaxEvents
<1> DEFINE S == {c.count : c \in checkpoints}
<1>1. CASE checkpoints = {}
  BY <1>1, VerifyBounds DEF LatestCheckpoint
<1>2. CASE checkpoints # {}
  <2>1. S # {}
    BY <1>2
  <2>2. S \in SUBSET (0..MaxEvents)
    BY VerifyBounds DEF Heads
  <2>3. \E n \in S : \A k \in S : k <= n
    <3> HIDE DEF S
    <3> QED BY <2>1, <2>2, MaxExists, VerifyBounds
  <2>4. \E n \in S : \A c \in checkpoints : c.count <= n
    BY <2>3
  <2> QED BY <1>2, <2>2, <2>4 DEF LatestCheckpoint
<1> QED BY <1>1, <1>2

-----------------------------------------------------------------------------
(* The shape of the rows of the model.                                     *)

\* An anchor is there or not, never both.
LEMMA AnchorShape ==
  ASSUME VerifyTypeOK, NEW d \in Days
  PROVE  /\ Anchored(d) => /\ anchors[d] \in Anchors
                           /\ anchors[d].count \in 1..MaxEvents
                           /\ anchors[d].head \in Epochs
                           /\ anchors[d].prev \in 0..MaxDay
         /\ NoAnchor \notin Anchors
<1>1. NoAnchor \notin Anchors
  BY DEF NoAnchor, Anchors
<1>2. Anchored(d) => anchors[d] \in Anchors
  BY DEF VerifyTypeOK, Anchored
<1> QED BY <1>1, <1>2 DEF Anchors

\* A run at work has a record with these fields.
LEMMA JobShape ==
  ASSUME VerifyTypeOK, NEW j \in Jobs
  PROVE  /\ job[j] # IdleJob => job[j] \in JobStates
         /\ job[j].pc \in {"probe", "assess", "day", "put", "checkpoint"} <=> job[j] # IdleJob
<1>1. job[j] \in {IdleJob} \cup JobStates
  BY DEF VerifyTypeOK
<1>2. CASE job[j] = IdleJob
  BY <1>2 DEF IdleJob
<1>3. CASE job[j] \in JobStates
  BY <1>3 DEF JobStates, IdleJob
<1> QED BY <1>1, <1>2, <1>3

\* Positions of the chain, and of a longer one.
LEMMA ChainGrows ==
  ASSUME VerifyTypeOK, RecordEvent
  PROVE  /\ chain' \in Seq(Epochs) /\ Len(chain') = Len(chain) + 1
         /\ Len(chain') <= MaxEvents
         /\ \A n \in 1..Len(chain) : chain'[n] = chain[n]
         /\ chain'[Len(chain) + 1] = restores
BY VerifyBounds DEF VerifyTypeOK, RecordEvent

LEMMA ChainShrinks ==
  ASSUME VerifyTypeOK, NEW n \in 0..MaxEvents, Restore(n)
  PROVE  /\ chain' \in Seq(Epochs) /\ Len(chain') = n
         /\ n < Len(chain) /\ Len(chain') <= MaxEvents
         /\ \A k \in 1..n : chain'[k] = chain[k]
<1>1. n \in Nat /\ n < Len(chain) /\ chain' = SubSeq(chain, 1, n) /\ chain \in Seq(Epochs)
  BY VerifyBounds DEF VerifyTypeOK, Restore
<1> QED BY <1>1 DEF VerifyTypeOK
\* What the steps of a run do to its record.
LEMMA WalkRecord ==
  ASSUME VerifyTypeOK, NEW j \in Jobs, Walk(j), UNCHANGED alarm
  PROVE  /\ job' \in [Jobs -> {IdleJob} \cup JobStates]
         /\ \A k \in Jobs : k # j => job'[k] = job[k]
         /\ job'[j] # IdleJob => /\ job'[j].pc = "probe" /\ job'[j].tip = Len(chain)
                                /\ job'[j].loaded = {} /\ job'[j].day = 0
<1>1. LatestCheckpoint \in 0..MaxEvents /\ Len(chain) \in 0..MaxEvents
  BY LatestType DEF VerifyTypeOK
<1> DEFINE r == [pc |-> "probe", from |-> LatestCheckpoint, tip |-> Len(chain), day |-> 0,
                 loaded |-> {}, prev |-> 0]
<1>2. r \in JobStates
  BY <1>1, VerifyBounds DEF JobStates
<1>3. UNCHANGED job \/ job' = [job EXCEPT ![j] = r]
  BY DEF Walk
<1>4. r.pc = "probe" /\ r.tip = Len(chain) /\ r.loaded = {} /\ r.day = 0
  OBVIOUS
<1> HIDE DEF r
<1>5. job[j] = IdleJob /\ job \in [Jobs -> {IdleJob} \cup JobStates]
  BY DEF Walk, VerifyTypeOK
<1> QED BY <1>2, <1>3, <1>4, <1>5

LEMMA LoadRecord ==
  ASSUME VerifyTypeOK, NEW j \in Jobs, ReadAnchors(j), job[j].tip # 0
  PROVE  /\ job' \in [Jobs -> {IdleJob} \cup JobStates]
         /\ \A k \in Jobs : k # j => job'[k] = job[k]
         /\ job'[j].pc = "assess" /\ job'[j].tip = job[j].tip /\ job'[j].day = day
         /\ job'[j].loaded = {d \in Days : Anchored(d)}
<1> DEFINE a == [job[j] EXCEPT !.pc = "assess"]
           b == [a EXCEPT !.day = day]
           c == [b EXCEPT !.loaded = {d \in Days : Anchored(d)}]
<1>1. job[j] \in JobStates
  BY JobShape DEF ReadAnchors, JobAt
<1>2. a \in JobStates /\ a.tip = job[j].tip /\ a.pc = "assess"
  BY <1>1 DEF JobStates
<1>3. day \in 0..MaxDay
  BY DEF VerifyTypeOK, Days
<1>4. job' = [job EXCEPT ![j] = c]
  BY <1>1 DEF ReadAnchors, VerifyTypeOK, JobStates
<1> HIDE DEF a
<1>5. b \in JobStates /\ b.tip = job[j].tip /\ b.pc = "assess" /\ b.day = day
  BY <1>2, <1>3 DEF JobStates
<1> HIDE DEF b
<1>6. c \in JobStates /\ c.tip = job[j].tip /\ c.pc = "assess" /\ c.day = day
      /\ c.loaded = {d \in Days : Anchored(d)}
  BY <1>5 DEF JobStates
<1> HIDE DEF c
<1> QED BY <1>4, <1>6 DEF VerifyTypeOK

LEMMA AssessRecord ==
  ASSUME VerifyTypeOK, NEW j \in Jobs, job[j] # IdleJob, NEW prev \in 0..MaxDay,
         job' = [job EXCEPT ![j].pc = "day", ![j].prev = prev]
  PROVE  /\ job' \in [Jobs -> {IdleJob} \cup JobStates]
         /\ \A k \in Jobs : k # j => job'[k] = job[k]
         /\ job'[j].pc = "day" /\ job'[j].prev = prev
         /\ job'[j].tip = job[j].tip /\ job'[j].day = job[j].day
         /\ job'[j].loaded = job[j].loaded
<1> DEFINE a == [job[j] EXCEPT !.pc = "day"]
           b == [a EXCEPT !.prev = prev]
<1>1. job[j] \in JobStates
  BY JobShape
<1>2. /\ a \in JobStates /\ a.pc = "day" /\ a.tip = job[j].tip
      /\ a.day = job[j].day /\ a.loaded = job[j].loaded
  BY <1>1 DEF JobStates
<1>3. job' = [job EXCEPT ![j] = b]
  BY <1>1 DEF VerifyTypeOK, JobStates
<1> HIDE DEF a
<1>4. /\ b \in JobStates /\ b.pc = "day" /\ b.tip = job[j].tip /\ b.prev = prev
      /\ b.day = job[j].day /\ b.loaded = job[j].loaded
  BY <1>2 DEF JobStates
<1> HIDE DEF b
<1> QED BY <1>3, <1>4 DEF VerifyTypeOK

LEMMA AdvanceRecord ==
  ASSUME VerifyTypeOK, NEW j \in Jobs, job[j] # IdleJob, NEW pc \in {"put", "checkpoint"},
         job' = [job EXCEPT ![j].pc = pc]
  PROVE  /\ job' \in [Jobs -> {IdleJob} \cup JobStates]
         /\ \A k \in Jobs : k # j => job'[k] = job[k]
         /\ job'[j] = [job[j] EXCEPT !.pc = pc] /\ job'[j].pc = pc
         /\ job'[j].tip = job[j].tip /\ job'[j].day = job[j].day
         /\ job'[j].loaded = job[j].loaded /\ job'[j].prev = job[j].prev
<1>1. job[j] \in JobStates
  BY JobShape
<1>2. [job[j] EXCEPT !.pc = pc] \in JobStates
  BY <1>1 DEF JobStates
<1> QED BY <1>1, <1>2 DEF VerifyTypeOK, JobStates

LEMMA ReturnRecord ==
  ASSUME VerifyTypeOK, NEW j \in Jobs, Return(j)
  PROVE  /\ job' \in [Jobs -> {IdleJob} \cup JobStates]
         /\ \A k \in Jobs : k # j => job'[k] = job[k]
         /\ job'[j] = IdleJob
BY DEF VerifyTypeOK, Return

-----------------------------------------------------------------------------
(* The anchors of earlier days, in order.                                  *)

IsLastBefore(e, d, D) ==
  \/ e = 0 /\ \A f \in D : f >= d
  \/ e \in D /\ e < d /\ \A f \in D : f < d => f <= e

\* LastBefore finds the last day of D before d, and there is only one.
LEMMA LastBeforeIs ==
  ASSUME NEW D \in SUBSET Days, NEW d \in Nat
  PROVE  /\ IsLastBefore(LastBefore(d, D), d, D)
         /\ LastBefore(d, D) \in 0..MaxDay
         /\ \A e \in 0..MaxDay : IsLastBefore(e, d, D) => e = LastBefore(d, D)
<1>0. MaxDay \in Nat /\ \A f \in D : f \in 1..MaxDay
  BY VerifyBounds DEF Days
<1>1. CASE \A f \in D : f >= d
  <2>1. LastBefore(d, D) = 0
    BY <1>1 DEF LastBefore
  <2>2. \A e \in 0..MaxDay : IsLastBefore(e, d, D) => e = 0
    BY <1>0, <1>1 DEF IsLastBefore
  <2> QED BY <1>0, <1>1, <2>1, <2>2 DEF IsLastBefore
<1>2. CASE ~(\A f \in D : f >= d)
  <2> DEFINE S == {f \in D : f < d}
  <2>0. PICK x \in D : ~(x >= d)
    BY <1>2
  <2>1. S \in SUBSET (0..MaxDay)
    BY <1>0
  <2>2. x \in S
    BY <1>0, <2>0
  <2>3. \E m \in S : \A k \in S : k <= m
    <3> HIDE DEF S
    <3> QED BY <1>0, <2>1, <2>2, MaxExists
  <2>4. \E e \in D : e < d /\ \A f \in D : f < d => f <= e
    BY <2>3
  <2>5. LastBefore(d, D) = CHOOSE e \in D : e < d /\ \A f \in D : f < d => f <= e
    BY <1>2 DEF LastBefore
  <2> DEFINE m == LastBefore(d, D)
  <2>6. m \in D /\ m < d /\ \A f \in D : f < d => f <= m
    BY <2>4, <2>5
  <2> HIDE DEF m
  <2>7. ASSUME NEW e \in 0..MaxDay, IsLastBefore(e, d, D) PROVE e = m
    <3>1. e \in D /\ e < d /\ \A f \in D : f < d => f <= e
      BY <2>0, <2>7 DEF IsLastBefore
    <3> QED BY <1>0, <2>6, <3>1
  <2>8. IsLastBefore(m, d, D) /\ m \in 0..MaxDay
    BY <1>0, <2>6 DEF IsLastBefore
  <2> QED BY <2>7, <2>8 DEF m
<1> QED BY <1>1, <1>2
-----------------------------------------------------------------------------
(* Checkpoints stand, and what was lost is never signed.                   *)

\* A step that changes one run at most, and no other table, keeps the runs,
\* if it keeps that one.
LEMMA OtherJobs ==
  ASSUME VerifyInv, UNCHANGED <<chain, anchors, day>>, NEW j \in Jobs,
         \A k \in Jobs : k # j => job'[k] = job[k],
         JobHolds(j)'
  PROVE  JobsHold'
<1> SUFFICES ASSUME NEW k \in Jobs, k # j PROVE JobHolds(k)'
  BY DEF JobsHold
<1>1. job'[k] = job[k] /\ JobHolds(k)
  BY DEF VerifyInv, JobsHold
<1>2. Mismatch' = Mismatch
  BY DEF Mismatch, Anchored
<1> QED BY <1>1, <1>2 DEF JobHolds, Good, Anchored

LEMMA EndedJob ==
  ASSUME VerifyInv, NEW j \in Jobs, Return(j), UNCHANGED <<chain, anchors, day>>
  PROVE  JobsHold' /\ job' \in [Jobs -> {IdleJob} \cup JobStates]
<1>1. JobHolds(j)'
  BY ReturnRecord DEF JobHolds, VerifyInv, CheckpointsStand
<1> QED BY <1>1, ReturnRecord, OtherJobs DEF VerifyInv, CheckpointsStand

\* The chain, the calendar and the operator.
LEMMA EnvironmentStep ==
  ASSUME VerifyInv, RecordEvent \/ Midnight \/ (\E n \in 0..MaxEvents : Restore(n)) \/ UNCHANGED verifyVars
  PROVE  VerifyInv'
<1> USE DEF VerifyInv, CheckpointsStand
<1>1. CASE RecordEvent
  <2>1. UNCHANGED <<checkpoints, anchors, day, restores, job, alarm>>
    BY <1>1 DEF RecordEvent
  <2>2. VerifyTypeOK'
    BY <1>1, <2>1, ChainGrows DEF VerifyTypeOK
  <2>3. Len(chain) \in Nat /\ checkpoints \subseteq Heads
    BY DEF VerifyTypeOK
  <2>4. \A c \in checkpoints' : Stands(c)'
    BY <1>1, <2>1, <2>3, ChainGrows DEF Stands, Heads
  <2>5. \A d \in Days : Anchored(d) /\ Good(d) => Good(d)'
    BY <1>1, <2>1, <2>3, ChainGrows, AnchorShape DEF Good
  <2>6. ~Mismatch => ~Mismatch'
    BY <2>1, <2>3, <2>5, AnchorShape DEF Mismatch, Good, Anchored
  <2>7. ASSUME NEW j \in Jobs PROVE JobHolds(j)'
    <3>1. JobHolds(j) /\ (job[j] # IdleJob => job[j].tip \in Nat)
      BY JobShape DEF JobsHold, JobStates
    <3> QED BY <1>1, <2>1, <2>3, <2>5, <2>6, <3>1, ChainGrows DEF JobHolds, Anchored
  <2> QED BY <2>2, <2>4, <2>7 DEF JobsHold
<1>2. CASE Midnight
  <2>1. UNCHANGED <<chain, checkpoints, anchors, restores, job, alarm>> /\ day' = day + 1 /\ day' \in Days
    BY <1>2, VerifyBounds DEF Midnight, VerifyTypeOK, Days
  <2>2. VerifyTypeOK' /\ \A c \in checkpoints' : Stands(c)'
    BY <2>1 DEF VerifyTypeOK, Stands
  <2>3. day \in Nat
    BY DEF VerifyTypeOK, Days
  <2>4. \A j \in Jobs : JobHolds(j)'
    BY <2>1, <2>3 DEF JobsHold, JobHolds, Good, Anchored, Mismatch
  <2> QED BY <2>2, <2>4 DEF JobsHold
<1>3. ASSUME NEW n \in 0..MaxEvents, Restore(n)
      PROVE  VerifyInv'
  <2>1. /\ UNCHANGED <<anchors, day>> /\ restores' = restores + 1 /\ restores' \in Epochs
        /\ job' = [j \in Jobs |-> IdleJob] /\ alarm' = FALSE
        /\ checkpoints' = {c \in checkpoints : c.count <= n}
    BY <1>3, VerifyBounds DEF Restore, VerifyTypeOK, Epochs
  <2>2. VerifyTypeOK'
    BY <1>3, <2>1, ChainShrinks DEF VerifyTypeOK
  <2>3. \A c \in checkpoints' : Stands(c)'
    BY <1>3, <2>1, ChainShrinks DEF Stands, Heads, VerifyTypeOK
  <2>4. JobsHold'
    BY <2>1 DEF JobsHold, JobHolds
  <2> QED BY <2>2, <2>3, <2>4
<1>4. CASE UNCHANGED verifyVars
  BY <1>4 DEF verifyVars, VerifyTypeOK, Stands, JobsHold, JobHolds, Good, Anchored, Mismatch
<1> QED BY <1>1, <1>2, <1>3, <1>4
\* A run that may go on to sign or to checkpoint has compared every anchor.
LEMMA AssessedMatches ==
  ASSUME VerifyInv, NEW j \in Jobs, JobAt(j, "assess"),
         \A d \in job[j].loaded : Holds(d, job[j].tip)
  PROVE  ~Mismatch
<1>1. JobHolds(j) /\ job[j] \in JobStates /\ job[j] # IdleJob
  BY JobShape DEF VerifyInv, JobsHold, CheckpointsStand, JobAt
<1>2. job[j].tip \in Nat /\ Len(chain) \in Nat /\ job[j].loaded \subseteq Days
  BY <1>1, VerifyBounds DEF JobStates, VerifyInv, CheckpointsStand, VerifyTypeOK
<1>3. ASSUME NEW d \in Days, Anchored(d) PROVE Good(d)
  <2>1. CASE d \in job[j].loaded
    BY <1>1, <1>2, <1>3, <2>1, AnchorShape DEF Holds, Good, JobHolds, VerifyInv, CheckpointsStand
  <2>2. CASE d \notin job[j].loaded
    BY <1>1, <1>3, <2>2 DEF JobHolds, JobAt
  <2> QED BY <2>1, <2>2
<1> QED BY <1>2, <1>3, AnchorShape DEF Mismatch, Good, VerifyInv, CheckpointsStand

\* The anchor a run puts is of the chain there is.
LEMMA PutMatches ==
  ASSUME VerifyInv, NEW j \in Jobs, PutAnchor(j), ~Anchored(job[j].day)
  PROVE  /\ ~Mismatch /\ ~Mismatch'
         /\ anchors' \in [Days -> Anchors \cup {NoAnchor}]
         /\ job[j].day \in Days /\ UNCHANGED <<chain, day, restores, checkpoints, alarm>>
         /\ \A d \in Days : d # job[j].day => anchors'[d] = anchors[d]
         /\ LET a == anchors'[job[j].day] IN
            /\ a \in Anchors /\ a.count = job[j].tip /\ a.head = chain[job[j].tip]
            /\ a.prev = job[j].prev
         /\ job[j].tip \in 1..Len(chain)
<1> DEFINE d == job[j].day
           n == job[j].tip
           a == [count |-> n, head |-> chain[n], prev |-> job[j].prev]
<1>1. JobHolds(j) /\ job[j] \in JobStates /\ job[j] # IdleJob /\ job[j].pc = "put"
  BY JobShape DEF VerifyInv, JobsHold, CheckpointsStand, PutAnchor, JobAt
<1>2. /\ d \in Days /\ n \in 1..Len(chain) /\ n \in 1..MaxEvents
      /\ job[j].prev \in 0..MaxDay /\ ~Mismatch
  BY <1>1, VerifyBounds DEF JobHolds, JobStates, VerifyInv, CheckpointsStand, VerifyTypeOK, Days
<1>3. UNCHANGED <<chain, day, restores, checkpoints, alarm>> /\ anchors' = [anchors EXCEPT ![d] = a]
  BY DEF PutAnchor, World
<1> HIDE DEF d, n
<1>4. a \in Anchors
  BY <1>2 DEF Anchors, VerifyInv, CheckpointsStand, VerifyTypeOK
<1>5. a.count = n /\ a.head = chain[n] /\ a.prev = job[j].prev
  OBVIOUS
<1> HIDE DEF a
<1>6. anchors' \in [Days -> Anchors \cup {NoAnchor}] /\ anchors'[d] = a
      /\ \A e \in Days : e # d => anchors'[e] = anchors[e]
  BY <1>2, <1>3, <1>4 DEF VerifyInv, CheckpointsStand, VerifyTypeOK
<1>7. ~Mismatch'
  BY <1>2, <1>3, <1>5, <1>6 DEF Mismatch, Anchored, VerifyInv, CheckpointsStand, VerifyTypeOK
<1> QED BY <1>2, <1>3, <1>4, <1>5, <1>6, <1>7 DEF d, n

\* The steps of a run.
LEMMA RunStep ==
  ASSUME VerifyInv, NEW j \in Jobs, Walk(j) \/ JobStep(j) \/ JobFails(j)
  PROVE  VerifyInv'
<1> USE DEF VerifyInv, CheckpointsStand
<1>0. UNCHANGED <<chain, day, restores>>
  BY DEF Walk, JobStep, JobFails, ReadAnchors, Assess, ReadToday, PutAnchor, WriteCheckpoint, World
<1>1. ASSUME UNCHANGED anchors, checkpoints' = checkpoints, alarm' \in BOOLEAN,
             job' \in [Jobs -> {IdleJob} \cup JobStates], JobsHold'
      PROVE  VerifyInv'
  BY <1>0, <1>1 DEF VerifyTypeOK, Stands
<1>2. ASSUME UNCHANGED anchors, checkpoints' = checkpoints, alarm' \in BOOLEAN, Return(j)
      PROVE  VerifyInv'
  BY <1>0, <1>1, <1>2, EndedJob
<1>3. CASE Walk(j)
  <2>0. UNCHANGED anchors /\ checkpoints' = checkpoints /\ alarm' \in BOOLEAN
    BY <1>3 DEF Walk, Stores, VerifyTypeOK
  <2>1. CASE UNCHANGED alarm
    <3>1. JobHolds(j)'
      BY <1>0, <1>3, <2>1, WalkRecord DEF JobHolds, VerifyTypeOK
    <3>2. JobsHold'
      BY <1>0, <1>3, <2>0, <2>1, <3>1, WalkRecord, OtherJobs
    <3> QED BY <1>1, <1>3, <2>0, <2>1, <3>2, WalkRecord
  <2>2. CASE UNCHANGED job
    <3>1. JobsHold'
      BY <1>0, <2>0, <2>2 DEF JobsHold, JobHolds, Good, Anchored, Mismatch
    <3> QED BY <1>1, <2>0, <2>2, <3>1 DEF VerifyTypeOK
  <2> QED BY <1>3, <2>1, <2>2 DEF Walk
<1>4. CASE ReadAnchors(j)
  <2>0. UNCHANGED <<anchors, checkpoints, alarm>>
    BY <1>4 DEF ReadAnchors, Stores
  <2>1. CASE job[j].tip = 0
    BY <1>2, <1>4, <2>0, <2>1 DEF ReadAnchors, VerifyTypeOK
  <2>2. CASE job[j].tip # 0
    <3>1. JobHolds(j) /\ job[j] # IdleJob /\ job[j].tip \in Nat /\ day \in 1..day
      BY <1>4, JobShape, VerifyBounds DEF ReadAnchors, JobAt, JobsHold, JobStates, VerifyTypeOK, Days
    <3>2. JobHolds(j)'
      BY <1>0, <1>4, <2>0, <2>2, <3>1, LoadRecord DEF JobHolds, Anchored
    <3>3. JobsHold'
      BY <1>0, <1>4, <2>0, <2>2, <3>2, LoadRecord, OtherJobs
    <3> QED BY <1>1, <1>4, <2>0, <2>2, <3>3, LoadRecord DEF VerifyTypeOK
  <2> QED BY <2>1, <2>2
<1>5. CASE Assess(j)
  <2>0. UNCHANGED <<anchors, checkpoints>> /\ alarm' \in BOOLEAN
    BY <1>5 DEF Assess, Stores, VerifyTypeOK
  <2>1. CASE Return(j)
    BY <1>2, <2>0, <2>1
  <2>2. CASE ~Return(j)
    <3>1. /\ job' = [job EXCEPT ![j].pc = "day", ![j].prev = LastBefore(MaxDay + 1, job[j].loaded)]
          /\ \A d \in job[j].loaded : Holds(d, job[j].tip)
      BY <1>5, <2>2 DEF Assess
    <3>2. ~Mismatch
      BY <1>5, <3>1, AssessedMatches DEF Assess
    <3>3. JobHolds(j) /\ job[j] # IdleJob /\ job[j] \in JobStates /\ job[j].pc = "assess"
      BY <1>5, JobShape DEF Assess, JobAt, JobsHold
    <3>4. LastBefore(MaxDay + 1, job[j].loaded) \in 0..MaxDay
      <4>1. job[j].loaded \in SUBSET Days /\ MaxDay + 1 \in Nat
        BY <3>3, VerifyBounds DEF JobStates
      <4> QED BY <4>1, LastBeforeIs
    <3>5. /\ job' \in [Jobs -> {IdleJob} \cup JobStates]
          /\ \A k \in Jobs : k # j => job'[k] = job[k]
          /\ job'[j].pc = "day" /\ job'[j].tip = job[j].tip /\ job'[j].day = job[j].day
      BY <3>1, <3>3, <3>4, AssessRecord
    <3>6. JobHolds(j)'
      BY <1>0, <2>0, <3>2, <3>3, <3>5 DEF JobHolds, Mismatch, Anchored
    <3> QED BY <1>0, <1>1, <2>0, <3>5, <3>6, OtherJobs
  <2> QED BY <2>1, <2>2
<1>6. CASE ReadToday(j)
  <2>0. UNCHANGED <<anchors, checkpoints>> /\ alarm' \in BOOLEAN
    BY <1>6 DEF ReadToday, Stores, VerifyTypeOK
  <2>1. CASE Return(j)
    BY <1>2, <2>0, <2>1
  <2>2. ASSUME NEW pc \in {"put", "checkpoint"}, job' = [job EXCEPT ![j].pc = pc]
        PROVE  VerifyInv'
    <3>1. JobHolds(j) /\ job[j] # IdleJob /\ job[j].pc = "day"
      BY <1>6, JobShape DEF ReadToday, JobAt, JobsHold
    <3>2. JobHolds(j)'
      BY <1>0, <2>0, <2>2, <3>1, AdvanceRecord DEF JobHolds, Mismatch, Anchored
    <3>3. JobsHold'
      BY <1>0, <2>0, <2>2, <3>1, <3>2, AdvanceRecord, OtherJobs
    <3> QED BY <1>1, <2>0, <2>2, <3>1, <3>3, AdvanceRecord
  <2> QED BY <1>6, <2>1, <2>2 DEF ReadToday
<1>7. CASE PutAnchor(j)
  <2>1. CASE Anchored(job[j].day)
    BY <1>2, <1>7, <2>1 DEF PutAnchor, VerifyTypeOK
  <2>2. CASE ~Anchored(job[j].day)
    <3>1. job[j] # IdleJob /\ job' = [job EXCEPT ![j].pc = "checkpoint"] /\ JobHolds(j) /\ job[j].pc = "put"
      BY <1>7, <2>2, JobShape DEF PutAnchor, JobAt, JobsHold
    <3>2. VerifyTypeOK'
      BY <1>0, <1>7, <2>2, <3>1, PutMatches, AdvanceRecord DEF VerifyTypeOK
    <3>3. \A c \in checkpoints' : Stands(c)'
      BY <1>0, <1>7, <2>2, PutMatches DEF Stands
    <3>4. JobHolds(j)'
      BY <1>0, <1>7, <2>2, <3>1, PutMatches, AdvanceRecord DEF JobHolds
    <3>5. ASSUME NEW k \in Jobs, k # j PROVE JobHolds(k)'
      <4>1. JobHolds(k) /\ job'[k] = job[k]
        BY <3>1, <3>5, AdvanceRecord DEF JobsHold
      <4>2. \A d \in Days : (Anchored(d) => Good(d)) => (Anchored(d) => Good(d))'
        BY <1>0, <1>7, <2>2, PutMatches DEF Good, Anchored, VerifyTypeOK
      <4> QED BY <1>0, <1>7, <2>2, <4>1, <4>2, PutMatches DEF JobHolds
    <3> QED BY <3>2, <3>3, <3>4, <3>5 DEF JobsHold
  <2> QED BY <2>1, <2>2
<1>8. CASE WriteCheckpoint(j)
  <2> DEFINE c == [count |-> job[j].tip, head |-> chain[job[j].tip]]
  <2>1. JobHolds(j) /\ job[j] # IdleJob /\ job[j] \in JobStates /\ job[j].pc = "checkpoint"
    BY <1>8, JobShape DEF WriteCheckpoint, JobAt, JobsHold
  <2>2. job[j].tip \in 1..Len(chain) /\ job[j].tip \in 1..MaxEvents
    BY <2>1 DEF JobHolds, JobStates, VerifyTypeOK
  <2>3. c \in Heads /\ c.count = job[j].tip /\ c.head = chain[job[j].tip]
    BY <2>2 DEF Heads, VerifyTypeOK
  <2>4. UNCHANGED anchors /\ UNCHANGED alarm /\ Return(j)
        /\ (checkpoints' = checkpoints \/ checkpoints' = checkpoints \cup {c})
    BY <1>8 DEF WriteCheckpoint
  <2> HIDE DEF c
  <2>5. \A x \in checkpoints' : Stands(x)'
    BY <1>0, <2>2, <2>3, <2>4 DEF Stands
  <2>6. checkpoints' \subseteq Heads
    BY <2>3, <2>4 DEF VerifyTypeOK
  <2>7. VerifyTypeOK' /\ JobsHold'
    BY <1>0, <2>4, <2>6, EndedJob DEF VerifyTypeOK
  <2> QED BY <2>5, <2>7
<1>9. CASE JobFails(j)
  BY <1>2, <1>9 DEF JobFails, Stores, VerifyTypeOK
<1> QED BY <1>3, <1>4, <1>5, <1>6, <1>7, <1>8, <1>9 DEF JobStep

\* So every step keeps the invariant.
LEMMA VerifyStep == VerifyInv /\ [VerifyNext]_verifyVars => VerifyInv'
BY EnvironmentStep, RunStep DEF VerifyNext

\* No run is at work and no checkpoint written.
LEMMA VerifyInitHolds == VerifyInit => VerifyInv
<1> SUFFICES ASSUME VerifyInit PROVE VerifyInv
  OBVIOUS
<1>1. VerifyTypeOK
  <2>1. 1 \in Days /\ 0 \in Epochs /\ 0 <= MaxEvents
    BY VerifyBounds DEF Days, Epochs
  <2>2. <<>> \in Seq(Epochs) /\ Len(<<>>) = 0
    OBVIOUS
  <2> QED BY <2>1, <2>2 DEF VerifyInit, VerifyTypeOK
<1> QED BY <1>1 DEF VerifyInit, VerifyInv, CheckpointsStand, JobsHold, JobHolds

\* The inductive invariant.
LEMMA VerifyInvariance == VerifySpec => []VerifyInv
BY VerifyInitHolds, VerifyStep, PTL DEF VerifySpec

\* Every checkpoint is a position of the chain there is and the head it has
\* there, whichever runs overlapped, failed or were cut short by a restore.
THEOREM CheckpointsAlwaysStand == VerifySpec => []CheckpointsStand
BY VerifyInvariance, PTL DEF VerifyInv

\* A chain that lost events an anchor covers gets no further anchor and no
\* further checkpoint.
THEOREM LossStaysUnsigned == VerifySpec => LossIsNeverSigned
<1>1. VerifyInv /\ [VerifyNext]_verifyVars => [Mismatch => UNCHANGED <<anchors>> /\ checkpoints' \subseteq checkpoints]_verifyVars
  <2> SUFFICES ASSUME VerifyInv, VerifyNext, Mismatch
               PROVE  UNCHANGED anchors /\ checkpoints' \subseteq checkpoints
    OBVIOUS
  <2>1. ASSUME NEW j \in Jobs, PutAnchor(j) PROVE UNCHANGED anchors /\ checkpoints' \subseteq checkpoints
    BY <2>1, PutMatches DEF PutAnchor
  <2>2. ASSUME NEW j \in Jobs PROVE ~WriteCheckpoint(j)
    BY JobShape DEF VerifyInv, CheckpointsStand, JobsHold, JobHolds, WriteCheckpoint, JobAt
  <2>3. ASSUME NEW n \in 0..MaxEvents, Restore(n)
        PROVE UNCHANGED anchors /\ checkpoints' \subseteq checkpoints
    BY <2>3 DEF Restore
  <2> QED BY <2>1, <2>2, <2>3 DEF VerifyNext, RecordEvent, Midnight, Walk, JobStep, JobFails, ReadAnchors,
                                  Assess, ReadToday, Stores
<1> QED BY <1>1, VerifyInvariance, PTL DEF VerifySpec, LossIsNeverSigned

-----------------------------------------------------------------------------
(* Runs that do not overlap.                                               *)

\* Events are of the epoch they were recorded in, anchors of a day that has
\* come; an anchor longer than the chain is from before a restore.
EpochsHold ==
  /\ \A n \in 1..Len(chain) : chain[n] <= restores
  /\ \A d \in Days : Anchored(d) =>
       /\ anchors[d].head <= restores /\ d <= day
       /\ anchors[d].count > Len(chain) => anchors[d].head < restores

\* What a run found at its tip is all there was when it began: anything after
\* it is of this epoch, and no anchor of this epoch goes beyond it.
AloneHolds(j) ==
  job[j] # IdleJob =>
    /\ \A d \in Days : Anchored(d) /\ anchors[d].count > job[j].tip => anchors[d].head < restores
    /\ \A n \in 1..Len(chain) : n > job[j].tip => chain[n] = restores
    /\ job[j].pc \in {"assess", "day", "put"} =>
         /\ job[j].loaded = {d \in Days : Anchored(d)}
         /\ \A d \in job[j].loaded : d <= job[j].day
    /\ job[j].pc \in {"day", "put"} =>
         /\ \A d \in job[j].loaded : Holds(d, job[j].tip)
         /\ job[j].prev = LastBefore(MaxDay + 1, job[j].loaded)

SerialHolds ==
  ~overlapped => /\ ~Overlap /\ NoFalseAlarm /\ AnchorsLink
                 /\ \A j \in Jobs : AloneHolds(j)

HInv == VerifyInv /\ EpochsHold /\ overlapped \in BOOLEAN /\ SerialHolds

\* A mismatch outlives whatever is recorded after it.
LEMMA EpochsRecord ==
  ASSUME VerifyInv, EpochsHold, RecordEvent
  PROVE  EpochsHold' /\ (Mismatch => Mismatch')
<1> USE DEF VerifyInv, CheckpointsStand
<1>1. UNCHANGED <<anchors, day, restores>> /\ Len(chain) \in Nat /\ restores \in Nat
  BY DEF RecordEvent, VerifyTypeOK, Epochs
<1>2. ASSUME NEW n \in 1..Len(chain') PROVE chain'[n] <= restores'
  <2>1. CASE n \in 1..Len(chain)
    BY <1>1, <2>1, ChainGrows DEF EpochsHold
  <2>2. CASE n = Len(chain) + 1
    BY <1>1, <2>2, ChainGrows
  <2> QED BY <1>1, <2>1, <2>2, ChainGrows
<1>3. ASSUME NEW d \in Days, Anchored(d)
      PROVE  /\ anchors[d].head <= restores /\ d <= day
             /\ anchors[d].count > Len(chain) + 1 => anchors[d].head < restores
  BY <1>1, <1>3, AnchorShape DEF EpochsHold
<1>4. EpochsHold'
  BY <1>1, <1>2, <1>3, ChainGrows DEF EpochsHold, Anchored
<1>5. ASSUME NEW d \in Days, Anchored(d), ~Good(d) PROVE ~Good(d)'
  <2>1. anchors[d].count \in Nat /\ anchors[d].count >= 1 /\ anchors[d].head \in Nat
    BY <1>5, AnchorShape DEF Epochs
  <2>2. CASE anchors[d].count <= Len(chain)
    BY <1>1, <1>5, <2>1, <2>2, ChainGrows DEF Good
  <2>3. CASE anchors[d].count = Len(chain) + 1
    BY <1>1, <1>5, <2>1, <2>3, ChainGrows DEF Good, EpochsHold
  <2>4. CASE anchors[d].count > Len(chain) + 1
    BY <1>1, <2>1, <2>4, ChainGrows DEF Good
  <2> QED BY <1>1, <2>1, <2>2, <2>3, <2>4
<1>6. Mismatch => Mismatch'
  BY <1>1, <1>5, AnchorShape, ChainGrows DEF Mismatch, Good, Anchored
<1> QED BY <1>4, <1>6
\* The anchors link as long as none is put.
LEMMA LinksUntouched ==
  ASSUME AnchorsLink, UNCHANGED anchors
  PROVE  AnchorsLink'
<1>1. {d \in Days : Anchored(d)}' = {d \in Days : Anchored(d)}
  BY DEF Anchored
<1> QED BY <1>1 DEF AnchorsLink

\* Restores, midnights and records leave the runs serial.
LEMMA SerialEnvironment ==
  ASSUME HInv, HistoryNext, RecordEvent \/ Midnight \/ (\E n \in 0..MaxEvents : Restore(n))
  PROVE  EpochsHold' /\ SerialHolds'
<1> USE DEF HInv, VerifyInv, CheckpointsStand
<1>0. /\ overlapped' = (overlapped \/ Overlap') /\ Len(chain) \in Nat
      /\ restores \in Nat /\ day \in Nat
  BY DEF HistoryNext, VerifyTypeOK, Epochs, Days
<1>1. CASE RecordEvent
  <2>1. UNCHANGED <<checkpoints, anchors, day, restores, job, alarm>>
    BY <1>1 DEF RecordEvent
  <2>2. EpochsHold' /\ (Mismatch => Mismatch')
    BY <1>1, EpochsRecord
  <2>3. ASSUME ~overlapped' PROVE ~Overlap' /\ NoFalseAlarm' /\ AnchorsLink'
    <3>1. ~overlapped /\ ~Overlap' /\ NoFalseAlarm /\ AnchorsLink
      BY <1>0, <2>3 DEF SerialHolds
    <3> QED BY <2>1, <2>2, <3>1, LinksUntouched DEF NoFalseAlarm
  <2>4. ASSUME ~overlapped', NEW j \in Jobs, job[j] # IdleJob PROVE AloneHolds(j)'
    <3>1. AloneHolds(j) /\ JobHolds(j) /\ job[j].tip \in Nat
      BY <1>0, <2>4, JobShape, VerifyBounds DEF SerialHolds, JobsHold, JobStates
    <3>2. \A n \in 1..Len(chain') : n > job[j].tip => chain'[n] = restores
      BY <1>0, <1>1, <2>4, <3>1, ChainGrows DEF AloneHolds
    <3>3. ASSUME NEW d \in Days, Anchored(d), Holds(d, job[j].tip) PROVE Holds(d, job[j].tip)'
      <4>1. anchors[d].count \in 1..MaxEvents /\ anchors[d].count <= job[j].tip /\ job[j].tip <= Len(chain)
        BY <2>4, <3>1, <3>3, AnchorShape DEF Holds, JobHolds
      <4>2. anchors[d].count \in 1..Len(chain)
        BY <1>0, <3>1, <4>1, VerifyBounds
      <4>3. chain'[anchors[d].count] = chain[anchors[d].count]
        BY <1>1, <4>2, ChainGrows
      <4> QED BY <2>1, <3>3, <4>3 DEF Holds
    <3>4. LastBefore(MaxDay + 1, job[j].loaded)' = LastBefore(MaxDay + 1, job[j].loaded)
      BY <2>1 DEF LastBefore
    <3> QED BY <2>1, <2>4, <3>1, <3>2, <3>3, <3>4 DEF AloneHolds, Anchored
  <2> QED BY <2>1, <2>2, <2>3, <2>4 DEF SerialHolds, AloneHolds
<1>2. CASE Midnight
  <2>1. UNCHANGED <<chain, checkpoints, anchors, restores, job, alarm>> /\ day' = day + 1
    BY <1>2 DEF Midnight
  <2>2. EpochsHold'
    BY <1>0, <2>1 DEF EpochsHold, Anchored, Days
  <2>3. ASSUME ~overlapped' PROVE SerialHolds'
    <3>1. ~overlapped /\ ~Overlap' /\ NoFalseAlarm /\ AnchorsLink /\ \A j \in Jobs : AloneHolds(j)
      BY <1>0, <2>3 DEF SerialHolds
    <3>2. NoFalseAlarm' /\ AnchorsLink'
      BY <2>1, <3>1, LinksUntouched DEF NoFalseAlarm, Mismatch, Anchored
    <3>3. ASSUME NEW j \in Jobs PROVE AloneHolds(j)'
      BY <2>1, <3>1 DEF AloneHolds, Holds, Anchored
    <3> QED BY <3>1, <3>2, <3>3 DEF SerialHolds
  <2> QED BY <2>2, <2>3 DEF SerialHolds
<1>3. ASSUME NEW n \in 0..MaxEvents, Restore(n)
      PROVE  EpochsHold' /\ SerialHolds'
  <2>1. /\ UNCHANGED <<anchors, day>> /\ restores' = restores + 1
        /\ job' = [j \in Jobs |-> IdleJob] /\ alarm' = FALSE
    BY <1>3 DEF Restore
  <2>2. ASSUME NEW k \in 1..Len(chain') PROVE chain'[k] <= restores'
    <3>1. k \in 1..n /\ n < Len(chain) /\ chain'[k] = chain[k]
      BY <1>3, <2>2, ChainShrinks
    <3>2. k \in 1..Len(chain)
      <4>1. n \in Nat /\ Len(chain) \in Nat
        BY <1>0, VerifyBounds
      <4> HIDE DEF HInv, VerifyInv, CheckpointsStand
      <4> QED BY <3>1, <4>1
    <3>3. chain[k] \in Nat /\ chain[k] <= restores
      <4>1. chain \in Seq(Epochs) /\ \A m \in 1..Len(chain) : chain[m] <= restores
        BY <1>0 DEF VerifyTypeOK, EpochsHold
      <4>2. chain[k] \in Epochs
        BY <3>2, <4>1
      <4>3. Epochs \subseteq Nat
        BY VerifyBounds DEF Epochs
      <4> QED BY <3>2, <4>1, <4>2, <4>3
    <3> HIDE DEF HInv, VerifyInv, CheckpointsStand
    <3> QED BY <1>0, <2>1, <3>1, <3>3
  <2>3. \A d \in Days : Anchored(d) => anchors[d].head < restores + 1 /\ d <= day
    BY <1>0, AnchorShape DEF EpochsHold, Epochs
  <2>4. EpochsHold'
    BY <1>0, <2>1, <2>2, <2>3, AnchorShape DEF EpochsHold, Anchored, Epochs
  <2>5. ASSUME ~overlapped' PROVE SerialHolds'
    <3>1. ~overlapped /\ ~Overlap' /\ AnchorsLink
      BY <1>0, <2>5 DEF SerialHolds
    <3>2. \A j \in Jobs : AloneHolds(j)'
      BY <2>1 DEF AloneHolds
    <3> QED BY <2>1, <3>1, <3>2, LinksUntouched DEF SerialHolds, NoFalseAlarm
  <2> QED BY <2>4, <2>5 DEF SerialHolds
<1> QED BY <1>1, <1>2, <1>3

\* A step of one run that touches neither the chain nor the anchors.
LEMMA SerialQuiet ==
  ASSUME HInv, HistoryNext, UNCHANGED <<chain, anchors, day, restores>>, NEW j \in Jobs,
         \A k \in Jobs : k # j => job'[k] = job[k],
         ~overlapped /\ alarm' => Mismatch, ~overlapped => AloneHolds(j)'
  PROVE  EpochsHold' /\ SerialHolds'
<1> USE DEF HInv
<1>1. EpochsHold'
  BY DEF EpochsHold, Anchored
<1>2. ASSUME ~overlapped' PROVE ~overlapped /\ ~Overlap' /\ NoFalseAlarm' /\ AnchorsLink'
  <2>1. ~overlapped /\ ~Overlap' /\ AnchorsLink
    BY <1>2 DEF HistoryNext, SerialHolds
  <2>2. Mismatch' = Mismatch
    BY DEF Mismatch, Anchored
  <2> QED BY <2>1, <2>2, LinksUntouched DEF NoFalseAlarm
<1>3. ASSUME ~overlapped', NEW k \in Jobs, k # j PROVE AloneHolds(k)'
  <2>1. AloneHolds(k) /\ job'[k] = job[k]
    BY <1>2, <1>3 DEF SerialHolds
  <2> QED BY <2>1 DEF AloneHolds, Holds, Anchored
<1> QED BY <1>1, <1>2, <1>3 DEF SerialHolds

\* The new anchor follows those before it.
LEMMA SerialPut ==
  ASSUME HInv, HistoryNext, NEW j \in Jobs, PutAnchor(j), ~Anchored(job[j].day)
  PROVE  EpochsHold' /\ SerialHolds'
<1> DEFINE D == {e \in Days : Anchored(e)}
<1> USE DEF HInv, VerifyInv, CheckpointsStand
<1>0. /\ overlapped' = (overlapped \/ Overlap') /\ Len(chain) \in Nat
      /\ restores \in Nat /\ day \in Nat /\ MaxDay \in Nat
  BY VerifyBounds DEF HistoryNext, VerifyTypeOK, Epochs, Days
<1>1. /\ job[j] # IdleJob /\ job[j].pc = "put" /\ JobHolds(j)
      /\ job' = [job EXCEPT ![j].pc = "checkpoint"]
  BY JobShape DEF PutAnchor, JobAt, JobsHold
<1>a. PICK d \in Days : d = job[j].day
  BY <1>1, PutMatches
<1>2. /\ UNCHANGED <<chain, day, restores, checkpoints, alarm>> /\ d \in Days /\ ~Mismatch'
      /\ \A e \in Days : e # d => anchors'[e] = anchors[e]
      /\ anchors'[d] \in Anchors /\ anchors'[d].count = job[j].tip
      /\ anchors'[d].head = chain[job[j].tip] /\ anchors'[d].prev = job[j].prev
      /\ job[j].tip \in 1..Len(chain) /\ d <= day /\ ~Anchored(d)
  BY <1>1, <1>a, PutMatches DEF JobHolds
<1>3. Anchored(d)' /\ \A e \in Days : e # d => (Anchored(e)' <=> Anchored(e))
  <2>1. NoAnchor \notin Anchors
    BY <1>2, AnchorShape
  <2> QED BY <1>2, <2>1 DEF Anchored
<1>4. EpochsHold'
  BY <1>0, <1>2, <1>3 DEF EpochsHold
<1>5. ASSUME ~overlapped' PROVE SerialHolds'
  <2>1. ~overlapped /\ ~Overlap' /\ AloneHolds(j) /\ AnchorsLink /\ NoFalseAlarm
    BY <1>0, <1>5 DEF SerialHolds
  <2>2. job'[j] # IdleJob /\ job'[j].tip = job[j].tip /\ job'[j].pc = "checkpoint"
    <3>1. job'[j].tip = job[j].tip /\ job'[j].pc = "checkpoint"
      BY <1>1, AdvanceRecord
    <3> QED BY <3>1 DEF IdleJob
  <2>3. \A k \in Jobs : k # j => job'[k] = IdleJob
    BY <2>1, <2>2 DEF Overlap
  <2>4. /\ job[j].loaded = D /\ \A e \in D : e <= d /\ Holds(e, job[j].tip)
        /\ job[j].prev = LastBefore(MaxDay + 1, D)
    BY <1>1, <1>a, <2>1 DEF AloneHolds
  <2>5. AloneHolds(j)'
    <3>1. ASSUME NEW e \in Days, Anchored(e)', anchors'[e].count > job[j].tip
          PROVE  anchors'[e].head < restores
      <4>1. e # d
        BY <1>0, <1>2, <3>1
      <4> QED BY <1>1, <1>2, <1>3, <2>1, <3>1, <4>1 DEF AloneHolds
    <3>2. \A n \in 1..Len(chain) : n > job[j].tip => chain[n] = restores
      BY <1>1, <2>1 DEF AloneHolds
    <3> QED BY <1>2, <2>2, <3>1, <3>2 DEF AloneHolds
  <2>6. NoFalseAlarm'
    <3>1. ~alarm
      BY <1>1, <2>1 DEF JobHolds, NoFalseAlarm
    <3> QED BY <1>2, <3>1 DEF NoFalseAlarm
  <2>7. AnchorsLink'
    <3> DEFINE E == D \cup {d}
    <3>1. {e \in Days : Anchored(e)}' = E
      BY <1>2, <1>3
    <3>2. \A e \in D : e \in 1..MaxDay /\ e < d /\ d \in 1..MaxDay
      BY <1>2, <2>4 DEF Days
    <3>3. D \in SUBSET Days /\ E \in SUBSET Days /\ d \in 1..MaxDay /\ d \in Nat
      BY <1>2 DEF Days
    <3>4. ASSUME NEW e \in D PROVE LastBefore(e, E) = LastBefore(e, D)
      <4>1. e \in Nat
        BY <3>2, <3>4
      <4>2. IsLastBefore(LastBefore(e, D), e, D) /\ LastBefore(e, D) \in 0..MaxDay
        BY <3>3, <4>1, LastBeforeIs
      <4>3. IsLastBefore(LastBefore(e, D), e, E)
        BY <3>2, <3>4, <4>2 DEF IsLastBefore
      <4> QED BY <3>3, <4>1, <4>2, <4>3, LastBeforeIs
    <3>5. LastBefore(d, E) = LastBefore(MaxDay + 1, D)
      <4>1. /\ IsLastBefore(LastBefore(MaxDay + 1, D), MaxDay + 1, D)
            /\ LastBefore(MaxDay + 1, D) \in 0..MaxDay
        <5>1. MaxDay + 1 \in Nat
          BY <1>0
        <5> HIDE DEF D, E
        <5> QED BY <3>3, <5>1, LastBeforeIs
      <4>2. IsLastBefore(LastBefore(MaxDay + 1, D), d, E)
        BY <1>0, <3>2, <3>3, <4>1 DEF IsLastBefore
      <4> QED BY <3>3, <4>1, <4>2, LastBeforeIs
    <3>6. LastBefore(d, E) = anchors'[d].prev /\ \A e \in E : anchors'[e].count <= anchors'[d].count
      <4>1. \A e \in D : anchors'[e].count <= job[j].tip
        BY <1>2, <2>4, <3>2 DEF Holds
      <4> QED BY <1>0, <1>2, <2>4, <3>5, <4>1
    <3>7. ASSUME NEW e \in D
          PROVE  anchors'[e].prev = LastBefore(e, E) /\ \A f \in E : f <= e => anchors'[f].count <= anchors'[e].count
      <4>1. e \in Days /\ e # d /\ anchors'[e] = anchors[e]
        BY <1>2, <3>7
      <4>2. anchors[e].prev = LastBefore(e, D) /\ \A f \in D : f <= e => anchors[f].count <= anchors[e].count
        BY <2>1, <3>7 DEF AnchorsLink
      <4>3. \A f \in E : f <= e => f \in D /\ anchors'[f] = anchors[f]
        BY <1>2, <3>2, <3>3, <3>7
      <4> QED BY <3>4, <3>7, <4>1, <4>2, <4>3
    <3> HIDE DEF E
    <3>8. \A e \in E : e = d \/ e \in D
      BY DEF E
    <3> QED BY <3>1, <3>6, <3>7, <3>8 DEF AnchorsLink
  <2> QED BY <2>1, <2>3, <2>5, <2>6, <2>7 DEF SerialHolds, AloneHolds
<1> QED BY <1>4, <1>5 DEF SerialHolds

\* Unless events an anchor covers are gone, a run that is alone finds every
\* anchor it read where the anchor says it is.
LEMMA AloneAgrees ==
  ASSUME VerifyInv, EpochsHold, NEW j \in Jobs, AloneHolds(j), job[j] # IdleJob, ~Mismatch,
         NEW d \in Days, Anchored(d)
  PROVE  Holds(d, job[j].tip)
<1>1. /\ anchors[d].count \in Nat /\ anchors[d].count >= 1 /\ anchors[d].head \in Nat
      /\ job[j].tip \in Nat /\ restores \in Nat /\ Len(chain) \in Nat
  BY AnchorShape, JobShape, VerifyBounds
     DEF Epochs, VerifyInv, CheckpointsStand, VerifyTypeOK, JobStates
<1>2. anchors[d].count <= Len(chain) /\ chain[anchors[d].count] = anchors[d].head
  BY <1>1 DEF Mismatch
<1>3. ~(anchors[d].count > job[j].tip)
  BY <1>1, <1>2 DEF AloneHolds
<1> QED BY <1>1, <1>2, <1>3 DEF Holds

\* And they link back.
LEMMA AloneLinks ==
  ASSUME VerifyInv, AnchorsLink, ~Mismatch
  PROVE  LinksBack({d \in Days : Anchored(d)})
<1> DEFINE D == {d \in Days : Anchored(d)}
<1> SUFFICES ASSUME NEW d \in D, LastBefore(d, D) # 0
             PROVE  LET e == LastBefore(d, D) IN
                    /\ anchors[d].count >= anchors[e].count
                    /\ anchors[d].count = anchors[e].count => anchors[d].head = anchors[e].head
  BY DEF AnchorsLink, LinksBack
<1> DEFINE e == LastBefore(d, D)
<1>1. d \in Nat /\ D \in SUBSET Days /\ \A f \in D : f \in Nat
  BY DEF Days
<1>2. e \in D /\ e < d
  <2> HIDE DEF D, e
  <2>1. IsLastBefore(LastBefore(d, D), d, D)
    BY <1>1, LastBeforeIs
  <2> QED BY <2>1 DEF IsLastBefore, e
<1>3. anchors[e].count <= anchors[d].count
  <2>1. \A f \in D : f <= d => anchors[f].count <= anchors[d].count
    BY DEF AnchorsLink
  <2> HIDE DEF e, D
  <2>2. e \in D /\ e <= d
    BY <1>1, <1>2
  <2> QED BY <2>1, <2>2
<1> HIDE DEF e
<1>4. /\ anchors[d].head = chain[anchors[d].count] /\ anchors[e].head = chain[anchors[e].count]
      /\ anchors[d].count \in Nat /\ anchors[e].count \in Nat
  BY <1>2, AnchorShape DEF Mismatch, VerifyInv, CheckpointsStand
<1> QED BY <1>3, <1>4 DEF e

\* A step of a run.
LEMMA SerialRun ==
  ASSUME HInv, HistoryNext, NEW j \in Jobs, Walk(j) \/ JobStep(j) \/ JobFails(j)
  PROVE  EpochsHold' /\ SerialHolds'
<1> USE DEF HInv, VerifyInv, CheckpointsStand
<1>1. CASE PutAnchor(j) /\ ~Anchored(job[j].day)
  BY <1>1, SerialPut
<1>2. CASE Return(j) /\ UNCHANGED <<chain, anchors, day, restores, alarm>>
  <2>1. AloneHolds(j)' /\ \A k \in Jobs : k # j => job'[k] = job[k]
    BY <1>2, ReturnRecord DEF AloneHolds
  <2> QED BY <1>2, <2>1, SerialQuiet DEF SerialHolds, NoFalseAlarm
<1>3. CASE Walk(j)
  <2>1. UNCHANGED <<chain, anchors, day, restores, alarm>>
    BY <1>3 DEF Walk, Stores, World
  <2>2. /\ \A k \in Jobs : k # j => job'[k] = job[k]
        /\ job'[j] # IdleJob => job'[j].pc = "probe" /\ job'[j].tip = Len(chain)
    BY <1>3, <2>1, WalkRecord
  <2>3. ASSUME job'[j] # IdleJob PROVE AloneHolds(j)'
    <3>1. \A n \in 1..Len(chain) : ~(n > Len(chain))
      BY DEF VerifyTypeOK
    <3>2. \A d \in Days : Anchored(d) /\ anchors[d].count > Len(chain) => anchors[d].head < restores
      BY DEF EpochsHold
    <3> QED BY <2>1, <2>2, <2>3, <3>1, <3>2 DEF AloneHolds, Anchored
  <2>4. AloneHolds(j)'
    BY <2>3 DEF AloneHolds
  <2> QED BY <2>1, <2>2, <2>4, SerialQuiet DEF SerialHolds, NoFalseAlarm
<1>4. CASE ReadAnchors(j) /\ job[j].tip # 0
  <2>1. UNCHANGED <<chain, anchors, day, restores, alarm>> /\ job[j] # IdleJob
    BY <1>4, JobShape DEF ReadAnchors, Stores, World, JobAt
  <2>2. /\ \A k \in Jobs : k # j => job'[k] = job[k]
        /\ job'[j].pc = "assess" /\ job'[j].tip = job[j].tip /\ job'[j].day = day
        /\ job'[j].loaded = {d \in Days : Anchored(d)}
    BY <1>4, LoadRecord
  <2>3. ASSUME ~overlapped PROVE AloneHolds(j)'
    <3>1. AloneHolds(j)
      BY <2>3 DEF SerialHolds
    <3>2. \A d \in Days : Anchored(d) => d <= day
      BY DEF EpochsHold
    <3>3. /\ \A d \in Days : Anchored(d) /\ anchors[d].count > job[j].tip => anchors[d].head < restores
          /\ \A n \in 1..Len(chain) : n > job[j].tip => chain[n] = restores
      BY <2>1, <3>1 DEF AloneHolds
    <3> QED BY <2>1, <2>2, <3>2, <3>3 DEF AloneHolds, Anchored
  <2> QED BY <2>1, <2>2, <2>3, SerialQuiet DEF SerialHolds, NoFalseAlarm
<1>5. CASE Assess(j)
  <2> DEFINE D == job[j].loaded
  <2>1. UNCHANGED <<chain, anchors, day, restores>> /\ job[j] # IdleJob /\ job[j].pc = "assess"
    BY <1>5, JobShape DEF Assess, Stores, World, JobAt
  <2>a. LastBefore(MaxDay + 1, D) \in 0..MaxDay
    <3>1. MaxDay + 1 \in Nat /\ D \in SUBSET Days
      BY <2>1, JobShape, VerifyBounds DEF JobStates
    <3> HIDE DEF D
    <3> QED BY <3>1, LastBeforeIs
  <2>2. CASE UNCHANGED alarm /\ ~Return(j)
    <3>1. /\ \A d \in D : Holds(d, job[j].tip)
          /\ job' = [job EXCEPT ![j].pc = "day", ![j].prev = LastBefore(MaxDay + 1, D)]
      BY <1>5, <2>2 DEF Assess
    <3>3. /\ \A k \in Jobs : k # j => job'[k] = job[k]
          /\ job'[j].pc = "day" /\ job'[j].prev = LastBefore(MaxDay + 1, D)
          /\ job'[j].tip = job[j].tip /\ job'[j].day = job[j].day
          /\ job'[j].loaded = job[j].loaded
      BY <2>1, <2>a, <3>1, AssessRecord
    <3>4. ASSUME ~overlapped PROVE AloneHolds(j)'
      <4>1. AloneHolds(j)
        BY <3>4 DEF SerialHolds
      <4>2. /\ \A d \in Days : Anchored(d) /\ anchors[d].count > job[j].tip => anchors[d].head < restores
            /\ \A n \in 1..Len(chain) : n > job[j].tip => chain[n] = restores
            /\ job[j].loaded = {d \in Days : Anchored(d)}
            /\ \A d \in job[j].loaded : d <= job[j].day
        BY <2>1, <4>1 DEF AloneHolds
      <4>3. /\ \A d \in job[j].loaded : Holds(d, job[j].tip)'
            /\ LastBefore(MaxDay + 1, job[j].loaded)' = LastBefore(MaxDay + 1, job[j].loaded')
        BY <2>1, <3>1, <3>3 DEF Holds, LastBefore
      <4> QED BY <2>1, <3>1, <3>3, <4>2, <4>3 DEF AloneHolds, Anchored
    <3> QED BY <2>1, <2>2, <3>3, <3>4, SerialQuiet DEF SerialHolds, NoFalseAlarm
  <2>3. CASE Return(j)
    <3>1. AloneHolds(j)' /\ \A k \in Jobs : k # j => job'[k] = job[k]
      BY <2>3, ReturnRecord DEF AloneHolds
    <3>2. ASSUME ~overlapped PROVE Mismatch
      <4> SUFFICES ASSUME ~Mismatch PROVE FALSE
        OBVIOUS
      <4>1. AloneHolds(j) /\ AnchorsLink
        BY <3>2 DEF SerialHolds
      <4>2. D = {d \in Days : Anchored(d)} /\ \A d \in D : d <= job[j].day
        BY <2>1, <4>1 DEF AloneHolds
      <4>3. LinksBack(D)
        BY <4>1, <4>2, AloneLinks
      <4>4. \A d \in D : Holds(d, job[j].tip)
        BY <2>1, <4>1, <4>2, AloneAgrees
      <4>5. job' = [job EXCEPT ![j].pc = "day", ![j].prev = LastBefore(MaxDay + 1, D)]
        BY <1>5, <4>2, <4>3, <4>4 DEF Assess
      <4>6. job'[j].pc = "day"
        BY <2>1, <2>a, <4>5, AssessRecord
      <4> QED BY <2>3, <4>6, ReturnRecord DEF IdleJob
    <3> QED BY <2>1, <3>1, <3>2, SerialQuiet
  <2> QED BY <1>5, <2>2, <2>3 DEF Assess
<1>6. CASE ReadToday(j) /\ ~Return(j)
  <2>1. UNCHANGED <<chain, anchors, day, restores, alarm>> /\ job[j] # IdleJob /\ job[j].pc = "day"
    BY <1>6, JobShape DEF ReadToday, Stores, World, JobAt
  <2>2. PICK pc \in {"put", "checkpoint"} : job' = [job EXCEPT ![j].pc = pc]
    BY <1>6 DEF ReadToday
  <2>3. /\ \A k \in Jobs : k # j => job'[k] = job[k]
        /\ job'[j].pc = pc /\ job'[j].prev = job[j].prev
        /\ job'[j].tip = job[j].tip /\ job'[j].day = job[j].day
        /\ job'[j].loaded = job[j].loaded
    BY <2>1, <2>2, AdvanceRecord
  <2>4. ASSUME ~overlapped PROVE AloneHolds(j)'
    <3>1. AloneHolds(j)
      BY <2>4 DEF SerialHolds
    <3>2. /\ \A d \in Days : Anchored(d) /\ anchors[d].count > job[j].tip => anchors[d].head < restores
          /\ \A n \in 1..Len(chain) : n > job[j].tip => chain[n] = restores
          /\ job[j].loaded = {d \in Days : Anchored(d)}
          /\ \A d \in job[j].loaded : d <= job[j].day
          /\ \A d \in job[j].loaded : Holds(d, job[j].tip)
          /\ job[j].prev = LastBefore(MaxDay + 1, job[j].loaded)
      BY <2>1, <3>1 DEF AloneHolds
    <3>3. /\ \A d \in job[j].loaded : Holds(d, job[j].tip)'
          /\ LastBefore(MaxDay + 1, job[j].loaded)' = LastBefore(MaxDay + 1, job[j].loaded')
      BY <2>1, <2>3, <3>2 DEF Holds, LastBefore
    <3> QED BY <2>1, <2>3, <3>2, <3>3 DEF AloneHolds, Anchored
  <2> QED BY <2>1, <2>3, <2>4, SerialQuiet DEF SerialHolds, NoFalseAlarm
<1>7. CASE ReadToday(j) /\ Return(j)
  <2>1. UNCHANGED <<chain, anchors, day, restores>> /\ job[j] # IdleJob /\ job[j].pc = "day"
    BY <1>7, JobShape DEF ReadToday, Stores, World, JobAt
  <2>2. AloneHolds(j)' /\ (\A k \in Jobs : k # j => job'[k] = job[k]) /\ job'[j] = IdleJob
    BY <1>7, ReturnRecord DEF AloneHolds
  <2>3. ~overlapped => FALSE
    <3> SUFFICES ASSUME ~overlapped PROVE FALSE
      OBVIOUS
    <3>1. AloneHolds(j) /\ job[j].day \in Days
      BY <2>1, JobShape, VerifyBounds DEF SerialHolds, JobsHold, JobHolds, Days, VerifyTypeOK
    <3>2. \A d \in Days : Anchored(d) => d \in job[j].loaded /\ Holds(d, job[j].tip)
      BY <2>1, <3>1 DEF AloneHolds
    <3>3. PICK pc \in {"put", "checkpoint"} : job' = [job EXCEPT ![j].pc = pc]
      BY <1>7, <3>1, <3>2 DEF ReadToday, KnownHead
    <3>4. job'[j].pc = pc
      BY <2>1, <3>3, AdvanceRecord
    <3> QED BY <2>2, <3>4 DEF IdleJob
  <2> QED BY <2>1, <2>2, <2>3, SerialQuiet
<1>8. CASE WriteCheckpoint(j) \/ JobFails(j) \/ (ReadAnchors(j) /\ job[j].tip = 0)
           \/ (PutAnchor(j) /\ Anchored(job[j].day))
  <2>1. Return(j) /\ UNCHANGED <<chain, anchors, day, restores, alarm>>
    BY <1>8 DEF WriteCheckpoint, JobFails, ReadAnchors, PutAnchor, Stores, World
  <2> QED BY <1>2, <2>1
<1> QED BY <1>1, <1>3, <1>4, <1>5, <1>6, <1>7, <1>8 DEF JobStep

\* Every step, of the job and of the world, with the history kept.
LEMMA HistoryStep == HInv /\ [HistoryNext]_<<verifyVars, overlapped>> => HInv'
<1> SUFFICES ASSUME HInv, [HistoryNext]_<<verifyVars, overlapped>> PROVE HInv'
  OBVIOUS
<1>1. VerifyInv'
  BY VerifyStep DEF HInv, HistoryNext, verifyVars
<1>2. CASE UNCHANGED <<verifyVars, overlapped>>
  <2>1. UNCHANGED <<chain, checkpoints, anchors, day, restores, job, alarm, overlapped>>
    BY <1>2 DEF verifyVars
  <2>2. EpochsHold' /\ overlapped' \in BOOLEAN
    BY <2>1 DEF HInv, EpochsHold, Anchored
  <2>3. ASSUME ~overlapped' PROVE ~Overlap' /\ NoFalseAlarm' /\ AnchorsLink'
    BY <2>1, <2>3, LinksUntouched DEF HInv, SerialHolds, Overlap, NoFalseAlarm, Mismatch, Anchored
  <2>4. ASSUME ~overlapped', NEW j \in Jobs PROVE AloneHolds(j)'
    <3>1. AloneHolds(j)
      BY <2>1, <2>4 DEF HInv, SerialHolds
    <3> QED BY <2>1, <3>1 DEF AloneHolds, Holds, Anchored, LastBefore
  <2> QED BY <1>1, <2>2, <2>3, <2>4 DEF HInv, SerialHolds
<1>3. CASE HistoryNext
  <2>1. overlapped' \in BOOLEAN
    BY <1>3 DEF HistoryNext, HInv
  <2>2. CASE RecordEvent \/ Midnight \/ (\E n \in 0..MaxEvents : Restore(n))
    BY <1>1, <1>3, <2>1, <2>2, SerialEnvironment DEF HInv
  <2>3. ASSUME NEW j \in Jobs, Walk(j) \/ JobStep(j) \/ JobFails(j) PROVE HInv'
    BY <1>1, <1>3, <2>1, <2>3, SerialRun DEF HInv
  <2> QED BY <1>3, <2>2, <2>3 DEF HistoryNext, VerifyNext
<1> QED BY <1>2, <1>3

\* There is neither an event nor an anchor nor a run.
LEMMA HistoryStart == HistoryInit => HInv
<1> SUFFICES ASSUME HistoryInit PROVE HInv
  OBVIOUS
<1>1. VerifyInv /\ overlapped = FALSE
  BY VerifyInitHolds DEF HistoryInit
<1>2. /\ chain = <<>> /\ alarm = FALSE /\ (\A d \in Days : ~Anchored(d))
      /\ \A j \in Jobs : job[j] = IdleJob
  BY DEF HistoryInit, VerifyInit, Anchored
<1>3. EpochsHold
  BY <1>2 DEF EpochsHold
<1>4. ~Overlap /\ NoFalseAlarm /\ AnchorsLink /\ \A j \in Jobs : AloneHolds(j)
  BY <1>2 DEF AloneHolds, Overlap, NoFalseAlarm, AnchorsLink
<1> QED BY <1>1, <1>3, <1>4 DEF HInv, SerialHolds

\* As long as runs of the job did not overlap, its alarm means that events an
\* anchor covers are gone, and each day's anchor links to the one before it and
\* is no shorter: through crashes, repeated runs, skipped days and restores.
THEOREM SerialRunsAlwaysAgree == HistorySpec => []SerialRunsAgree
BY HistoryStart, HistoryStep, PTL DEF HistorySpec, HInv, SerialHolds, SerialRunsAgree
=============================================================================
