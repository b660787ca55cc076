------------------------ MODULE EvidenceScan_proofs ------------------------
(***************************************************************************)
(* For every set of rows, handlers, workers and contents, and every bound: *)
(* the type invariant of EvidenceScan; only verified bytes reach the       *)
(* evidence bucket and no row is downloadable without such bytes; until a  *)
(* run outlives its job lock a row has one scan at a time and its digest   *)
(* is that of the served bytes; and files of form invitations follow the   *)
(* abstract lifecycle.                                                     *)
(***************************************************************************)
EXTENDS MCEvidenceScan, FiniteSetTheorems, TLAPS

\* What a run has established at each of its steps.
RunKnows ==
  \A w \in Workers :
    /\ scan[w].pc \in {"type", "scan", "copy"} => scan[w].etag \in RightSize
    /\ scan[w].pc \in {"scan", "copy"} => scan[w].etag \in RightType
    /\ scan[w].pc = "copy" => scan[w].etag \in Harmless
    /\ scan[w].pc \in {"copy", "delete"} => scan[w].outcome = "clean"
    /\ scan[w].pc = "drop" => scan[w].outcome \in {"infected", "rejected"}
    /\ scan[w].pc = "settle" => scan[w].outcome # "none"
    /\ scan[w].pc = "delete" => bucket[scan[w].ev] # NoObject
    /\ scan[w].pc = "settle" /\ scan[w].outcome = "clean" => bucket[scan[w].ev] # NoObject

\* Nothing is deleted from the evidence bucket, so an evidence key names an object.
KeyHasObject == \A e \in Evidence : digest[e] # NoObject => bucket[e] # NoObject

\* Letters are only added while the sweep works on the ones it read.
LettersRead ==
  sweep.pc = "redrive" => \A e \in Evidence : sweep.letters[e] <= letters[e]

IInv == TypeOK /\ LettersRead /\ RunKnows /\ KeyHasObject /\ PromotedIsVerified

\* The invariant holds of an empty pipeline.
LEMMA InitIInv == Init => IInv
  BY EvidenceAssumption
  DEF Init, IInv, TypeOK, LettersRead, RunKnows, KeyHasObject, PromotedIsVerified,
      Statuses, Objects, ReqStates, ReqRun, ScanStates, ScanRun, SweepStates, SweepRun, ReqIdle, ScanIdle, SweepIdle

\* Every action keeps the types; redriving relies on the letters it read being there.
LEMMA TypeNext == IInv /\ [Next]_vars => TypeOK'
  <1> SUFFICES ASSUME IInv, [Next]_vars PROVE TypeOK'
    OBVIOUS
  <1> USE EvidenceAssumption DEF IInv, TypeOK, rowVars, objectVars, queueVars
  <1>1. ASSUME NEW e \in Evidence, RequestUpload(e) PROVE TypeOK'
    BY <1>1 DEF RequestUpload, Statuses
  <1>2. ASSUME NEW e \in Evidence, GrowOld(e) PROVE TypeOK'
    BY <1>2 DEF GrowOld
  <1>3. ASSUME NEW e \in Evidence, WaitTooLong(e) PROVE TypeOK'
    BY <1>3 DEF WaitTooLong
  <1>4. ASSUME NEW e \in Evidence, NEW c \in Contents, Put(e, c) PROVE TypeOK'
    BY <1>4 DEF Put, Objects
  <1>5. ASSUME NEW r \in Requests, NEW e \in Evidence, CompleteRead(r, e) PROVE TypeOK'
    BY <1>5 DEF CompleteRead, ReqUnchanged, ReqStates, ReqRun
  <1>6. ASSUME NEW r \in Requests, CompleteHead(r) PROVE TypeOK'
    BY <1>6 DEF CompleteHead, ReqUnchanged, ReqStates, ReqRun, ReqIdle, Requesting
  <1>7. ASSUME NEW r \in Requests, CompleteCommit(r) PROVE TypeOK'
    <2>1. req[r] \in ReqRun
      BY <1>7 DEF CompleteCommit, Requesting, ReqStates, ReqRun, ReqIdle
    <2>2. req' \in [Requests -> ReqStates]
      BY <1>7, <2>1 DEF CompleteCommit, MayQuarantine, ReqStates, ReqRun, ReqIdle
    <2>3. status' \in [Evidence -> Statuses] /\ waited' \in [Evidence -> BOOLEAN]
      BY <1>7, <2>1 DEF CompleteCommit, MayQuarantine, Statuses
    <2>4. QED
      BY <1>7, <2>2, <2>3 DEF CompleteCommit, ReqUnchanged
  <1>8. ASSUME NEW r \in Requests, CompleteEnqueue(r) PROVE TypeOK'
    <2>1. req[r] \in ReqRun
      BY <1>8 DEF CompleteEnqueue, Requesting, ReqStates, ReqRun, ReqIdle
    <2>2. CASE keyed[req[r].ev]
      BY <1>8, <2>2 DEF CompleteEnqueue, EnqueueKeyed, ReqUnchanged, ReqStates
    <2>3. CASE ~keyed[req[r].ev]
      <3>1. jobs' \in [Evidence -> Nat]
        BY <1>8, <2>1, <2>3 DEF CompleteEnqueue, EnqueueKeyed, ReqRun
      <3>2. keyed' \in [Evidence -> BOOLEAN]
        BY <1>8, <2>1, <2>3 DEF CompleteEnqueue, EnqueueKeyed, ReqRun
      <3>3. QED
        BY <1>8, <3>1, <3>2 DEF CompleteEnqueue, ReqUnchanged, ReqStates
    <2>4. QED
      BY <2>2, <2>3
  <1>9. ASSUME NEW r \in Requests, RequestFails(r) PROVE TypeOK'
    BY <1>9 DEF RequestFails, ReqUnchanged, ReqStates, ReqRun, ReqIdle
  <1>10. ASSUME NEW w \in Workers, NEW e \in Evidence, TakeJob(w, e) PROVE TypeOK'
    BY <1>10 DEF TakeJob, ScanUnchanged, ScanStates, ScanRun, ScanIdle, ScanPcs, Outcomes, Objects
  <1>11. ASSUME NEW w \in Workers, ScanRead(w) PROVE TypeOK'
    BY <1>11 DEF ScanRead, Scanning, Goto, ScanUnchanged, ScanStates, ScanRun, ScanIdle, ScanPcs
  <1>12. ASSUME NEW w \in Workers, ScanHead(w) PROVE TypeOK'
    BY <1>12 DEF ScanHead, Scanning, Goto, Decide, ScanUnchanged, ScanStates, ScanRun, ScanIdle, ScanPcs, Outcomes
  <1>13. ASSUME NEW w \in Workers, ScanMissing(w) PROVE TypeOK'
    BY <1>13 DEF ScanMissing, Scanning, Decide, ScanUnchanged, ScanStates, ScanRun, ScanIdle, ScanPcs, Outcomes
  <1>14. ASSUME NEW w \in Workers, DetectType(w) PROVE TypeOK'
    BY <1>14 DEF DetectType, Scanning, Goto, Decide, ScanUnchanged, ScanStates, ScanRun, ScanIdle, ScanPcs, Outcomes
  <1>15. ASSUME NEW w \in Workers, Verdict(w) PROVE TypeOK'
    BY <1>15 DEF Verdict, Scanning, Decide, ScanUnchanged, ScanStates, ScanRun, ScanIdle, ScanPcs, Outcomes
  <1>16. ASSUME NEW w \in Workers, Drop(w) PROVE TypeOK'
    BY <1>16 DEF Drop, Scanning, Goto, ScanUnchanged, ScanStates, ScanRun, ScanIdle, ScanPcs, Objects
  <1>17. ASSUME NEW w \in Workers, Promote(w) PROVE TypeOK'
    BY <1>17 DEF Promote, Scanning, Goto, ScanUnchanged, ScanStates, ScanRun, ScanIdle, ScanPcs
  <1>18. ASSUME NEW w \in Workers, DeletePromoted(w) PROVE TypeOK'
    BY <1>18 DEF DeletePromoted, Scanning, Goto, ScanUnchanged, ScanStates, ScanRun, ScanIdle, ScanPcs, Objects
  <1>19. ASSUME NEW w \in Workers, Settle(w) PROVE TypeOK'
    BY <1>19 DEF Settle, Scanning, ScanUnchanged, ScanStates, ScanRun, ScanIdle, Outcomes, Statuses, RunKnows
  <1>20. ASSUME NEW w \in Workers, scan[w] # ScanIdle, Throw(w), faults' \in Nat PROVE TypeOK'
    BY <1>20 DEF Throw, JobThrown, ScanUnchanged, ScanStates, ScanRun, ScanIdle
  <1>21. ASSUME NEW w \in Workers, Stall(w) PROVE TypeOK'
    <2>1. scan[w] \in ScanRun
      BY <1>21 DEF Stall, ScanStates, ScanRun
    <2>2. jobs' \in [Evidence -> Nat]
      BY <1>21, <2>1 DEF Stall, ScanRun
    <2>3. [scan[w] EXCEPT !.lost = TRUE] \in ScanRun
      BY <2>1 DEF ScanRun
    <2>4. scan' \in [Workers -> ScanStates]
      BY <1>21, <2>3 DEF Stall, ScanStates, ScanRun
    <2>5. QED
      BY <1>21, <2>2, <2>4 DEF Stall, ScanUnchanged
  <1>22. CASE SweepStart
    BY <1>22 DEF SweepStart, SweepUnchanged, SweepStates, SweepRun, SweepIdle, InFlight
  <1>23. CASE SweepReadLetters
    <2>1. sweep \in SweepRun
      BY <1>23 DEF SweepReadLetters, Sweeping, SweepStates, SweepRun, SweepIdle
    <2>2. sweep' \in SweepRun
      BY <1>23, <2>1 DEF SweepReadLetters, SweepRun
    <2>3. QED
      BY <1>23, <2>2 DEF SweepReadLetters, SweepUnchanged, SweepStates, SweepRun
  <1>24. ASSUME NEW e \in Evidence, SweepEnqueue(e, "redrive") \/ SweepEnqueue(e, "requeue")
         PROVE TypeOK'
    <2>1. sweep \in SweepRun
      BY <1>24 DEF SweepEnqueue, Sweeping, SweepStates, SweepRun, SweepIdle
    <2>2. [sweep EXCEPT !.todo = @ \ {e}, !.inFlight = @ \cup {e}] \in SweepRun
      BY <2>1 DEF SweepRun
    <2>3. QED
      BY <1>24, <2>2 DEF SweepEnqueue, SweepUnchanged, SweepStates, EnqueueFresh
  <1>25. CASE SweepRemoveLetters
    BY <1>25 DEF SweepRemoveLetters, Sweeping, SweepUnchanged, SweepStates, SweepRun, SweepIdle, LettersRead
  <1>26. CASE SweepReadDue
    <2>1. sweep \in SweepRun
      BY <1>26 DEF SweepReadDue, Sweeping, SweepStates, SweepRun, SweepIdle
    <2>2. sweep' \in SweepRun
      BY <1>26, <2>1 DEF SweepReadDue, SweepRun
    <2>3. QED
      BY <1>26, <2>2 DEF SweepReadDue, SweepUnchanged, SweepStates, SweepRun
  <1>27. CASE SweepReadStale
    <2>1. sweep \in SweepRun
      BY <1>27 DEF SweepReadStale, Sweeping, SweepStates, SweepRun, SweepIdle
    <2>2. sweep' \in SweepRun
      BY <1>27, <2>1 DEF SweepReadStale, SweepRun
    <2>3. QED
      BY <1>27, <2>2 DEF SweepReadStale, SweepUnchanged, SweepStates, SweepRun
  <1>28. ASSUME NEW e \in Evidence, SweepDelete(e) PROVE TypeOK'
    BY <1>28 DEF SweepDelete, Sweeping, SweepUnchanged, SweepStates, SweepRun, SweepIdle, Objects
  <1>29. ASSUME NEW e \in Evidence, SweepReject(e) PROVE TypeOK'
    BY <1>29 DEF SweepReject, Sweeping, SweepUnchanged, SweepStates, SweepRun, SweepIdle, Statuses
  <1>30. CASE SweepDone
    BY <1>30 DEF SweepDone, SweepUnchanged, SweepStates, SweepRun
  <1>31. CASE SweepFails
    BY <1>31 DEF SweepFails, SweepUnchanged, SweepStates, SweepRun
  <1>32. CASE UNCHANGED vars
    BY <1>32 DEF vars
  <1>33. ASSUME NEW w \in Workers, PinFails(w) \/ ScannerDown(w) \/ ScanFails(w) PROVE TypeOK'
    BY <1>20, <1>33 DEF PinFails, ScannerDown, ScanFails, ScanIdle, Scanning
  <1> HIDE DEF IInv, TypeOK
  <1>34. QED
    BY <1>1, <1>2, <1>3, <1>4, <1>5, <1>6, <1>7, <1>8, <1>9, <1>10, <1>11, <1>12, <1>13,
       <1>14, <1>15, <1>16, <1>17, <1>18, <1>19, <1>21, <1>22, <1>23, <1>24, <1>25,
       <1>26, <1>27, <1>28, <1>29, <1>30, <1>31, <1>32,
       <1>33
    DEF Next, CompleteStep, ScanStep, SweepStep, SweepRedrive, SweepRequeue

\* Actions of the client, of time, of request handlers and of the sweep leave
\* the scan runs, the evidence bucket and the digests alone.
ElseWhere == UNCHANGED <<scan, bucket, digest>>

\* Every step is one of a scan run or leaves scans, objects and digests alone.
LEMMA OtherNext == Next => ElseWhere \/ \E w \in Workers :
                             ScanStep(w) \/ ScanFails(w) \/ Stall(w)
                             \/ \E e \in Evidence : TakeJob(w, e)
  BY DEF Next, ElseWhere, RequestUpload, GrowOld, WaitTooLong, Put, CompleteRead,
         CompleteStep, CompleteHead, CompleteCommit, CompleteEnqueue, RequestFails,
         ReqUnchanged, SweepStart, SweepStep, SweepReadLetters, SweepRemoveLetters,
         SweepReadDue, SweepReadStale, SweepDone, SweepRedrive, SweepRequeue,
         SweepEnqueue, SweepDelete, SweepReject, SweepFails, SweepUnchanged,
         rowVars, objectVars

\* The part of the invariant that speaks of scan runs and the evidence bucket.
RunInv == RunKnows /\ KeyHasObject /\ PromotedIsVerified

\* A run keeps what it has established about the bytes it pinned, and only a
\* pinned, typed and harmless object is copied.
LEMMA RunInvNext == IInv /\ [Next]_vars => RunInv'
  <1> SUFFICES ASSUME IInv, [Next]_vars PROVE RunInv'
    OBVIOUS
  <1> USE EvidenceAssumption DEF IInv, TypeOK, RunInv, RunKnows, KeyHasObject, PromotedIsVerified,
        rowVars, objectVars, queueVars
  <1>1. CASE ElseWhere
    BY <1>1 DEF ElseWhere
  <1>2. ASSUME NEW w \in Workers, NEW e \in Evidence, TakeJob(w, e) PROVE RunInv'
    BY <1>2 DEF TakeJob
  <1>3. ASSUME NEW w \in Workers, scan[w] # ScanIdle PROVE scan[w] \in ScanRun
    BY <1>3 DEF ScanStates
  <1>4. ASSUME NEW w \in Workers, ScanRead(w) PROVE RunInv'
    BY <1>4 DEF ScanRead, Scanning, Goto, ScanIdle, ScanRun, ScanStates
  <1>5. ASSUME NEW w \in Workers, ScanHead(w) PROVE RunInv'
    BY <1>5 DEF ScanHead, Scanning, Goto, Decide, ScanIdle, ScanRun, ScanStates, Objects
  <1>6. ASSUME NEW w \in Workers, ScanMissing(w) PROVE RunInv'
    BY <1>6 DEF ScanMissing, Scanning, Decide, ScanIdle, ScanRun, ScanStates
  <1>7. ASSUME NEW w \in Workers, DetectType(w) PROVE RunInv'
    BY <1>7 DEF DetectType, Scanning, Goto, Decide, ScanIdle, ScanRun, ScanStates
  <1>8. ASSUME NEW w \in Workers, Verdict(w) PROVE RunInv'
    BY <1>8 DEF Verdict, Scanning, Decide, ScanIdle, ScanRun, ScanStates
  <1>9. ASSUME NEW w \in Workers, Drop(w) PROVE RunInv'
    BY <1>9 DEF Drop, Scanning, Goto, ScanIdle, ScanRun, ScanStates
  <1>10. ASSUME NEW w \in Workers, Promote(w) PROVE RunInv'
    BY <1>10 DEF Promote, Scanning, Goto, Pinned, ScanIdle, ScanRun, ScanStates, Verified
  <1>11. ASSUME NEW w \in Workers, DeletePromoted(w) PROVE RunInv'
    BY <1>11 DEF DeletePromoted, Scanning, Goto, ScanIdle, ScanRun, ScanStates
  <1>12. ASSUME NEW w \in Workers, Settle(w) PROVE RunInv'
    BY <1>12 DEF Settle, Scanning, ScanIdle, ScanRun, ScanStates
  <1>13. ASSUME NEW w \in Workers, PinFails(w) \/ ScannerDown(w) \/ ScanFails(w) PROVE RunInv'
    BY <1>13 DEF PinFails, ScannerDown, ScanFails, Throw, ScanIdle
  <1>14. ASSUME NEW w \in Workers, Stall(w) PROVE RunInv'
    BY <1>14, <1>3 DEF Stall, ScanRun, ScanStates
  <1>15. CASE UNCHANGED vars
    BY <1>15 DEF vars
  <1> HIDE DEF IInv, TypeOK, RunInv
  <1>16. QED
    BY <1>1, <1>2, <1>4, <1>5, <1>6, <1>7, <1>8, <1>9, <1>10, <1>11, <1>12, <1>13, <1>14, <1>15,
       OtherNext
    DEF ScanStep

\* Dead letters only leave the queue by the hand of the sweep that read them.
LEMMA LettersNext == IInv /\ [Next]_vars => LettersRead'
  <1> SUFFICES ASSUME IInv, [Next]_vars PROVE LettersRead'
    OBVIOUS
  <1> USE DEF IInv, TypeOK, LettersRead, rowVars, objectVars, queueVars
  <1>1. CASE UNCHANGED <<sweep, letters>>
    BY <1>1
  <1>2. ASSUME NEW w \in Workers, scan[w] # ScanIdle, Throw(w) PROVE LettersRead'
    <2>1. scan[w].ev \in Evidence
      BY <1>2 DEF ScanStates, ScanRun
    <2>2. sweep' = sweep /\ \A e \in Evidence : letters'[e] >= letters[e]
      BY <1>2, <2>1 DEF Throw, JobThrown, ScanUnchanged
    <2>3. sweep.pc = "redrive" => sweep \in SweepRun
      BY DEF SweepStates, SweepIdle
    <2>4. letters' \in [Evidence -> Nat]
      BY TypeNext
    <2>5. QED
      BY <2>2, <2>3, <2>4 DEF SweepRun
  <1>3. ASSUME NEW w \in Workers, PinFails(w) \/ ScannerDown(w) \/ ScanFails(w) PROVE LettersRead'
    BY <1>2, <1>3 DEF PinFails, ScannerDown, ScanFails, ScanIdle, Scanning
  <1>4. CASE SweepReadLetters
    BY <1>4 DEF SweepReadLetters, SweepUnchanged, Sweeping, SweepStates, SweepRun, SweepIdle
  <1>5. ASSUME NEW e \in Evidence, SweepEnqueue(e, "redrive") \/ SweepEnqueue(e, "requeue")
        PROVE LettersRead'
    BY <1>5 DEF SweepEnqueue, SweepUnchanged, Sweeping, SweepStates, SweepRun, SweepIdle
  <1>6. CASE SweepStart \/ SweepRemoveLetters \/ SweepReadDue \/ SweepReadStale \/ SweepDone
             \/ SweepFails
    <2>1. SweepStart \/ SweepDone \/ SweepFails => sweep'.pc # "redrive"
      BY DEF SweepStart, SweepDone, SweepFails, SweepIdle
    <2>2. SweepRemoveLetters \/ SweepReadDue \/ SweepReadStale => sweep \in SweepRun
      BY DEF SweepRemoveLetters, SweepReadDue, SweepReadStale, Sweeping, SweepStates, SweepIdle
    <2>3. SweepRemoveLetters \/ SweepReadDue \/ SweepReadStale => sweep'.pc # "redrive"
      BY <2>2 DEF SweepRemoveLetters, SweepReadDue, SweepReadStale, SweepRun
    <2>4. QED
      BY <1>6, <2>1, <2>3
  <1>7. ASSUME NEW e \in Evidence, SweepDelete(e) \/ SweepReject(e) PROVE LettersRead'
    BY <1>7 DEF SweepDelete, SweepReject, Sweeping, SweepStates, SweepRun, SweepIdle
  <1>8. CASE (\E e \in Evidence : RequestUpload(e) \/ GrowOld(e) \/ WaitTooLong(e))
             \/ (\E e \in Evidence, c \in Contents : Put(e, c))
             \/ (\E r \in Requests, e \in Evidence : CompleteRead(r, e))
             \/ (\E r \in Requests : CompleteStep(r))
    BY <1>1, <1>8 DEF RequestUpload, GrowOld, WaitTooLong, Put, CompleteRead, CompleteStep,
                      CompleteHead, CompleteCommit, CompleteEnqueue, RequestFails, ReqUnchanged
  <1>9. ASSUME NEW w \in Workers,
               \/ \E e \in Evidence : TakeJob(w, e)
               \/ ScanRead(w) \/ ScanHead(w) \/ ScanMissing(w) \/ DetectType(w)
               \/ Verdict(w) \/ Drop(w) \/ Promote(w) \/ DeletePromoted(w)
               \/ Settle(w) \/ Stall(w)
        PROVE LettersRead'
    BY <1>1, <1>9 DEF TakeJob, ScanRead, ScanHead, ScanMissing, DetectType, Verdict, Drop,
                      Promote, DeletePromoted, Settle, Stall, ScanUnchanged
  <1>10. CASE UNCHANGED vars
    BY <1>10 DEF vars
  <1> HIDE DEF IInv, TypeOK, LettersRead
  <1>11. QED
    BY <1>3, <1>4, <1>5, <1>6, <1>7, <1>8, <1>9, <1>10
    DEF Next, ScanStep, SweepStep, SweepRedrive, SweepRequeue

\* The invariant is inductive.
LEMMA InductiveInv == Spec => []IInv
  <1>1. IInv /\ [Next]_vars => IInv'
    BY TypeNext, RunInvNext, LettersNext DEF IInv, RunInv
  <1>2. QED
    BY InitIInv, <1>1, PTL DEF Spec

\* Every variable keeps its type: whatever the handlers, workers and sweeps do,
\* rows hold a status of the enum and queues are never driven below empty.
THEOREM TypeCorrect == Spec => []TypeOK
  BY InductiveInv, PTL DEF IInv

\* Only bytes one run sized, typed and scanned clean reach the evidence bucket,
\* for any number of concurrent scans of a row, stalls, crashes and re-uploads.
THEOREM OnlyVerifiedPromoted == Spec => []PromotedIsVerified
  BY InductiveInv, PTL DEF IInv

\* A row whose download getDownloadUrl would sign has an object behind it.
THEOREM DownloadsHaveObjects == Spec => []DownloadHasObject
  <1>1. IInv => DownloadHasObject
    BY DEF IInv, KeyHasObject, DownloadHasObject, CanDownload
  <1>2. QED
    BY InductiveInv, <1>1, PTL

-----------------------------------------------------------------------------
(* One scan of a row at a time, while no run outlives its job lock.        *)

Runs(w, e) == scan[w].pc # "idle" /\ scan[w].ev = e
NoScan(e) == jobs[e] = 0 /\ \A w \in Workers : ~Runs(w, e)
OneScan(e) ==
  /\ jobs[e] <= 1
  /\ \A w \in Workers : Runs(w, e) => jobs[e] = 0
  /\ \A v, w \in Workers : Runs(v, e) /\ Runs(w, e) => v = w

\* No first job of the row can still be added.
Confirmed(e) == keyed[e] \/ (~InRequest(e) /\ status[e] \notin {"absent", "pending"})

\* A row that a sweep will enqueue, and did not see in flight, has no scan.
SweepHolds ==
  sweep.pc # "idle" =>
    /\ \A e \in sweep.waited : Confirmed(e) /\ (e \notin sweep.inFlight => NoScan(e))
    /\ sweep.pc = "letters" => \A e \in Evidence : e \notin sweep.inFlight => NoScan(e) \/ letters[e] = 0
    /\ sweep.pc = "redrive" => \A e \in sweep.todo : Confirmed(e) /\ (e \notin sweep.inFlight => NoScan(e))
    /\ sweep.pc = "requeue" => sweep.todo \subseteq sweep.waited

RunHolds(w) ==
  /\ scan[w].pc \notin {"idle", "read"} => status[scan[w].ev] = "quarantined"
  /\ scan[w].pc = "delete" \/ (scan[w].pc = "settle" /\ scan[w].outcome = "clean") =>
       scan[w].etag = bucket[scan[w].ev]

ScansHold ==
  /\ \A e \in Evidence : OneScan(e) /\ (~NoScan(e) \/ letters[e] > 0 \/ waited[e] => Confirmed(e))
  /\ SweepHolds /\ \A w \in Workers : RunHolds(w)
  /\ DigestIsOfServedObject

\* What a program counter says of a run, of a request and of the sweep.
LEMMA ScanShape ==
  ASSUME TypeOK
  PROVE  /\ scan \in [Workers -> {ScanIdle} \cup ScanRun]
         /\ \A w \in Workers :
              /\ scan[w].pc # "idle" => scan[w] \in ScanRun /\ scan[w].ev \in Evidence /\ scan[w].lost \in BOOLEAN
              /\ scan[w] = ScanIdle <=> scan[w].pc = "idle"
         /\ \A r \in Requests :
              /\ req[r].pc # "idle" => req[r] \in ReqRun /\ req[r].ev \in Evidence
              /\ req[r] = ReqIdle <=> req[r].pc = "idle"
         /\ sweep.pc # "idle" => sweep \in SweepRun
         /\ sweep = SweepIdle <=> sweep.pc = "idle"
<1>1. /\ scan \in [Workers -> {ScanIdle} \cup ScanRun] /\ req \in [Requests -> {ReqIdle} \cup ReqRun]
      /\ sweep \in {SweepIdle} \cup SweepRun
  BY DEF TypeOK, ScanStates, ReqStates, SweepStates
<1>2. /\ \A r \in ScanRun : r.pc # "idle" /\ r.ev \in Evidence /\ r.lost \in BOOLEAN
      /\ \A r \in ReqRun : r.pc # "idle" /\ r.ev \in Evidence
      /\ \A r \in SweepRun : r.pc # "idle"
  BY DEF ScanRun, ScanPcs, ReqRun, SweepRun
<1>3. ScanIdle.pc = "idle" /\ ReqIdle.pc = "idle" /\ SweepIdle.pc = "idle"
  BY DEF ScanIdle, ReqIdle, SweepIdle
<1> QED BY <1>1, <1>2, <1>3

\* A step of a run that goes on.
LEMMA ScanMoves ==
  ASSUME TypeOK, NEW w \in Workers, scan[w].pc # "idle",
         \/ \E pc \in ScanPcs : Goto(w, pc)
         \/ \E pc \in ScanPcs, o \in Outcomes : Decide(w, pc, o)
         \/ \E pc \in ScanPcs, g \in Objects : scan' = [scan EXCEPT ![w].pc = pc, ![w].etag = g]
         \/ \E pc \in ScanPcs, o \in Outcomes, g \in Objects :
              scan' = [scan EXCEPT ![w].pc = pc, ![w].outcome = o, ![w].etag = g]
  PROVE  /\ scan'[w].pc \in ScanPcs /\ scan'[w].ev = scan[w].ev /\ scan'[w].lost = scan[w].lost
         /\ \A v \in Workers : v # w => scan'[v] = scan[v]
<1>1. scan \in [Workers -> {ScanIdle} \cup ScanRun] /\ scan[w] \in ScanRun
  BY ScanShape
<1> DEFINE Moved == /\ scan'[w].pc \in ScanPcs /\ scan'[w].ev = scan[w].ev /\ scan'[w].lost = scan[w].lost
                    /\ \A v \in Workers : v # w => scan'[v] = scan[v]
<1>2. ASSUME NEW pc \in ScanPcs, Goto(w, pc)
      PROVE  Moved
  BY <1>1, <1>2 DEF Goto, ScanRun
<1>3. ASSUME NEW pc \in ScanPcs, NEW o \in Outcomes, Decide(w, pc, o)
      PROVE  Moved
  BY <1>1, <1>3 DEF Decide, ScanRun
<1>4. ASSUME NEW pc \in ScanPcs, NEW g \in Objects, scan' = [scan EXCEPT ![w].pc = pc, ![w].etag = g]
      PROVE  Moved
  BY <1>1, <1>4 DEF ScanRun
<1>5. ASSUME NEW pc \in ScanPcs, NEW o \in Outcomes, NEW g \in Objects,
             scan' = [scan EXCEPT ![w].pc = pc, ![w].outcome = o, ![w].etag = g]
      PROVE  Moved
  BY <1>1, <1>5 DEF ScanRun
<1> QED BY <1>2, <1>3, <1>4, <1>5

\* How a step moves the scans of a row, as long as none outlives its lock.
Still(e) == jobs'[e] = jobs[e] /\ \A w \in Workers : Runs(w, e)' <=> Runs(w, e)
Asked(e) ==
  /\ InRequest(e) /\ ~keyed[e] /\ keyed'[e]
  /\ jobs'[e] = jobs[e] + 1 /\ \A w \in Workers : Runs(w, e)' <=> Runs(w, e)
Swept(e) ==
  /\ sweep.pc \in {"redrive", "requeue"} /\ e \in sweep.todo /\ e \notin sweep.inFlight
  /\ jobs'[e] = jobs[e] + 1 /\ \A w \in Workers : Runs(w, e)' <=> Runs(w, e)
  /\ sweep'.inFlight = sweep.inFlight \cup {e}
Taken(w, e) ==
  /\ jobs[e] > 0 /\ jobs'[e] = jobs[e] - 1 /\ ~Runs(w, e)
  /\ \A v \in Workers : v # w => (Runs(v, e)' <=> Runs(v, e))
Ended(w, e) ==
  /\ Runs(w, e) /\ ~Runs(w, e)'
  /\ jobs'[e] = jobs[e] \/ (jobs'[e] = jobs[e] + 1 /\ letters'[e] = letters[e])
  /\ \A v \in Workers : v # w => (Runs(v, e)' <=> Runs(v, e))

\* One disjunct moves a row's scans; the letters grow only when a run ends.
Tallied(e) ==
  \/ Still(e) /\ (letters'[e] = letters[e] \/ SweepRemoveLetters)
  \/ Asked(e) /\ letters'[e] = letters[e] /\ UNCHANGED sweep
  \/ Swept(e) /\ letters'[e] = letters[e]
  \/ \E w \in Workers : Taken(w, e) /\ letters'[e] = letters[e] /\ UNCHANGED sweep
  \/ \E w \in Workers : Ended(w, e) /\ UNCHANGED sweep

LEMMA TallyRequests ==
  ASSUME TypeOK, NEW e \in Evidence, NEW r \in Requests, CompleteStep(r)
  PROVE  Tallied(e)
<1>0. UNCHANGED <<scan, sweep, letters>>
  BY DEF CompleteStep, CompleteHead, CompleteCommit, CompleteEnqueue, RequestFails, ReqUnchanged, queueVars
<1>1. \A w \in Workers : Runs(w, e)' <=> Runs(w, e)
  BY <1>0 DEF Runs
<1>2. ASSUME CompleteEnqueue(r), jobs'[e] # jobs[e]
      PROVE  Asked(e)
  <2>1. req[r].pc = "enqueue" /\ req[r].ev \in Evidence /\ req[r] # ReqIdle
    BY <1>2, ScanShape DEF CompleteEnqueue, Requesting
  <2>2. ~keyed[req[r].ev] /\ jobs' = [jobs EXCEPT ![req[r].ev] = @ + 1] /\ keyed' = [keyed EXCEPT ![req[r].ev] = TRUE]
    BY <1>2 DEF CompleteEnqueue, EnqueueKeyed
  <2>3. jobs \in [Evidence -> Nat] /\ keyed \in [Evidence -> BOOLEAN]
    BY DEF TypeOK
  <2>4. e = req[r].ev
    BY <1>2, <2>1, <2>2, <2>3
  <2>5. InRequest(e)
    BY <2>1, <2>4 DEF InRequest
  <2> QED BY <1>1, <2>1, <2>2, <2>3, <2>4, <2>5 DEF Asked
<1>3. ~CompleteEnqueue(r) => UNCHANGED jobs
  BY DEF CompleteStep, CompleteHead, CompleteCommit, RequestFails, queueVars
<1> QED BY <1>0, <1>1, <1>2, <1>3 DEF Tallied, Still

LEMMA TallyTaken ==
  ASSUME TypeOK, NEW e \in Evidence, NEW w \in Workers, NEW f \in Evidence, TakeJob(w, f)
  PROVE  Tallied(e)
<1>0. scan \in [Workers -> {ScanIdle} \cup ScanRun] /\ jobs \in [Evidence -> Nat] /\ scan[w].pc = "idle"
  BY ScanShape DEF TypeOK, TakeJob, ScanIdle
<1>1. /\ \A v \in Workers : v # w => scan'[v] = scan[v]
      /\ scan'[w].pc = "read" /\ scan'[w].ev = f
  <2>1. scan'[w] = [pc |-> "read", ev |-> f, etag |-> NoObject, outcome |-> "none", lost |-> FALSE]
    BY <1>0 DEF TakeJob
  <2> QED BY <1>0, <2>1 DEF TakeJob
<1>2. letters' = letters /\ UNCHANGED sweep /\ jobs' = [jobs EXCEPT ![f] = @ - 1] /\ jobs[f] > 0
  BY DEF TakeJob, ScanUnchanged
<1>3. \A v \in Workers : v # w => (Runs(v, e)' <=> Runs(v, e))
  BY <1>1 DEF Runs
<1>4. ~Runs(w, e) /\ (Runs(w, e)' => e = f)
  BY <1>0, <1>1 DEF Runs
<1>5. CASE e = f
  BY <1>0, <1>2, <1>3, <1>4, <1>5 DEF Tallied, Taken
<1>6. CASE e # f
  BY <1>0, <1>2, <1>3, <1>4, <1>6 DEF Tallied, Still
<1> QED BY <1>5, <1>6

\* A step of a run either leaves the tally or ends the run.
LEMMA TallyRuns ==
  ASSUME TypeOK, NEW e \in Evidence, NEW w \in Workers,
         scan[w].pc # "idle", ~scan[w].lost, ScanStep(w) \/ ScanFails(w)
  PROVE  Tallied(e)
<1>0. /\ scan \in [Workers -> {ScanIdle} \cup ScanRun] /\ jobs \in [Evidence -> Nat] /\ letters \in [Evidence -> Nat]
      /\ scan[w] \in ScanRun /\ scan[w].ev \in Evidence /\ scan[w].etag \in Objects
      /\ bucket \in [Evidence -> Objects] /\ quarantine \in [Evidence -> Objects]
  BY ScanShape DEF TypeOK, ScanRun
<1>1. UNCHANGED sweep
  BY DEF ScanStep, ScanFails, ScanRead, ScanHead, ScanMissing, DetectType, Verdict, Drop, Promote, DeletePromoted,
     Settle, PinFails, ScannerDown, Throw, ScanUnchanged
<1>2. ASSUME \/ \E pc \in ScanPcs : Goto(w, pc)
             \/ \E pc \in ScanPcs, o \in Outcomes : Decide(w, pc, o)
             \/ \E pc \in ScanPcs, g \in Objects : scan' = [scan EXCEPT ![w].pc = pc, ![w].etag = g]
             \/ \E pc \in ScanPcs, o \in Outcomes, g \in Objects :
                  scan' = [scan EXCEPT ![w].pc = pc, ![w].outcome = o, ![w].etag = g],
             UNCHANGED <<jobs, letters>>
      PROVE  Tallied(e)
  <2>1. /\ scan'[w].pc \in ScanPcs /\ scan'[w].ev = scan[w].ev
        /\ \A v \in Workers : v # w => scan'[v] = scan[v]
    BY <1>2, ScanMoves
  <2>2. \A v \in Workers : Runs(v, e)' <=> Runs(v, e)
    BY <2>1 DEF Runs, ScanPcs
  <2> QED BY <1>2, <2>2 DEF Tallied, Still
<1>3. ASSUME scan' = [scan EXCEPT ![w] = ScanIdle],
             \/ UNCHANGED <<jobs, letters>>
             \/ jobs' = [jobs EXCEPT ![scan[w].ev] = @ + 1] /\ UNCHANGED letters
             \/ letters' = [letters EXCEPT ![scan[w].ev] = @ + 1] /\ UNCHANGED jobs
      PROVE  Tallied(e)
  <2>1. scan'[w].pc = "idle" /\ \A v \in Workers : v # w => scan'[v] = scan[v]
    BY <1>0, <1>3 DEF ScanIdle
  <2>2. /\ \A v \in Workers : v # w => (Runs(v, e)' <=> Runs(v, e))
        /\ ~Runs(w, e)' /\ (Runs(w, e) <=> e = scan[w].ev)
    BY <2>1 DEF Runs
  <2>3. CASE e = scan[w].ev
    BY <1>0, <1>1, <1>3, <2>2, <2>3 DEF Tallied, Ended
  <2>4. CASE e # scan[w].ev
    BY <1>0, <1>3, <2>2, <2>4 DEF Tallied, Still
  <2> QED BY <2>3, <2>4
<1>4. CASE ScanRead(w)
  BY <1>2, <1>3, <1>4 DEF ScanRead, ScanPcs
<1>5. CASE ScanHead(w)
  <2>1. quarantine[scan[w].ev] \in Objects
    BY <1>0
  <2> QED BY <1>2, <1>5, <2>1 DEF ScanHead, ScanPcs, Outcomes
<1>6. CASE ScanMissing(w)
  <2>1. bucket[scan[w].ev] \in Objects
    BY <1>0
  <2>2. \/ \E o \in Outcomes : Decide(w, "settle", o)
        \/ \E o \in Outcomes, g \in Objects : scan' = [scan EXCEPT ![w].pc = "settle", ![w].outcome = o, ![w].etag = g]
    BY <1>6, <2>1 DEF ScanMissing, Outcomes
  <2> QED BY <1>2, <1>6, <2>2 DEF ScanMissing, ScanPcs
<1>7. CASE DetectType(w)
  BY <1>2, <1>7 DEF DetectType, ScanPcs, Outcomes
<1>8. CASE Verdict(w)
  BY <1>2, <1>8 DEF Verdict, ScanPcs, Outcomes
<1>9. CASE Drop(w) \/ Promote(w) \/ DeletePromoted(w)
  BY <1>2, <1>9 DEF Drop, Promote, DeletePromoted, ScanPcs
<1>10. CASE Settle(w)
  BY <1>3, <1>10 DEF Settle
<1>11. CASE PinFails(w) \/ ScannerDown(w) \/ ScanFails(w)
  BY <1>3, <1>11 DEF PinFails, ScannerDown, ScanFails, Throw, JobThrown
<1> QED BY <1>4, <1>5, <1>6, <1>7, <1>8, <1>9, <1>10, <1>11 DEF ScanStep

LEMMA TallySweep ==
  ASSUME TypeOK, NEW e \in Evidence, SweepStart \/ SweepStep \/ SweepFails
  PROVE  Tallied(e)
<1>0. UNCHANGED scan /\ jobs \in [Evidence -> Nat]
  BY DEF TypeOK, SweepStart, SweepStep, SweepFails, SweepReadLetters, SweepRemoveLetters, SweepReadDue,
         SweepReadStale, SweepDone, SweepRedrive, SweepRequeue, SweepEnqueue, SweepDelete, SweepReject, SweepUnchanged
<1>1. \A w \in Workers : Runs(w, e)' <=> Runs(w, e)
  BY <1>0 DEF Runs
<1>2. ASSUME NEW f \in Evidence, NEW pc \in {"redrive", "requeue"}, SweepEnqueue(f, pc)
      PROVE  Tallied(e)
  <2>1. sweep.pc = pc /\ f \in sweep.todo /\ letters' = letters
    BY <1>2 DEF SweepEnqueue, Sweeping
  <2>2. sweep \in SweepRun
    BY <2>1, ScanShape
  <2>3. sweep'.inFlight = sweep.inFlight \cup {f}
    BY <1>2, <2>2 DEF SweepEnqueue, SweepRun
  <2>4. jobs' = IF f \in sweep.inFlight THEN jobs ELSE [jobs EXCEPT ![f] = @ + 1]
    BY <1>2 DEF SweepEnqueue, EnqueueFresh
  <2>5. CASE e = f /\ f \notin sweep.inFlight
    BY <1>0, <1>1, <2>1, <2>3, <2>4, <2>5 DEF Tallied, Swept
  <2>6. CASE e # f \/ f \in sweep.inFlight
    BY <1>0, <1>1, <2>1, <2>4, <2>6 DEF Tallied, Still
  <2> QED BY <2>5, <2>6
<1>3. ASSUME UNCHANGED jobs, letters' = letters \/ SweepRemoveLetters
      PROVE  Tallied(e)
  BY <1>1, <1>3 DEF Tallied, Still
<1>4. \/ \E f \in Evidence : SweepEnqueue(f, "redrive") \/ SweepEnqueue(f, "requeue")
      \/ UNCHANGED jobs /\ (letters' = letters \/ SweepRemoveLetters)
  BY DEF SweepStart, SweepStep, SweepFails, SweepReadLetters, SweepRemoveLetters, SweepReadDue,
         SweepReadStale, SweepDone, SweepRedrive, SweepRequeue, SweepDelete, SweepReject
<1> QED BY <1>2, <1>3, <1>4

LEMMA Tally ==
  ASSUME TypeOK, Next, ~LostScan, ~LostScan', NEW e \in Evidence
  PROVE  Tallied(e)
<1>1. ASSUME UNCHANGED <<scan, jobs, letters>>
      PROVE  Tallied(e)
  BY <1>1 DEF Tallied, Still, Runs
<1>2. CASE \/ \E f \in Evidence : RequestUpload(f) \/ GrowOld(f) \/ WaitTooLong(f)
           \/ \E f \in Evidence, c \in Contents : Put(f, c)
           \/ \E r \in Requests, f \in Evidence : CompleteRead(r, f)
  BY <1>1, <1>2 DEF RequestUpload, GrowOld, WaitTooLong, Put, CompleteRead, ReqUnchanged, queueVars
<1>3. ASSUME NEW w \in Workers, ScanStep(w) \/ ScanFails(w)
      PROVE  Tallied(e)
  <2>1. scan[w].pc # "idle"
    BY <1>3, ScanShape DEF ScanStep, ScanFails, ScanRead, ScanHead, ScanMissing, DetectType, Verdict, Drop, Promote,
         DeletePromoted, Settle, PinFails, ScannerDown, Scanning
  <2>2. ~scan[w].lost
    BY <2>1, ScanShape DEF LostScan
  <2> QED BY <1>3, <2>1, <2>2, TallyRuns
<1>4. ASSUME NEW w \in Workers, Stall(w)
      PROVE  FALSE
  <2>1. scan \in [Workers -> {ScanIdle} \cup ScanRun] /\ scan[w] \in ScanRun
    BY <1>4, ScanShape DEF Stall
  <2>2. scan' = [scan EXCEPT ![w] = [scan[w] EXCEPT !.lost = TRUE]]
    BY <1>4 DEF Stall
  <2>3. [scan[w] EXCEPT !.lost = TRUE].lost = TRUE /\ [scan[w] EXCEPT !.lost = TRUE].pc # "idle"
    BY <2>1 DEF ScanRun, ScanPcs
  <2>4. scan'[w].lost = TRUE /\ scan'[w].pc # "idle"
    BY <2>1, <2>2, <2>3
  <2> QED BY <2>4 DEF LostScan, ScanIdle
<1> QED BY <1>2, <1>3, <1>4, TallyRequests, TallyTaken, TallySweep DEF Next

\* A row whose first job is behind it stays so.
LEMMA ConfirmedStays ==
  ASSUME IInv, Next, NEW e \in Evidence, Confirmed(e)
  PROVE  Confirmed(e)'
<1>0. /\ keyed \in [Evidence -> BOOLEAN] /\ status \in [Evidence -> Statuses]
      /\ req \in [Requests -> {ReqIdle} \cup ReqRun] /\ TypeOK
  BY DEF IInv, TypeOK, ReqStates
<1>1. ASSUME keyed[e]
      PROVE  keyed'[e]
  <2>1. CASE UNCHANGED keyed
    BY <1>1, <2>1
  <2>2. ASSUME NEW r \in Requests, CompleteEnqueue(r)
        PROVE  keyed'[e]
    BY <1>0, <1>1, <2>2 DEF CompleteEnqueue, EnqueueKeyed
  <2> QED BY <2>1, <2>2
      DEF Next, RequestUpload, GrowOld, WaitTooLong, Put, CompleteRead, CompleteStep, CompleteHead, CompleteCommit,
          RequestFails, TakeJob, ScanStep, ScanFails, Stall, ScanRead, ScanHead, ScanMissing, DetectType, Verdict,
          Drop, Promote, DeletePromoted, Settle, PinFails, ScannerDown, Throw, ScanUnchanged, SweepStart, SweepStep,
          SweepFails, SweepReadLetters, SweepRemoveLetters, SweepReadDue, SweepReadStale, SweepDone, SweepRedrive,
          SweepRequeue, SweepEnqueue, SweepDelete, SweepReject, SweepUnchanged, queueVars
<1>2. ASSUME ~InRequest(e), status[e] \notin {"absent", "pending"}
      PROVE  ~InRequest(e)' /\ status'[e] \notin {"absent", "pending"}
  <2>1. ASSUME NEW f \in Evidence, RequestUpload(f)
        PROVE  ~InRequest(e)' /\ status'[e] \notin {"absent", "pending"}
    BY <1>0, <1>2, <2>1 DEF RequestUpload, InRequest
  <2>2. ASSUME NEW r \in Requests, NEW f \in Evidence, CompleteRead(r, f)
        PROVE  ~InRequest(e)' /\ status'[e] \notin {"absent", "pending"}
    <3>1. e # f /\ status' = status
      BY <1>2, <2>2 DEF CompleteRead
    <3>2. req' = [req EXCEPT ![r] = [pc |-> "head", ev |-> f]]
      BY <2>2 DEF CompleteRead
    <3>3. [pc |-> "head", ev |-> f].ev = f
      OBVIOUS
    <3>4. \A q \in Requests : req'[q] = req[q] \/ req'[q].ev = f
      BY <1>0, <3>2, <3>3
    <3> QED BY <1>2, <3>1, <3>4 DEF InRequest
  <2>3. ASSUME NEW r \in Requests, CompleteStep(r)
        PROVE  ~InRequest(e)' /\ status'[e] \notin {"absent", "pending"}
    <3>1. req[r] # ReqIdle /\ req[r] \in ReqRun /\ req[r].ev # e
      BY <1>0, <1>2, <2>3, ScanShape
         DEF CompleteStep, CompleteHead, CompleteCommit, CompleteEnqueue, RequestFails, Requesting, InRequest
    <3>2. PICK f \in Evidence : f = req[r].ev /\ f # e
      BY <1>0, <3>1, ScanShape
    <3>3. \/ req' = [req EXCEPT ![r] = ReqIdle]
          \/ \E pc \in {"commit", "enqueue"} : req' = [req EXCEPT ![r] = [req[r] EXCEPT !.pc = pc]]
      BY <2>3, <1>0 DEF CompleteStep, CompleteHead, CompleteCommit, CompleteEnqueue, RequestFails
    <3>4. \A pc \in {"commit", "enqueue"} : [req[r] EXCEPT !.pc = pc].ev = f
      BY <3>1, <3>2 DEF ReqRun
    <3>5. \A q \in Requests : req'[q] = req[q] \/ req'[q] = ReqIdle \/ req'[q].ev = f
      BY <1>0, <3>3, <3>4
    <3>6. status'[e] = status[e]
      BY <1>0, <2>3, <3>2 DEF CompleteStep, CompleteHead, CompleteCommit, CompleteEnqueue, RequestFails
    <3> QED BY <1>2, <3>2, <3>5, <3>6 DEF InRequest
  <2>4. ASSUME UNCHANGED req, status'[e] \notin {"absent", "pending"}
        PROVE  ~InRequest(e)' /\ status'[e] \notin {"absent", "pending"}
    BY <1>2, <2>4 DEF InRequest
  <2>5. ASSUME NEW w \in Workers, Settle(w)
        PROVE  UNCHANGED req /\ status'[e] \notin {"absent", "pending"}
    <3>1. scan[w] \in ScanRun /\ scan[w].outcome # "none"
      BY <1>0, <2>5, ScanShape DEF Settle, Scanning, IInv, RunKnows
    <3>2. scan[w].outcome \in {"clean", "infected", "rejected"}
      BY <3>1 DEF ScanRun, Outcomes
    <3> QED BY <1>0, <1>2, <2>5, <3>2 DEF Settle, ScanUnchanged
  <2>6. ASSUME NEW f \in Evidence, SweepReject(f)
        PROVE  UNCHANGED req /\ status'[e] \notin {"absent", "pending"}
    BY <1>0, <1>2, <2>6 DEF SweepReject, SweepUnchanged
  <2>7. CASE UNCHANGED <<req, status>>
    BY <1>2, <2>4, <2>7
  <2> QED BY <2>1, <2>2, <2>3, <2>4, <2>5, <2>6, <2>7
      DEF Next, GrowOld, WaitTooLong, Put,
          TakeJob, ScanStep, ScanFails, Stall, ScanRead, ScanHead, ScanMissing, DetectType, Verdict,
          Drop, Promote, DeletePromoted, PinFails, ScannerDown, Throw, ScanUnchanged, SweepStart, SweepStep,
          SweepFails, SweepReadLetters, SweepRemoveLetters, SweepReadDue, SweepReadStale, SweepDone, SweepRedrive,
          SweepRequeue, SweepEnqueue, SweepDelete, SweepUnchanged, rowVars
<1> QED BY <1>1, <1>2 DEF Confirmed

LEMMA WaitedKept ==
  ASSUME TypeOK, Next, NEW e \in Evidence, waited'[e]
  PROVE  waited[e] \/ Confirmed(e)
<1>0. waited \in [Evidence -> BOOLEAN]
  BY DEF TypeOK
<1>1. ASSUME NEW f \in Evidence, WaitTooLong(f)
      PROVE  waited[e] \/ Confirmed(e)
  BY <1>0, <1>1 DEF WaitTooLong, Confirmed
<1>2. ASSUME NEW r \in Requests, CompleteCommit(r)
      PROVE  waited[e]
  BY <1>0, <1>2 DEF CompleteCommit
<1>3. ASSUME NEW w \in Workers, Settle(w)
      PROVE  waited[e]
  BY <1>0, <1>3 DEF Settle
<1>4. CASE UNCHANGED waited
  BY <1>4
<1> QED BY <1>1, <1>2, <1>3, <1>4
    DEF Next, RequestUpload, GrowOld, Put, CompleteRead, CompleteStep, CompleteHead, CompleteEnqueue,
        RequestFails, TakeJob, ScanStep, ScanFails, Stall, ScanRead, ScanHead, ScanMissing, DetectType, Verdict,
        Drop, Promote, DeletePromoted, PinFails, ScannerDown, Throw, SweepStart, SweepStep,
        SweepFails, SweepReadLetters, SweepRemoveLetters, SweepReadDue, SweepReadStale, SweepDone, SweepRedrive,
        SweepRequeue, SweepEnqueue, SweepDelete, SweepReject, rowVars

\* A row in the hands of the sweep.
LEMMA SweptIsDue ==
  ASSUME TypeOK, SweepHolds, NEW e \in Evidence, Swept(e)
  PROVE  Confirmed(e) /\ NoScan(e)
<1>1. CASE sweep.pc = "redrive"
  BY <1>1 DEF Swept, SweepHolds
<1>2. CASE sweep.pc = "requeue"
  BY <1>2 DEF Swept, SweepHolds
<1> QED BY <1>1, <1>2 DEF Swept

LEMMA OneScanKept ==
  ASSUME IInv, ScansHold, Next, ~LostScan, ~LostScan', NEW e \in Evidence
  PROVE  /\ OneScan(e)'
         /\ ~NoScan(e)' \/ letters'[e] > 0 \/ waited'[e] => Confirmed(e)'
<1>0. /\ TypeOK /\ SweepHolds /\ OneScan(e)
      /\ ~NoScan(e) \/ letters[e] > 0 \/ waited[e] => Confirmed(e)
      /\ jobs[e] \in Nat /\ letters[e] \in Nat
  BY DEF IInv, TypeOK, ScansHold
<1>1. Confirmed(e) => Confirmed(e)'
  BY ConfirmedStays
<1>2. waited'[e] => Confirmed(e)'
  BY <1>0, <1>1, WaitedKept
<1>3. ASSUME Still(e), letters'[e] = letters[e] \/ SweepRemoveLetters
      PROVE  OneScan(e)' /\ (~NoScan(e)' \/ letters'[e] > 0 => Confirmed(e)')
  <2>1. letters'[e] > 0 => letters[e] > 0
    <3>1. ASSUME SweepRemoveLetters
          PROVE  letters'[e] = letters[e] - sweep.letters[e] /\ sweep.letters[e] \in Nat
      <4>1. sweep \in SweepRun
        BY <1>0, <3>1, ScanShape DEF SweepRemoveLetters, Sweeping
      <4> QED BY <3>1, <4>1 DEF SweepRemoveLetters, SweepRun
    <3> QED BY <1>0, <1>3, <3>1
  <2>2. NoScan(e)' <=> NoScan(e)
    BY <1>3 DEF Still, NoScan
  <2>3. OneScan(e)'
    BY <1>0, <1>3 DEF Still, OneScan
  <2> QED BY <1>0, <1>1, <2>1, <2>2, <2>3
<1>4. ASSUME NoScan(e), jobs'[e] = jobs[e] + 1, \A w \in Workers : Runs(w, e)' <=> Runs(w, e)
      PROVE  OneScan(e)'
  BY <1>0, <1>4 DEF NoScan, OneScan
<1>5. CASE Asked(e)
  <2>1. NoScan(e)
    BY <1>0, <1>5 DEF Asked, Confirmed
  <2> QED BY <1>4, <1>5, <2>1 DEF Asked, Confirmed
<1>6. CASE Swept(e)
  BY <1>0, <1>1, <1>4, <1>6, SweptIsDue DEF Swept
<1>7. ASSUME NEW w \in Workers, Taken(w, e), letters'[e] = letters[e]
      PROVE  OneScan(e)' /\ Confirmed(e)
  <2>1. jobs[e] = 1 /\ jobs'[e] = 0 /\ \A v \in Workers : ~Runs(v, e)
    BY <1>0, <1>7 DEF Taken, OneScan
  <2>2. \A v \in Workers : Runs(v, e)' => v = w
    BY <1>7, <2>1 DEF Taken
  <2>3. ~NoScan(e)
    BY <2>1 DEF NoScan
  <2> QED BY <1>0, <2>1, <2>2, <2>3 DEF OneScan
<1>8. ASSUME NEW w \in Workers, Ended(w, e)
      PROVE  OneScan(e)' /\ Confirmed(e)
  <2>1. jobs[e] = 0 /\ \A v \in Workers : ~Runs(v, e)'
    BY <1>0, <1>8 DEF Ended, OneScan
  <2>2. ~NoScan(e)
    BY <1>8 DEF Ended, NoScan
  <2> QED BY <1>0, <1>8, <2>1, <2>2 DEF Ended, OneScan
<1> QED BY <1>0, <1>1, <1>2, <1>3, <1>5, <1>6, <1>7, <1>8, Tally DEF Tallied

\* A row with no scan gets one from a first job, which is behind it, or from
\* the sweep, which then has seen it.
LEMMA NoScanKept ==
  ASSUME IInv, ScansHold, Next, ~LostScan, ~LostScan', NEW e \in Evidence, NoScan(e), Confirmed(e)
  PROVE  NoScan(e)' \/ (sweep.pc # "idle" /\ sweep'.inFlight = sweep.inFlight \cup {e})
<1>1. ~Asked(e)
  BY DEF Asked, Confirmed
<1>2. \A w \in Workers : ~Taken(w, e) /\ ~Ended(w, e)
  BY DEF NoScan, Taken, Ended
<1>3. Still(e) => NoScan(e)'
  BY DEF Still, NoScan
<1>4. Tallied(e)
  BY Tally DEF IInv
<1> QED BY <1>1, <1>2, <1>3, <1>4 DEF Tallied, Swept

LEMMA SweepKept ==
  ASSUME IInv, ScansHold, Next, ~LostScan, ~LostScan'
  PROVE  SweepHolds'
<1>0. TypeOK /\ SweepHolds /\ \A e \in Evidence : OneScan(e) /\ (letters[e] > 0 \/ waited[e] => Confirmed(e))
  BY DEF IInv, ScansHold
<1>1. sweep.pc # "idle" => sweep \in SweepRun /\ sweep.waited \subseteq Evidence /\ sweep.todo \subseteq Evidence
  BY <1>0, ScanShape DEF SweepRun
<1>2. ASSUME sweep.pc # "idle", sweep.inFlight \subseteq sweep'.inFlight,
             NEW e \in Evidence, Confirmed(e), e \notin sweep.inFlight => NoScan(e)
      PROVE  Confirmed(e)' /\ (e \notin sweep'.inFlight => NoScan(e)')
  BY <1>2, ConfirmedStays, NoScanKept
<1>3. ASSUME sweep.pc # "idle", sweep.inFlight \subseteq sweep'.inFlight, sweep'.waited = sweep.waited
      PROVE  \A e \in sweep'.waited : Confirmed(e)' /\ (e \notin sweep'.inFlight => NoScan(e)')
  BY <1>0, <1>1, <1>2, <1>3 DEF SweepHolds
<1>4. CASE UNCHANGED sweep /\ sweep.pc # "idle" /\ ~SweepRemoveLetters
  <2>1. \A e \in sweep'.waited : Confirmed(e)' /\ (e \notin sweep'.inFlight => NoScan(e)')
    BY <1>3, <1>4
  <2>2. ASSUME sweep.pc = "letters", NEW e \in Evidence, e \notin sweep.inFlight
        PROVE  NoScan(e)' \/ letters'[e] = 0
    <3>1. letters[e] \in Nat /\ jobs[e] \in Nat /\ (NoScan(e) \/ letters[e] = 0)
      BY <1>0, <2>2 DEF SweepHolds, TypeOK
    <3>2. CASE letters[e] # 0
      <4>1. NoScan(e) /\ Confirmed(e)
        BY <1>0, <3>1, <3>2
      <4> QED BY <1>4, <2>2, <4>1, NoScanKept
    <3>3. CASE letters[e] = 0 /\ letters'[e] # 0
      <4>1. PICK w \in Workers : Ended(w, e)
        BY <1>0, <1>4, <3>3, Tally DEF Tallied
      <4>2. jobs[e] = 0 /\ \A v \in Workers : ~Runs(v, e)'
        BY <1>0, <4>1 DEF Ended, OneScan
      <4> QED BY <3>3, <4>1, <4>2 DEF Ended, NoScan
    <3> QED BY <3>2, <3>3
  <2>3. ASSUME sweep.pc = "redrive", NEW e \in sweep.todo
        PROVE  Confirmed(e)' /\ (e \notin sweep'.inFlight => NoScan(e)')
    BY <1>0, <1>1, <1>2, <1>4, <2>3 DEF SweepHolds
  <2> QED BY <1>0, <1>4, <2>1, <2>2, <2>3 DEF SweepHolds
<1>5. CASE SweepStart
  <2>1. /\ sweep'.pc = "letters" /\ sweep'.waited = {e \in Evidence : waited[e]} /\ sweep'.inFlight = InFlight
    BY <1>5 DEF SweepStart
  <2>2. UNCHANGED <<scan, jobs, letters, status, keyed, req>>
    BY <1>5 DEF SweepStart, SweepUnchanged
  <2>3. \A e \in Evidence : NoScan(e)' <=> NoScan(e)
    BY <2>2 DEF NoScan, Runs
  <2>4. \A e \in Evidence : e \notin InFlight => NoScan(e)
    <3>1. ASSUME NEW e \in Evidence, e \notin InFlight
          PROVE  NoScan(e)
      <4>1. ~(jobs[e] > 0) /\ jobs[e] \in Nat
        BY <1>0, <3>1 DEF InFlight, TypeOK
      <4>2. \A w \in Workers : ~Runs(w, e)
        BY <1>0, <3>1, ScanShape DEF InFlight, LostScan, Runs
      <4> QED BY <4>1, <4>2 DEF NoScan
    <3> QED BY <3>1
  <2>5. \A e \in Evidence : Confirmed(e) => Confirmed(e)'
    BY ConfirmedStays
  <2> QED BY <1>0, <2>1, <2>3, <2>4, <2>5 DEF SweepHolds
<1>6. CASE SweepReadLetters
  <2>1. sweep.pc = "letters" /\ sweep \in SweepRun
    BY <1>1, <1>6 DEF SweepReadLetters, Sweeping
  <2>2. /\ sweep'.pc = "redrive" /\ sweep'.todo = {e \in Evidence : letters[e] > 0}
        /\ sweep'.waited = sweep.waited /\ sweep'.inFlight = sweep.inFlight
    BY <1>6, <2>1 DEF SweepReadLetters, SweepRun
  <2>3. \A e \in Evidence : letters[e] > 0 => Confirmed(e) /\ (e \notin sweep.inFlight => NoScan(e))
    BY <1>0, <2>1 DEF SweepHolds
  <2>4. \A e \in sweep'.todo : Confirmed(e)' /\ (e \notin sweep'.inFlight => NoScan(e)')
    BY <1>2, <2>1, <2>2, <2>3
  <2> QED BY <1>3, <2>1, <2>2, <2>4 DEF SweepHolds
<1>7. ASSUME NEW f \in Evidence, NEW pc \in {"redrive", "requeue"}, SweepEnqueue(f, pc)
      PROVE  SweepHolds'
  <2>1. sweep.pc = pc /\ sweep \in SweepRun
    BY <1>1, <1>7 DEF SweepEnqueue, Sweeping
  <2>2. /\ sweep'.pc = pc /\ sweep'.todo \subseteq sweep.todo
        /\ sweep'.waited = sweep.waited /\ sweep'.inFlight = sweep.inFlight \cup {f}
    BY <1>7, <2>1 DEF SweepEnqueue, SweepRun
  <2>3. \A e \in sweep'.waited : Confirmed(e)' /\ (e \notin sweep'.inFlight => NoScan(e)')
    BY <1>3, <2>1, <2>2
  <2>4. ASSUME pc = "redrive", NEW e \in sweep.todo
        PROVE  Confirmed(e)' /\ (e \notin sweep'.inFlight => NoScan(e)')
    BY <1>0, <1>1, <1>2, <2>1, <2>2, <2>4 DEF SweepHolds
  <2>5. pc = "requeue" => sweep'.todo \subseteq sweep'.waited
    BY <1>0, <2>1, <2>2 DEF SweepHolds
  <2> QED BY <2>2, <2>3, <2>4, <2>5 DEF SweepHolds
<1>8. CASE SweepRemoveLetters \/ SweepReadDue \/ SweepReadStale
  <2>1. sweep.pc # "idle" /\ sweep \in SweepRun
    BY <1>1, <1>8 DEF SweepRemoveLetters, SweepReadDue, SweepReadStale, Sweeping
  <2>2. /\ sweep'.pc \in {"due", "requeue", "expire"}
        /\ sweep'.pc = "requeue" => sweep'.todo \subseteq sweep'.waited
        /\ sweep'.waited = sweep.waited /\ sweep'.inFlight = sweep.inFlight
    BY <1>8, <2>1 DEF SweepRemoveLetters, SweepReadDue, SweepReadStale, SweepRun
  <2> QED BY <1>3, <2>1, <2>2 DEF SweepHolds
<1>9. ASSUME NEW f \in Evidence, SweepDelete(f) \/ SweepReject(f)
      PROVE  SweepHolds'
  <2>1. sweep.pc = "expire" /\ sweep \in SweepRun
    BY <1>1, <1>9 DEF SweepDelete, SweepReject, Sweeping
  <2>2. sweep'.pc = "expire" /\ sweep'.waited = sweep.waited /\ sweep'.inFlight = sweep.inFlight
    BY <1>9, <2>1 DEF SweepDelete, SweepReject, SweepRun
  <2> QED BY <1>3, <2>1, <2>2 DEF SweepHolds
<1>10. CASE sweep'.pc = "idle"
  BY <1>10 DEF SweepHolds
<1>11. SweepDone \/ SweepFails => sweep'.pc = "idle"
  BY DEF SweepDone, SweepFails, SweepIdle
<1>12. \/ UNCHANGED sweep \/ SweepStart \/ SweepReadLetters \/ SweepRemoveLetters \/ SweepReadDue \/ SweepReadStale
       \/ SweepDone \/ SweepFails
       \/ \E f \in Evidence : \/ SweepEnqueue(f, "redrive") \/ SweepEnqueue(f, "requeue")
                              \/ SweepDelete(f) \/ SweepReject(f)
  BY DEF Next, RequestUpload, GrowOld, WaitTooLong, Put, CompleteRead, CompleteStep, CompleteHead, CompleteCommit,
     CompleteEnqueue, RequestFails, ReqUnchanged, TakeJob, ScanStep, ScanFails, Stall, ScanRead, ScanHead,
     ScanMissing, DetectType, Verdict, Drop, Promote, DeletePromoted, Settle, PinFails, ScannerDown, Throw,
     ScanUnchanged, SweepStep, SweepRedrive, SweepRequeue
<1> QED BY <1>4, <1>5, <1>6, <1>7, <1>8, <1>9, <1>10, <1>11, <1>12

\* What moves the row and the promoted object of a file.
LEMMA RowMoves ==
  ASSUME IInv, Next, NEW e \in Evidence
  PROVE  /\ \/ status'[e] = status[e] \/ status'[e] = "quarantined" \/ status[e] \in {"absent", "pending"}
            \/ \E v \in Workers : Settle(v) /\ scan[v].ev = e
         /\ status'[e] = "clean" => status[e] = "clean" \/ \E v \in Workers : Settle(v) /\ scan[v].ev = e
         /\ digest'[e] = digest[e] \/ \E v \in Workers : Settle(v) /\ scan[v].ev = e
         /\ \/ bucket'[e] = bucket[e]
            \/ \E v \in Workers : Promote(v) /\ scan[v].ev = e
<1>0. /\ status \in [Evidence -> Statuses] /\ digest \in [Evidence -> Objects] /\ bucket \in [Evidence -> Objects]
      /\ TypeOK
  BY DEF IInv, TypeOK
<1> DEFINE S == \/ status'[e] = status[e] \/ status'[e] = "quarantined" \/ status[e] \in {"absent", "pending"}
                \/ \E v \in Workers : Settle(v) /\ scan[v].ev = e
           C == status'[e] = "clean" => status[e] = "clean" \/ \E v \in Workers : Settle(v) /\ scan[v].ev = e
           D == digest'[e] = digest[e] \/ \E v \in Workers : Settle(v) /\ scan[v].ev = e
           B == bucket'[e] = bucket[e] \/ \E v \in Workers : Promote(v) /\ scan[v].ev = e
<1>1. ASSUME NEW f \in Evidence, RequestUpload(f)
      PROVE  S /\ C /\ D /\ B
  BY <1>0, <1>1 DEF RequestUpload, objectVars
<1>2. ASSUME NEW r \in Requests, CompleteCommit(r)
      PROVE  S /\ C /\ D /\ B
  BY <1>0, <1>2 DEF CompleteCommit, ReqUnchanged, objectVars
<1>3. ASSUME NEW f \in Evidence, SweepReject(f)
      PROVE  S /\ C /\ D /\ B
  BY <1>0, <1>3 DEF SweepReject, SweepUnchanged
<1>4. ASSUME NEW w \in Workers, Settle(w)
      PROVE  S /\ C /\ D /\ B
  <2>1. scan[w].ev \in Evidence
    BY <1>0, <1>4, ScanShape DEF Settle, Scanning
  <2>2. CASE scan[w].ev = e
    BY <1>4, <2>2 DEF Settle, objectVars
  <2>3. CASE scan[w].ev # e
    BY <1>0, <1>4, <2>1, <2>3 DEF Settle, objectVars
  <2> QED BY <2>2, <2>3
<1>5. ASSUME NEW w \in Workers, Promote(w)
      PROVE  S /\ C /\ D /\ B
  <2>1. scan[w].ev \in Evidence
    BY <1>0, <1>5, ScanShape DEF Promote, Scanning
  <2> QED BY <1>0, <1>5, <2>1 DEF Promote
<1>6. CASE UNCHANGED <<status, digest, bucket>>
  BY <1>6
<1>7. \/ UNCHANGED <<status, digest, bucket>>
      \/ \E f \in Evidence : RequestUpload(f) \/ SweepReject(f)
      \/ \E r \in Requests : CompleteCommit(r)
      \/ \E w \in Workers : Settle(w) \/ Promote(w)
  BY DEF Next, GrowOld, WaitTooLong, Put, CompleteRead, CompleteStep, CompleteHead, CompleteEnqueue,
     RequestFails, ReqUnchanged, TakeJob, ScanStep, ScanFails, Stall, ScanRead, ScanHead, ScanMissing, DetectType,
     Verdict, Drop, DeletePromoted, PinFails, ScannerDown, Throw, SweepStart, SweepStep, SweepFails,
     SweepReadLetters, SweepRemoveLetters, SweepReadDue, SweepReadStale, SweepDone, SweepRedrive, SweepRequeue,
     SweepEnqueue, SweepDelete, SweepUnchanged, rowVars, objectVars
<1> QED BY <1>1, <1>2, <1>3, <1>4, <1>5, <1>6, <1>7

\* What a run that goes on knew before its step.
LEMMA RunMoves ==
  ASSUME TypeOK, Next, NEW w \in Workers, scan'[w].pc \notin {"idle", "read"}
  PROVE  \/ scan'[w].pc = scan[w].pc /\ scan'[w].ev = scan[w].ev
              /\ scan'[w].etag = scan[w].etag /\ scan'[w].outcome = scan[w].outcome
         \/ scan'[w].ev = scan[w].ev /\ scan[w].pc # "idle" /\ ScanStep(w)
              /\ (scan[w].pc = "read" => status[scan[w].ev] = "quarantined" /\ UNCHANGED status)
<1>0. scan \in [Workers -> {ScanIdle} \cup ScanRun]
  BY ScanShape
<1>1. ASSUME NEW v \in Workers, NEW e \in Evidence, TakeJob(v, e)
      PROVE  scan'[w] = scan[w]
  <2>1. scan' = [scan EXCEPT ![v] = [pc |-> "read", ev |-> e, etag |-> NoObject, outcome |-> "none", lost |-> FALSE]]
    BY <1>1 DEF TakeJob
  <2>2. [pc |-> "read", ev |-> e, etag |-> NoObject, outcome |-> "none", lost |-> FALSE].pc = "read"
    OBVIOUS
  <2> QED BY <1>0, <2>1, <2>2
<1>2. ASSUME NEW v \in Workers, Stall(v)
      PROVE  /\ scan'[w].pc = scan[w].pc /\ scan'[w].ev = scan[w].ev
             /\ scan'[w].etag = scan[w].etag /\ scan'[w].outcome = scan[w].outcome
  <2>1. scan[v] \in ScanRun
    BY <1>2, ScanShape DEF Stall
  <2> QED BY <1>0, <1>2, <2>1 DEF Stall, ScanRun
<1>3. ASSUME NEW v \in Workers, ScanFails(v)
      PROVE  scan'[w] = scan[w]
  BY <1>0, <1>3 DEF ScanFails, Throw, ScanIdle
<1>4. ASSUME NEW v \in Workers, ScanStep(v), v # w
      PROVE  scan'[w] = scan[w]
  BY <1>0, <1>4 DEF ScanStep, ScanRead, ScanHead, ScanMissing, DetectType, Verdict, Drop, Promote, DeletePromoted,
     Settle, PinFails, ScannerDown, Throw, Goto, Decide
<1>5. ASSUME ScanStep(w)
      PROVE  /\ scan'[w].ev = scan[w].ev /\ scan[w].pc # "idle"
             /\ scan[w].pc = "read" => status[scan[w].ev] = "quarantined" /\ UNCHANGED status
  <2>1. scan[w].pc # "idle" /\ scan[w] \in ScanRun
    BY <1>5, ScanShape DEF ScanStep, ScanRead, ScanHead, ScanMissing, DetectType, Verdict, Drop, Promote,
         DeletePromoted, Settle, PinFails, ScannerDown, Scanning
  <2>2. scan'[w] # ScanIdle
    BY DEF ScanIdle
  <2>3. scan[w].pc = "read" => status[scan[w].ev] = "quarantined" /\ UNCHANGED status
    BY <1>0, <1>5, <2>2 DEF ScanStep, ScanRead, ScanHead, ScanMissing, DetectType, Verdict, Drop, Promote,
       DeletePromoted, Settle, PinFails, ScannerDown, Scanning
  <2>4. scan'[w].ev = scan[w].ev
    <3>1. CASE ScanRead(w)
      BY <1>0, <2>1, <2>2, <3>1 DEF ScanRead, Goto, ScanRun
    <3>2. CASE ScanHead(w)
      BY <1>0, <2>1, <3>2 DEF ScanHead, Goto, Decide, ScanRun
    <3>3. CASE ScanMissing(w)
      BY <1>0, <2>1, <3>3 DEF ScanMissing, Decide, ScanRun
    <3>4. CASE DetectType(w)
      BY <1>0, <2>1, <3>4 DEF DetectType, Goto, Decide, ScanRun
    <3>5. CASE Verdict(w)
      BY <1>0, <2>1, <3>5 DEF Verdict, Decide, ScanRun
    <3>6. CASE Drop(w) \/ Promote(w) \/ DeletePromoted(w)
      BY <1>0, <2>1, <3>6 DEF Drop, Promote, DeletePromoted, Goto, ScanRun
    <3>7. CASE Settle(w) \/ PinFails(w) \/ ScannerDown(w)
      BY <1>0, <2>2, <3>7 DEF Settle, PinFails, ScannerDown, Throw
    <3> QED BY <1>5, <3>1, <3>2, <3>3, <3>4, <3>5, <3>6, <3>7 DEF ScanStep
  <2> QED BY <2>1, <2>3, <2>4
<1>6. \/ UNCHANGED scan
      \/ \E v \in Workers, e \in Evidence : TakeJob(v, e)
      \/ \E v \in Workers : Stall(v) \/ ScanFails(v) \/ ScanStep(v)
  BY DEF Next, RequestUpload, GrowOld, WaitTooLong, Put, CompleteRead, CompleteStep, CompleteHead, CompleteCommit,
     CompleteEnqueue, RequestFails, ReqUnchanged, SweepStart, SweepStep, SweepFails, SweepReadLetters,
     SweepRemoveLetters, SweepReadDue, SweepReadStale, SweepDone, SweepRedrive, SweepRequeue, SweepEnqueue,
     SweepDelete, SweepReject, SweepUnchanged
<1> QED BY <1>1, <1>2, <1>3, <1>4, <1>5, <1>6

LEMMA RunKept ==
  ASSUME IInv, ScansHold, Next, NEW w \in Workers
  PROVE  RunHolds(w)'
<1>0. /\ TypeOK /\ RunKnows /\ RunHolds(w) /\ scan \in [Workers -> {ScanIdle} \cup ScanRun]
      /\ bucket \in [Evidence -> Objects]
  BY ScanShape DEF IInv, ScansHold, TypeOK
<1> SUFFICES ASSUME scan'[w].pc \notin {"idle", "read"}
             PROVE  RunHolds(w)'
  BY DEF RunHolds
<1>1. scan'[w].ev = scan[w].ev /\ scan[w].pc # "idle" /\ scan[w] \in ScanRun
  BY <1>0, RunMoves, ScanShape
<1>2. PICK e \in Evidence : e = scan[w].ev /\ e = scan'[w].ev
  BY <1>0, <1>1, ScanShape
<1>3. \A v \in Workers : scan[v].pc # "idle" /\ scan[v].ev = e => v = w
  BY <1>1, <1>2 DEF ScansHold, OneScan, Runs
<1>4. status[e] = "quarantined"
  BY <1>0, <1>2, RunMoves DEF RunHolds
<1>5. ~Settle(w)
  BY <1>0 DEF Settle, ScanIdle
<1>6. \A v \in Workers : Settle(v) => scan[v].ev # e
  BY <1>3, <1>5 DEF Settle, Scanning
<1>7. status'[e] = "quarantined"
  BY <1>4, <1>6, RowMoves
<1>8. ASSUME ~ScanStep(w), scan'[w].pc = "delete" \/ (scan'[w].pc = "settle" /\ scan'[w].outcome = "clean")
      PROVE  scan'[w].etag = bucket'[e]
  <2>1. \A v \in Workers : Promote(v) => scan[v].ev # e
    BY <1>3, <1>8 DEF Promote, Scanning, ScanStep
  <2>2. bucket'[e] = bucket[e]
    BY <2>1, RowMoves
  <2> QED BY <1>0, <1>2, <1>8, <2>2, RunMoves DEF RunHolds
<1>9. ASSUME ScanStep(w), scan'[w].pc = "delete" \/ (scan'[w].pc = "settle" /\ scan'[w].outcome = "clean")
      PROVE  scan'[w].etag = bucket'[e]
  <2>1. CASE Promote(w)
    <3>1. scan'[w].etag = scan[w].etag
      BY <1>0, <1>1, <2>1 DEF Promote, Goto, ScanRun
    <3> QED BY <1>0, <1>2, <2>1, <3>1 DEF Promote, Pinned
  <2>2. CASE DeletePromoted(w)
    <3>1. scan'[w].etag = scan[w].etag /\ bucket' = bucket
      BY <1>0, <1>1, <2>2 DEF DeletePromoted, Goto, ScanRun
    <3> QED BY <1>0, <1>2, <2>2, <3>1 DEF DeletePromoted, Scanning, RunHolds
  <2>3. CASE ScanMissing(w)
    <3>1. bucket' = bucket
      BY <2>3 DEF ScanMissing, objectVars
    <3>2. CASE bucket[e] \in RightSize
      <4>1. scan'[w].etag = bucket[e]
        BY <1>0, <1>1, <1>2, <2>3, <3>2 DEF ScanMissing, ScanRun
      <4> QED BY <3>1, <4>1
    <3>3. CASE bucket[e] \notin RightSize
      <4>1. scan'[w].pc = "settle" /\ scan'[w].outcome = "rejected"
        BY <1>0, <1>1, <1>2, <2>3, <3>3 DEF ScanMissing, Decide, ScanRun
      <4> QED BY <1>9, <4>1
    <3> QED BY <3>2, <3>3
  <2>4. CASE Drop(w)
    <3>1. scan'[w].pc = "settle" /\ scan'[w].outcome = scan[w].outcome /\ scan[w].outcome \in {"infected", "rejected"}
      BY <1>0, <1>1, <2>4 DEF Drop, Goto, Scanning, ScanRun, RunKnows
    <3> QED BY <1>9, <3>1
  <2>5. CASE ScanRead(w) \/ ScanHead(w) \/ DetectType(w) \/ Verdict(w)
    <3>1. scan'[w].pc \notin {"delete", "settle"}
      <4>1. CASE ScanRead(w)
        BY <1>0, <1>1, <4>1 DEF ScanRead, Goto, ScanRun, ScanIdle
      <4>2. CASE ScanHead(w)
        BY <1>0, <1>1, <4>2 DEF ScanHead, Goto, Decide, ScanRun
      <4>3. CASE DetectType(w)
        BY <1>0, <1>1, <4>3 DEF DetectType, Goto, Decide, ScanRun
      <4>4. CASE Verdict(w)
        BY <1>0, <1>1, <4>4 DEF Verdict, Decide, ScanRun
      <4> QED BY <2>5, <4>1, <4>2, <4>3, <4>4
    <3> QED BY <1>9, <3>1
  <2>6. ~PinFails(w) /\ ~ScannerDown(w)
    BY <1>0 DEF PinFails, ScannerDown, Throw, ScanIdle
  <2> QED BY <1>5, <1>9, <2>1, <2>2, <2>3, <2>4, <2>5, <2>6 DEF ScanStep
<1> QED BY <1>2, <1>7, <1>8, <1>9 DEF RunHolds

\* The digest of a downloadable row, and the object served.
LEMMA DigestKept ==
  ASSUME IInv, ScansHold, Next
  PROVE  DigestIsOfServedObject'
<1>0. /\ TypeOK /\ DigestIsOfServedObject
      /\ status \in [Evidence -> Statuses] /\ digest \in [Evidence -> Objects] /\ bucket \in [Evidence -> Objects]
  BY DEF IInv, ScansHold, TypeOK
<1> SUFFICES ASSUME NEW e \in Evidence, CanDownload(e)'
             PROVE  digest'[e] = bucket'[e]
  BY DEF DigestIsOfServedObject
<1>1. status'[e] = "clean" /\ digest'[e] # NoObject
  BY DEF CanDownload
<1>2. ASSUME NEW v \in Workers, Settle(v), scan[v].ev = e
      PROVE  digest'[e] = bucket'[e]
  <2>1. bucket' = bucket /\ scan[v].outcome = "clean"
    BY <1>0, <1>1, <1>2 DEF Settle, objectVars
  <2>2. digest'[e] = scan[v].etag
    BY <1>0, <1>2, <2>1 DEF Settle
  <2>3. scan[v].etag = bucket[e]
    BY <1>2, <2>1 DEF Settle, Scanning, ScansHold, RunHolds
  <2> QED BY <2>1, <2>2, <2>3
<1>3. ASSUME \A v \in Workers : ~(Settle(v) /\ scan[v].ev = e)
      PROVE  digest'[e] = bucket'[e]
  <2>1. status[e] = "clean" /\ digest'[e] = digest[e]
    BY <1>1, <1>3, RowMoves
  <2>2. \A v \in Workers : Promote(v) => scan[v].ev # e
    BY <2>1 DEF ScansHold, RunHolds, Promote, Scanning
  <2>3. bucket'[e] = bucket[e]
    BY <2>2, RowMoves
  <2> QED BY <1>0, <1>1, <2>1, <2>3 DEF DigestIsOfServedObject, CanDownload
<1> QED BY <1>2, <1>3

LEMMA ScansStep ==
  ASSUME IInv, ScansHold, Next, ~LostScan, ~LostScan'
  PROVE  ScansHold'
BY OneScanKept, SweepKept, RunKept, DigestKept DEF ScansHold

LEMMA ScansBegin == Init => ScansHold /\ ~LostScan
<1> SUFFICES ASSUME Init
             PROVE  ScansHold /\ ~LostScan
  OBVIOUS
<1>1. /\ \A e \in Evidence : jobs[e] = 0 /\ letters[e] = 0 /\ waited[e] = FALSE /\ status[e] = "absent"
      /\ \A w \in Workers : scan[w] = ScanIdle /\ scan[w].pc = "idle"
      /\ sweep.pc = "idle"
  BY DEF Init, ScanIdle, SweepIdle
<1>2. \A e \in Evidence : NoScan(e) /\ OneScan(e)
  BY <1>1 DEF NoScan, OneScan, Runs
<1>3. DigestIsOfServedObject
  BY <1>1 DEF DigestIsOfServedObject, CanDownload
<1> QED BY <1>1, <1>2, <1>3 DEF ScansHold, SweepHolds, RunHolds, LostScan

LEMMA ScansIdle ==
  ASSUME ScansHold, UNCHANGED vars
  PROVE  ScansHold'
<1>0. UNCHANGED <<status, digest, waited, bucket, jobs, keyed, letters, req, scan, sweep>>
  BY DEF vars, rowVars, objectVars, queueVars
<1>1. \A e : NoScan(e)' <=> NoScan(e)
  BY <1>0 DEF NoScan, Runs
<1>2. \A e : OneScan(e)' <=> OneScan(e)
  BY <1>0 DEF OneScan, Runs
<1>3. \A e : Confirmed(e)' <=> Confirmed(e)
  BY <1>0 DEF Confirmed, InRequest
<1>4. SweepHolds'
  BY <1>0, <1>1, <1>3 DEF ScansHold, SweepHolds
<1>5. \A w \in Workers : RunHolds(w)'
  BY <1>0 DEF ScansHold, RunHolds
<1>6. DigestIsOfServedObject'
  BY <1>0 DEF ScansHold, DigestIsOfServedObject, CanDownload
<1> QED BY <1>0, <1>1, <1>2, <1>3, <1>4, <1>5, <1>6 DEF ScansHold

\* One scan of a row is at most one job or run.
LEMMA OneScanCounts ==
  ASSUME TypeOK, ScansHold
  PROVE  AtMostOneScan
<1> SUFFICES ASSUME NEW e \in Evidence
             PROVE  jobs[e] + Cardinality({w \in Workers : scan[w] # ScanIdle /\ scan[w].ev = e}) <= 1
  BY DEF AtMostOneScan
<1>1. PICK S : S = {w \in Workers : scan[w] # ScanIdle /\ scan[w].ev = e}
  OBVIOUS
<1>2. /\ jobs[e] \in Nat /\ jobs[e] <= 1
      /\ \A w \in S : jobs[e] = 0
      /\ \A v, w \in S : v = w
  BY <1>1, ScanShape DEF TypeOK, ScansHold, OneScan, Runs
<1>3. ASSUME S = {} PROVE jobs[e] + Cardinality(S) <= 1
  <2>1. Cardinality({}) = 0
    BY FS_EmptySet
  <2>2. Cardinality(S) = 0
    BY <1>3, <2>1
  <2> QED BY <1>2, <2>2
<1>4. ASSUME NEW w \in S
      PROVE  jobs[e] + Cardinality(S) <= 1
  <2>1. S = {w}
    BY <1>2, <1>4
  <2>2. Cardinality(S) = 1
    BY <2>1, FS_Singleton
  <2> QED BY <1>2, <1>4, <2>2
<1> QED BY <1>1, <1>3, <1>4

(* Whatever dies, stalls, is retried, dead-lettered, redriven or requeued, *)
(* and however many requests, workers and rows there are: until a run      *)
(* outlives its job lock, a row has one runnable scan at most and a        *)
(* download serves the bytes whose digest is recorded.                     *)
THEOREM ScansAlwaysWhileLocked == HistorySpec => []ScansWhileLocked
<1> DEFINE Hold == /\ IInv /\ outlived \in BOOLEAN /\ (LostScan => outlived)
                   /\ (~outlived => ScansHold)
<1>1. HistoryInit => Hold
  BY InitIInv, ScansBegin DEF HistoryInit
<1>2. Hold /\ [HistoryNext]_<<vars, outlived>> => Hold'
  <2> SUFFICES ASSUME Hold, [HistoryNext]_<<vars, outlived>>
               PROVE  Hold'
    OBVIOUS
  <2>1. [Next]_vars
    BY DEF HistoryNext
  <2>2. IInv'
    BY <2>1, TypeNext, RunInvNext, LettersNext DEF IInv, RunInv
  <2>3. CASE HistoryNext
    <3>1. outlived' \in BOOLEAN /\ (LostScan' => outlived') /\ (~outlived' => ~outlived /\ ~LostScan')
      BY <2>3, Zenon DEF HistoryNext
    <3>2. ~outlived' => ScansHold'
      BY <2>3, <3>1, ScansStep DEF HistoryNext
    <3> QED BY <2>2, <3>1, <3>2
  <2>4. CASE UNCHANGED <<vars, outlived>>
    <3>1. LostScan' <=> LostScan
      BY <2>4 DEF vars, LostScan
    <3>2. ScansHold => ScansHold'
      BY <2>4, ScansIdle
    <3> QED BY <2>2, <2>4, <3>1, <3>2
  <2> QED BY <2>3, <2>4
<1>3. Hold => ScansWhileLocked
  BY OneScanCounts DEF ScansWhileLocked, IInv, ScansHold
<1> HIDE DEF Hold
<1> QED BY <1>1, <1>2, <1>3, PTL DEF HistorySpec

-----------------------------------------------------------------------------
(* Files of form invitations implement the abstract lifecycle.             *)

NoneLost == \A w \in Workers : scan[w].pc # "idle" => ~scan[w].lost

LEMMA NoneLostKept ==
  ASSUME TypeOK, NoneLost, LocksExpire = FALSE, Next
  PROVE  NoneLost'
<1>0. scan \in [Workers -> {ScanIdle} \cup ScanRun] /\ ScanIdle.pc = "idle"
  BY ScanShape DEF ScanIdle
<1>1. CASE UNCHANGED scan
  BY <1>1 DEF NoneLost
<1>2. ASSUME NEW w \in Workers, NEW e \in Evidence, TakeJob(w, e)
      PROVE  NoneLost'
  <2>1. scan' = [scan EXCEPT ![w] = [pc |-> "read", ev |-> e, etag |-> NoObject, outcome |-> "none", lost |-> FALSE]]
    BY <1>2 DEF TakeJob
  <2>2. \A v \in Workers : scan'[v] = scan[v] \/ scan'[v].lost = FALSE
    BY <1>0, <2>1
  <2> QED BY <2>2 DEF NoneLost
<1>3. ASSUME NEW w \in Workers, ScanStep(w) \/ ScanFails(w)
      PROVE  NoneLost'
  <2>1. scan[w].pc # "idle" /\ scan[w] \in ScanRun
    BY <1>3, ScanShape DEF ScanStep, ScanFails, ScanRead, ScanHead, ScanMissing, DetectType, Verdict, Drop, Promote,
         DeletePromoted, Settle, PinFails, ScannerDown, Scanning
  <2>2. \/ scan' = [scan EXCEPT ![w] = ScanIdle]
        \/ \E pc \in ScanPcs : Goto(w, pc)
        \/ \E pc \in ScanPcs, o \in Outcomes : Decide(w, pc, o)
        \/ \E pc \in ScanPcs, g \in Objects : scan' = [scan EXCEPT ![w].pc = pc, ![w].etag = g]
        \/ \E pc \in ScanPcs, o \in Outcomes, g \in Objects :
             scan' = [scan EXCEPT ![w].pc = pc, ![w].outcome = o, ![w].etag = g]
    <3>1. bucket[scan[w].ev] \in Objects /\ quarantine[scan[w].ev] \in Objects
      BY <2>1, ScanShape DEF TypeOK
    <3>2. CASE ScanHead(w)
      BY <3>1, <3>2 DEF ScanHead, ScanPcs, Outcomes
    <3>3. CASE ScanMissing(w)
      BY <3>1, <3>3 DEF ScanMissing, ScanPcs, Outcomes
    <3>4. CASE DetectType(w) \/ Verdict(w)
      BY <3>4 DEF DetectType, Verdict, ScanPcs, Outcomes
    <3>5. CASE ScanRead(w) \/ Drop(w) \/ Promote(w) \/ DeletePromoted(w)
      BY <3>5 DEF ScanRead, Drop, Promote, DeletePromoted, ScanPcs
    <3>6. CASE Settle(w) \/ PinFails(w) \/ ScannerDown(w) \/ ScanFails(w)
      BY <3>6 DEF Settle, PinFails, ScannerDown, ScanFails, Throw
    <3> QED BY <1>3, <3>2, <3>3, <3>4, <3>5, <3>6 DEF ScanStep
  <2>3. CASE scan' = [scan EXCEPT ![w] = ScanIdle]
    BY <1>0, <2>3 DEF NoneLost
  <2>4. CASE scan' # [scan EXCEPT ![w] = ScanIdle]
    <3>1. scan'[w].lost = scan[w].lost /\ \A v \in Workers : v # w => scan'[v] = scan[v]
      BY <2>1, <2>2, <2>4, ScanMoves
    <3> QED BY <2>1, <3>1 DEF NoneLost
  <2> QED BY <2>3, <2>4
<1>4. \A w \in Workers : ~Stall(w)
  BY DEF Stall
<1>5. \/ UNCHANGED scan
      \/ \E w \in Workers, e \in Evidence : TakeJob(w, e)
      \/ \E w \in Workers : Stall(w) \/ ScanFails(w) \/ ScanStep(w)
  BY DEF Next, RequestUpload, GrowOld, WaitTooLong, Put, CompleteRead, CompleteStep, CompleteHead, CompleteCommit,
     CompleteEnqueue, RequestFails, ReqUnchanged, SweepStart, SweepStep, SweepFails, SweepReadLetters,
     SweepRemoveLetters, SweepReadDue, SweepReadStale, SweepDone, SweepRedrive, SweepRequeue, SweepEnqueue,
     SweepDelete, SweepReject, SweepUnchanged
<1> QED BY <1>1, <1>2, <1>3, <1>4, <1>5

\* Every step of the pipeline is one of the lifecycle or none.
LEMMA LifecycleStep ==
  ASSUME FormFiles = Evidence, IInv, ScansHold, Next
  PROVE  [Lifecycle!Next]_<<status, bucket>>
<1>0. /\ TypeOK /\ status \in [Evidence -> Statuses] /\ bucket \in [Evidence -> Objects]
      /\ RunKnows /\ PromotedIsVerified
  BY DEF IInv, TypeOK
<1>1. ASSUME NEW e \in Evidence, RequestUpload(e)
      PROVE  Lifecycle!Next
  BY <1>1 DEF RequestUpload, objectVars, Lifecycle!Next, Lifecycle!Request, Lifecycle!Move
<1>2. ASSUME NEW r \in Requests, CompleteCommit(r)
      PROVE  Lifecycle!Next \/ UNCHANGED <<status, bucket>>
  <2>1. req[r].ev \in Evidence
    BY <1>0, <1>2, ScanShape DEF CompleteCommit, Requesting
  <2>2. CASE status[req[r].ev] = "pending"
    BY <1>2, <2>1, <2>2 DEF CompleteCommit, MayQuarantine, ReqUnchanged, objectVars,
       Lifecycle!Next, Lifecycle!Confirm, Lifecycle!Move
  <2>3. CASE status[req[r].ev] # "pending"
    BY <1>2, <2>1, <2>3 DEF CompleteCommit, MayQuarantine, ReqUnchanged, objectVars
  <2> QED BY <2>2, <2>3
<1>3. ASSUME NEW e \in Evidence, SweepReject(e)
      PROVE  Lifecycle!Next \/ UNCHANGED <<status, bucket>>
  <2>1. bucket' = bucket
    BY <1>3 DEF SweepReject, SweepUnchanged
  <2>2. CASE status[e] = "pending"
    <3>1. status' = [status EXCEPT ![e] = "rejected"]
      BY <1>3, <2>2 DEF SweepReject
    <3> QED BY <2>1, <2>2, <3>1 DEF Lifecycle!Next, Lifecycle!Abandon, Lifecycle!Move
  <2>3. CASE status[e] # "pending"
    <3>1. status' = [status EXCEPT ![e] = status[e]]
      BY <1>3, <2>3 DEF SweepReject
    <3>2. status' = status
      BY <1>0, <3>1
    <3> QED BY <2>1, <3>2
  <2> QED BY <2>2, <2>3
<1>4. ASSUME NEW w \in Workers, Promote(w)
      PROVE  Lifecycle!Next
  <2>1. PICK e \in Evidence : e = scan[w].ev
    BY <1>0, <1>4, ScanShape DEF Promote, Scanning
  <2>2. status[e] = "quarantined" /\ UNCHANGED status
    BY <1>4, <2>1 DEF Promote, Scanning, ScansHold, RunHolds
  <2>3. scan[w].etag \in Verified /\ quarantine[e] = scan[w].etag
    BY <1>0, <1>4, <2>1 DEF Promote, Scanning, Pinned, RunKnows, Verified
  <2>4. bucket' = [bucket EXCEPT ![e] = scan[w].etag]
    BY <1>4, <2>1, <2>3 DEF Promote
  <2> QED BY <2>2, <2>3, <2>4 DEF Lifecycle!Next, Lifecycle!Store
<1>5. ASSUME NEW w \in Workers, Settle(w)
      PROVE  Lifecycle!Next
  <2>1. PICK e \in Evidence : e = scan[w].ev
    BY <1>0, <1>5, ScanShape DEF Settle, Scanning
  <2>2. PICK o \in Outcomes : o = scan[w].outcome
    BY <1>0, <1>5, ScanShape DEF Settle, Scanning, ScanRun
  <2>3. status[e] = "quarantined" /\ bucket' = bucket /\ status' = [status EXCEPT ![e] = o]
    BY <1>5, <2>1, <2>2 DEF Settle, Scanning, ScansHold, RunHolds, objectVars
  <2>4. o \in Lifecycle!Verdicts
    BY <1>0, <1>5, <2>2 DEF Settle, Scanning, RunKnows, Outcomes, Lifecycle!Verdicts
  <2>5. o = "clean" => bucket[e] \in Verified
    BY <1>0, <1>5, <2>1, <2>2 DEF Settle, Scanning, RunKnows, PromotedIsVerified
  <2> QED BY <2>3, <2>4, <2>5 DEF Lifecycle!Next, Lifecycle!Judge, Lifecycle!Move
<1>6. \/ UNCHANGED <<status, bucket>>
      \/ \E e \in Evidence : RequestUpload(e) \/ SweepReject(e)
      \/ \E r \in Requests : CompleteCommit(r)
      \/ \E w \in Workers : Settle(w) \/ Promote(w)
  BY DEF Next, GrowOld, WaitTooLong, Put, CompleteRead, CompleteStep, CompleteHead, CompleteEnqueue,
     RequestFails, ReqUnchanged, TakeJob, ScanStep, ScanFails, Stall, ScanRead, ScanHead, ScanMissing, DetectType,
     Verdict, Drop, DeletePromoted, PinFails, ScannerDown, Throw, SweepStart, SweepStep, SweepFails,
     SweepReadLetters, SweepRemoveLetters, SweepReadDue, SweepReadStale, SweepDone, SweepRedrive, SweepRequeue,
     SweepEnqueue, SweepDelete, SweepUnchanged, rowVars, objectVars
<1> QED BY <1>1, <1>2, <1>3, <1>4, <1>5, <1>6

(* Files of form invitations, whose completion is guarded, implement the   *)
(* lifecycle as long as no run outlives its job lock: one verdict, bytes   *)
(* stored only while it is pending, nothing after it, for any number of    *)
(* files, requests, workers and faults.                                    *)
THEOREM FormFilesFollowLifecycle ==
  ASSUME FormFiles = Evidence, LocksExpire = FALSE
  PROVE  Spec => ImplementsLifecycle
<1> DEFINE Hold == IInv /\ ScansHold /\ NoneLost
<1>1. Init => Hold /\ Lifecycle!Init
  <2>1. Init => NoneLost
    BY DEF Init, NoneLost, ScanIdle
  <2>2. Init => Lifecycle!Init
    BY DEF Init, Lifecycle!Init
  <2> QED BY <2>1, <2>2, InitIInv, ScansBegin
<1>2. Hold /\ [Next]_vars => Hold' /\ [Lifecycle!Next]_(Lifecycle!vars)
  <2> SUFFICES ASSUME IInv, ScansHold, NoneLost, [Next]_vars
               PROVE  IInv' /\ ScansHold' /\ NoneLost' /\ [Lifecycle!Next]_(Lifecycle!vars)
    OBVIOUS
  <2>1. IInv'
    BY TypeNext, RunInvNext, LettersNext DEF IInv, RunInv
  <2>2. CASE Next
    <3>1. NoneLost'
      BY <2>2, NoneLostKept DEF IInv
    <3>2. NoneLost /\ TypeOK => ~LostScan
      BY ScanShape DEF NoneLost, LostScan
    <3>3. TypeOK'
      BY <2>1 DEF IInv
    <3>4. ~LostScan'
      <4>1. ASSUME NEW w \in Workers, scan'[w] # ScanIdle
            PROVE  scan'[w].pc # "idle"
        <5>1. scan'[w] \in ScanRun
          BY <3>3, <4>1 DEF TypeOK, ScanStates
        <5> QED BY <5>1 DEF ScanRun, ScanPcs
      <4> QED BY <3>1, <4>1 DEF NoneLost, LostScan
    <3>5. ScansHold'
      BY <2>2, <3>2, <3>4, ScansStep DEF IInv
    <3>6. [Lifecycle!Next]_(Lifecycle!vars)
      BY <2>2, LifecycleStep DEF Lifecycle!vars
    <3> QED BY <2>1, <3>1, <3>5, <3>6
  <2>3. CASE UNCHANGED vars
    <3>1. NoneLost' /\ UNCHANGED <<status, bucket>>
      BY <2>3 DEF vars, rowVars, objectVars, NoneLost
    <3>2. ScansHold'
      BY <2>3, ScansIdle
    <3>3. UNCHANGED Lifecycle!vars
      BY <3>1 DEF Lifecycle!vars
    <3> QED BY <2>1, <3>1, <3>2, <3>3
  <2> QED BY <2>2, <2>3
<1> HIDE DEF Hold
<1> QED BY <1>1, <1>2, PTL DEF Spec, ImplementsLifecycle, Lifecycle!Spec
=============================================================================
