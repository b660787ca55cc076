--------------------------- MODULE MCEvidenceScan ---------------------------
(* Instances of EvidenceScan for TLC, with a history variable that tells   *)
(* the behaviours in which no scan has outlived its job lock.              *)
EXTENDS EvidenceScan, TLC

CONSTANTS good, good2, virus

\* Two good files whose bytes differ, and one that is not harmless.
TwoGood      == {good, good2, virus}
TwoGoodClean == {good, good2}

Interchangeable ==
  Permutations(Requests) \cup Permutations(Workers) \cup Permutations(TwoGoodClean)

VARIABLE outlived  \* some scan has outlived its job lock

LostScan == \E w \in Workers : scan[w] # ScanIdle /\ scan[w].lost

HistoryInit == Init /\ outlived = FALSE
HistoryNext == Next /\ outlived' = (outlived \/ LostScan')
HistorySpec == HistoryInit /\ [][HistoryNext]_<<vars, outlived>>

FairHistorySpec == HistorySpec /\ Fairness

\* "The scan job is keyed by the evidence id so a duplicate notification cannot
\* double-schedule work": as long as no scan has outlived its lock, keyed first
\* jobs, redrives and stale requeues never leave two runnable scans of one row,
\* and the digest of a downloadable row is that of the object served.
ScansWhileLocked == TypeOK /\ (~outlived => AtMostOneScan /\ DigestIsOfServedObject)
=============================================================================
