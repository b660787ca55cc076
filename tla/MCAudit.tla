------------------------------ MODULE MCAudit -------------------------------
(* The two halves of an audit chain for TLC.  A behaviour is about one of  *)
(* them, inPlay: AuditVerify starts from what AuditAppend implements.  A   *)
(* history variable tells the behaviours in which one run of the job was   *)
(* at work at a time.  The jobs are interchangeable, the transactions are  *)
(* not: what must happen in the end is about each of them, and no fairness *)
(* and no liveness property names a job.                                   *)
EXTENDS AuditAppend, AuditVerify, TLC

Interchangeable == Permutations(Jobs)

VARIABLES
  inPlay,
  overlapped  \* two runs of the job have overlapped

everything == <<vars, verifyVars, overlapped, inPlay>>

Overlap == \E i, j \in Jobs : i # j /\ job[i] # IdleJob /\ job[j] # IdleJob

HistoryInit == VerifyInit /\ overlapped = FALSE
HistoryNext == VerifyNext /\ overlapped' = (overlapped \/ Overlap')
HistorySpec == HistoryInit /\ [][HistoryNext]_<<verifyVars, overlapped>>

AuditInit == inPlay \in {"appending", "verifying"} /\ Init /\ HistoryInit

AuditNext ==
  /\ \/ inPlay = "appending" /\ Next /\ UNCHANGED <<verifyVars, overlapped>>
     \/ inPlay = "verifying" /\ HistoryNext /\ UNCHANGED vars
  /\ UNCHANGED inPlay

AuditSpec ==
  /\ AuditInit /\ [][AuditNext]_everything
  /\ \A t \in Txs : WF_vars(HolderStep(t)) /\ SF_vars(Lock(t))

\* "A clean chain is a normal result": as long as runs did not overlap there is
\* no alarm, through crashes, repeated runs, skipped days and restores, unless
\* events an anchor covers are gone.
\* "Later anchors must stay monotonic and must link to the previous day's
\* anchor": they do as long as runs did not overlap.
SerialRunsAgree == ~overlapped => NoFalseAlarm /\ AnchorsLink
=============================================================================
