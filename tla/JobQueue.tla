------------------------------- MODULE JobQueue -------------------------------
(***************************************************************************)
(* What the pipelines of ragserver promise to a client that submitted a job *)
(* and polls it (scripts/upload-file.sh): the job is claimed once, reaches   *)
(* an outcome, and changes that outcome at most once afterwards, because no  *)
(* outcome is recorded twice for one job.  A client may withdraw a job that  *)
(* has settled; a server that has not heard of it may record an outcome for  *)
(* it still, but the job is never pending or running again.                  *)
(*                                                                         *)
(* FileProcessing and ScreeningProcessing implement this specification; their *)
(* servers, transactions, clocks and crashes are hidden here.               *)
(***************************************************************************)
CONSTANTS
  Jobs, Outcomes,
  Withdrawable  \* the jobs that clients can withdraw

VARIABLES
  phase,     \* where each job is
  outcome,   \* the outcome a client reads of a settled job
  recorded   \* the outcomes recorded of each job since it was last withdrawn

jobVars == <<phase, outcome, recorded>>

Phases == {"absent", "pending", "running", "settled", "withdrawn"}
NoOutcome == "none"

JobTypeOK ==
  /\ phase \in [Jobs -> Phases]
  /\ outcome \in [Jobs -> Outcomes \cup {NoOutcome}]
  /\ recorded \in [Jobs -> SUBSET Outcomes]

Init ==
  /\ phase = [j \in Jobs |-> "absent"]
  /\ outcome = [j \in Jobs |-> NoOutcome]
  /\ recorded = [j \in Jobs |-> {}]

Submit(j) ==
  /\ phase[j] = "absent"
  /\ phase' = [phase EXCEPT ![j] = "pending"]
  /\ UNCHANGED <<outcome, recorded>>

(* A worker takes a batch of pending jobs at once. *)
Claim(batch) ==
  /\ batch # {}
  /\ \A j \in batch : phase[j] = "pending"
  /\ phase' = [j \in Jobs |-> IF j \in batch THEN "running" ELSE phase[j]]
  /\ UNCHANGED <<outcome, recorded>>

(* An outcome is recorded for a set of jobs at once, never twice for a job. *)
Record(batch, o) ==
  /\ batch # {}
  /\ \A j \in batch :
       phase[j] \in {"running", "settled", "withdrawn"} /\ o \notin recorded[j]
  /\ phase' = [j \in Jobs |-> IF j \in batch THEN "settled" ELSE phase[j]]
  /\ outcome' = [j \in Jobs |-> IF j \in batch THEN o ELSE outcome[j]]
  /\ recorded' = [j \in Jobs |-> IF j \in batch THEN recorded[j] \cup {o} ELSE recorded[j]]

(* Nothing is left of a withdrawn job, unless an outcome is recorded for it. *)
Withdraw(j) ==
  /\ j \in Withdrawable /\ phase[j] = "settled"
  /\ phase' = [phase EXCEPT ![j] = "withdrawn"]
  /\ outcome' = [outcome EXCEPT ![j] = NoOutcome]
  /\ recorded' = [recorded EXCEPT ![j] = {}]

Next ==
  \/ \E j \in Jobs : Submit(j)
  \/ \E batch \in SUBSET Jobs : Claim(batch)
  \/ \E batch \in SUBSET Jobs, o \in Outcomes : Record(batch, o)
  \/ \E j \in Jobs : Withdraw(j)

(* A submitted job settles in the end: the promise clients poll for. *)
Settles == \A j \in Jobs : phase[j] = "pending" ~> phase[j] = "settled"

SafeSpec == Init /\ [][Next]_jobVars

Spec == SafeSpec /\ Settles
===============================================================================
