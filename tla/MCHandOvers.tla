---------------------------- MODULE MCHandOvers ----------------------------
(***************************************************************************)
(* Instances of the services that promise to hand something over in the    *)
(* end: the delivery outbox, and a scheduled job that clients edit and     *)
(* pause.  `part' names the one whose steps are explored; the other stays  *)
(* as it is.                                                               *)
(***************************************************************************)
EXTENDS DeliveryOutbox

CONSTANTS
  k1, k2, g1, g2, acct,    \* deliveries, gateways and their account
  j1, w1                   \* a job and a worker

VARIABLES
  part,
  now, jobs, attempts, inbox, proc, edits, faults    \* the schedule

(* Two gateways on one account, and one key of each kind of platform.      *)
MCAccountOf == [x \in {k1, k2, g1, g2} |-> acct]

(* A recurring job that runs once for the runs it missed, one edit, one    *)
(* fault, and workers that crash and come back.                            *)
S == INSTANCE Scheduler WITH
       Jobs <- {j1}, Workers <- {w1},
       Schedule <- [j \in {j1} |-> [kind |-> "Interval", every |-> 1, at |-> 0]],
       MissedRun <- [j \in {j1} |-> [kind |-> "RunOnce", max_runs |-> 1]],
       Grace <- 0, MaxRetries <- 1, MaxTime <- 1, MaxEdits <- 1, MaxFaults <- 1,
       Crashes <- TRUE

outboxVars == <<items, due, holding, accepted>>
jobVars == <<now, jobs, attempts, inbox, proc, edits, faults>>
allVars == <<part, outboxVars, jobVars>>

HandOversInit ==
  /\ part \in {"outbox", "schedule"}
  /\ Init /\ S!Init

Outbox == part = "outbox" /\ Next /\ UNCHANGED <<part, jobVars>>
Scheduling == part = "schedule" /\ S!Next /\ UNCHANGED <<part, outboxVars>>

HandOversNext == Outbox \/ Scheduling

(* The fairness of each part, as its module states it, while it is the one *)
(* explored.                                                               *)
OutboxFairness ==
  /\ \A k \in Keys : /\ WF_outboxVars(part = "outbox" /\ LeaseLapses(k))
                     /\ WF_outboxVars(part = "outbox" /\ BackoffElapses(k))
  /\ \A g \in Gateways :
       /\ WF_outboxVars(part = "outbox" /\ claim_next_for_account(g))
       /\ WF_outboxVars(part = "outbox" /\ (Send(g) \/ acknowledge(g) \/ fail(g)))
  /\ WF_outboxVars(part = "outbox" /\ recover_expired)

ScheduleFairness ==
  /\ WF_jobVars(part = "schedule" /\ S!Maintain(w1))
  /\ WF_jobVars(part = "schedule" /\ S!delete(w1))
  /\ WF_jobVars(part = "schedule" /\ S!Tick)
  /\ WF_jobVars(part = "schedule" /\ \E a \in S!Ids : S!Elapses(a))
  /\ WF_jobVars(part = "schedule" /\ S!StartWorker(w1))

HandOversSpec ==
  /\ HandOversInit /\ [][HandOversNext]_allVars
  /\ OutboxFairness /\ ScheduleFairness
-----------------------------------------------------------------------------
(* A delivery has one gateway at a time whose report would be honoured, and *)
(* is never tried more often than its limit (claim, verify_claim, fail).    *)
OutboxInOrder == TypeOK /\ ExclusiveClaim

(* A claim starts no more runs than the missed-run policy allows           *)
(* (SchedulerService::claim_job).                                          *)
NoCatchUpStorm == S!NoCatchUpStorm

(* A paused job stays paused until it is resumed or deleted (put_job).     *)
PauseHolds == S!PauseHolds

(* Every attempt claimed is in the end enqueued, failed or cancelled       *)
(* (retry_due, expire_stale_claims).                                       *)
ClaimSettles == S!ClaimSettles
=============================================================================
