----------------------------- MODULE Scheduler -----------------------------
(***************************************************************************)
(* The durable scheduler (crates/scheduler) and the maintenance pass that  *)
(* drives it in a worker (LocalRuntime::maintain_runtime): jobs and        *)
(* attempts in a store shared by worker processes, claimed and advanced in *)
(* one transaction, enqueued in the action inbox, retried, finished and    *)
(* deleted, by processes that die between two writes.                      *)
(*                                                                         *)
(* A job is ticked by the worker of its root tree, and by a predecessor    *)
(* that has lost its lease and not ended; an unscoped client command       *)
(* administers it from the worker of another root.  A restarting daemon    *)
(* expires claims while an adopted worker runs.                            *)
(*                                                                         *)
(* Abstractions: schedules are Once and Interval; the clock is a bounded   *)
(* counter, claim expiry and retry backoff a flag that time sets.  Within  *)
(* a process the scheduler's mutex serialises operations.  A read and a    *)
(* write under Exact(revision) are two steps where the project relies on   *)
(* the precondition (claim, enqueue, delete), one elsewhere.  A tick       *)
(* handles one job or one attempt: what a longer tick leaves undone by     *)
(* returning an error, this one leaves undone by the process dying.        *)
(***************************************************************************)
EXTENDS Integers, FiniteSets

CONSTANTS Jobs,       \* job identities
          Schedule,   \* per job: kind, every (Interval), at (Once)
          MissedRun,  \* per job: MissedRunPolicy and its max_runs
          Grace,      \* on_time_grace_ms
          MaxRetries, \* max_enqueue_retries
          Workers,    \* worker processes that share the store
          MaxTime,    \* bound on the clock
          MaxEdits,   \* bound on pause, resume and update
          MaxFaults,  \* bound on crashes, restarts and refused submissions
          Crashes     \* whether processes crash

Never == -1

ASSUME SchedulerAssumption ==
  /\ \A j \in Jobs : /\ Schedule[j].kind \in {"Once", "Interval"}
                     /\ Schedule[j].every \in Nat \ {0}
                     /\ Schedule[j].at \in Nat
                     /\ MissedRun[j].kind \in {"Skip", "RunOnce", "ReplayBounded"}
                     /\ MissedRun[j].max_runs \in Nat
  /\ Grace \in Nat /\ MaxRetries \in Nat /\ MaxTime \in Nat
  /\ MaxEdits \in Nat /\ MaxFaults \in Nat
  /\ Crashes \in BOOLEAN

VARIABLES now,       \* the clock
          jobs,      \* ScheduledJob records with their revisions
          attempts,  \* JobAttempt records, numbered in order of creation
          inbox,     \* state of each attempt's action in the action inbox
          proc,      \* what each worker process has in hand
          edits, faults

vars == <<now, jobs, attempts, inbox, proc, edits, faults>>

JobStates == {"None", "Active", "Paused", "Completed", "Deleted"}
AttemptStates == {"Claimed", "RetryScheduled", "Enqueued", "Completed", "Failed", "Cancelled"}
ActionStates == {"None", "Queued", "Running", "Completed", "Failed", "Cancelled"}
Steps == {"Down", "Ready", "Claim", "Enqueue", "Sink", "Record", "Settle", "Finish", "Delete"}

Ids == DOMAIN attempts

JobRecords == [state : JobStates, next : Int, anchor : Nat, revision : Nat, epoch : Nat]
AttemptRecords == [job : Jobs, epoch : Nat, at : Int, state : AttemptStates, revision : Nat,
                   retries : 0..MaxRetries, due : {"later", "due"}]
Held == [step : Steps, job : Jobs \cup {"none"}, revision : Nat, time : Nat,
         todo : SUBSET Int, done : SUBSET Int,
         outcome : {"none", "accepted", "refused", "succeeded", "failed"},
         cancel : SUBSET (Int \X Nat), seen : JobRecords]

attempt_terminal(state) == state \in {"Completed", "Failed", "Cancelled", "Enqueued"}

\* required_job finds the job.
Exists(j) == jobs[j].state \notin {"None", "Deleted"}

Unsettled(j) == {a \in Ids : attempts[a].job = j /\ ~attempt_terminal(attempts[a].state)}

NoSuchJob == [state |-> "None", next |-> Never, anchor |-> 0, revision |-> 0, epoch |-> 0]

\* What a process holds: the job of a delete or a claim, the revision it
\* read (of the job, or of the attempts to enqueue) and when; the attempts
\* still to enqueue, those tick will return, the outcome of the last call;
\* the attempts a delete found, with their revisions; the job a claim read.
Holding(step, job, revision, time, todo, done, outcome, cancel, seen) ==
  [step |-> step, job |-> job, revision |-> revision, time |-> time, todo |-> todo,
   done |-> done, outcome |-> outcome, cancel |-> cancel, seen |-> seen]

Idle(step) == Holding(step, "none", 0, 0, {}, {}, "none", {}, NoSuchJob)
ToDelete(j, found) == Holding("Delete", j, jobs[j].revision, 0, {}, {}, "none", found, NoSuchJob)
ToClaim(j) == Holding("Claim", j, 0, now, {}, {}, "none", {}, jobs[j])
WithAttempts(step, revision, todo, done, outcome) ==
  Holding(step, "none", revision, 0, todo, done, outcome, {}, NoSuchJob)

\* The next revision of a job, and of an attempt.
NextJob(job, state, next, anchor, epoch) ==
  [state |-> state, next |-> next, anchor |-> anchor, revision |-> job.revision + 1,
   epoch |-> epoch]
NextAttempt(att, state, retries, due) ==
  [job |-> att.job, epoch |-> att.epoch, at |-> att.at, state |-> state,
   revision |-> att.revision + 1, retries |-> retries, due |-> due]
InState(att, state) == NextAttempt(att, state, att.retries, att.due)

Init ==
  /\ now = 0
  /\ jobs = [j \in Jobs |-> NoSuchJob]
  /\ attempts = <<>>
  /\ inbox = <<>>
  /\ proc = [w \in Workers |-> Idle("Ready")]
  /\ edits = 0
  /\ faults = 0

Fault ==
  /\ faults < MaxFaults
  /\ faults' = faults + 1

First(ids) == {a \in ids : \A b \in ids : a <= b}

Goto(w, p) == proc' = [proc EXCEPT ![w] = p]

\* maintain_runtime returned an error: the daemon drains the worker.
MaintenanceError(w) == Goto(w, Idle("Down"))

----------------------------------------------------------------------------
(* Schedule arithmetic.  s is [kind, every, at, anchor]. *)

initial_run(s, t) ==
  CASE s.kind = "Once" -> s.at
    [] s.kind = "Interval" /\ s.anchor >= t -> s.anchor
    [] s.kind = "Interval" /\ s.anchor < t ->
         s.anchor + ((t - s.anchor + (s.every - 1)) \div s.every) * s.every

next_after(s, t) ==
  IF s.kind = "Once"
    THEN Never
    ELSE LET elapsed == t - s.anchor
             periods == IF elapsed < 0 THEN 0 ELSE (elapsed \div s.every) + 1
         IN  s.anchor + periods * s.every

\* The chain first, next_after(first), ... up to t; the cap of 65,536 is
\* out of reach.
due_occurrences(s, first, t) ==
  {u \in first..t : u = first \/ next_after(s, u - 1) = u}

Earliest(n, occurrences) ==
  {u \in occurrences : Cardinality({v \in occurrences : v < u}) < n}

due_decision(s, missed, first, t) ==
  LET occurrences == due_occurrences(s, first, t)
  IN  IF t - first <= Grace
        THEN {first}
        ELSE CASE missed.kind = "Skip" -> {}
               [] missed.kind = "RunOnce" -> {u \in occurrences : \A v \in occurrences : v <= u}
               [] missed.kind = "ReplayBounded" -> Earliest(missed.max_runs, occurrences)

Spec_of(j, anchor) ==
  [kind |-> Schedule[j].kind, every |-> Schedule[j].every, at |-> Schedule[j].at,
   anchor |-> anchor]

----------------------------------------------------------------------------
(* Administration. *)

\* schedule_spec anchors an interval at the time of the command.
create(j) ==
  /\ jobs[j].state = "None"
  /\ jobs' = [jobs EXCEPT ![j] = [state |-> "Active", next |-> initial_run(Spec_of(j, now), now),
                                  anchor |-> now, revision |-> 0, epoch |-> 0]]
  /\ UNCHANGED <<now, attempts, inbox, proc, edits, faults>>

Edited(j, job) ==
  /\ edits < MaxEdits
  /\ edits' = edits + 1
  /\ jobs' = [jobs EXCEPT ![j] = job]
  /\ UNCHANGED <<now, attempts, inbox, proc, faults>>

change_state(j) ==
  LET job == jobs[j] IN
  /\ job.state \in {"Active", "Paused"}
  /\ Edited(j, NextJob(job, IF job.state = "Active" THEN "Paused" ELSE "Active",
                       job.next, job.anchor, job.epoch))

\* update with a schedule computes the next run afresh; without one it only
\* replaces what this module abstracts from.
update(j) ==
  LET job == jobs[j] IN
  /\ job.state \in {"Active", "Paused"}
  /\ \/ Edited(j, NextJob(job, job.state, initial_run(Spec_of(j, now), now), now, job.epoch + 1))
     \/ Edited(j, NextJob(job, job.state, job.next, job.anchor, job.epoch))

BeginDelete(w, j) ==
  /\ proc[w].step = "Ready"
  /\ Exists(j)
  /\ Goto(w, ToDelete(j, {<<a, attempts[a].revision>> : a \in Unsettled(j)}))
  /\ UNCHANGED <<now, jobs, attempts, inbox, edits, faults>>

Found(p) == {c[1] : c \in p.cancel}

\* Mutant: the transaction deletes the job and leaves its attempts.
delete_job_only(w) ==
  LET p == proc[w] IN
  /\ p.step = "Delete"
  /\ IF Exists(p.job) /\ jobs[p.job].revision = p.revision
       THEN jobs' = [jobs EXCEPT ![p.job].state = "Deleted"]
       ELSE jobs' = jobs
  /\ Goto(w, Idle("Ready"))
  /\ UNCHANGED <<now, attempts, inbox, edits, faults>>

\* The second half of delete: one transaction under every revision it read.
delete(w) ==
  LET p == proc[w] IN
  /\ p.step = "Delete"
  /\ IF /\ Exists(p.job)
        /\ jobs[p.job].revision = p.revision
        /\ \A a \in Found(p) : <<a, attempts[a].revision>> \in p.cancel
       THEN /\ jobs' = [jobs EXCEPT ![p.job].state = "Deleted"]
            /\ attempts' = [a \in Ids |->
                              IF a \in Found(p)
                                THEN InState(attempts[a], "Cancelled")
                                ELSE attempts[a]]
       ELSE UNCHANGED <<jobs, attempts>>
  /\ Goto(w, Idle("Ready"))
  /\ UNCHANGED <<now, inbox, edits, faults>>

----------------------------------------------------------------------------
(* tick: claim what is due, or take up an attempt left behind. *)

\* tick_filtered selects an active job whose next run has come.
Due(j) == jobs[j].state = "Active" /\ jobs[j].next # Never /\ jobs[j].next <= now

BeginClaim(w, j) ==
  /\ proc[w].step = "Ready"
  /\ Due(j)
  /\ Goto(w, ToClaim(j))
  /\ UNCHANGED <<now, jobs, attempts, inbox, edits, faults>>

\* The next n identities, none in use.
NewIds(n) == ((Cardinality(Ids) + 1)..(Cardinality(Ids) + n)) \ Ids

Claimed(j, epoch, at) ==
  [job |-> j, epoch |-> epoch, at |-> at, state |-> "Claimed", revision |-> 0,
   retries |-> 0, due |-> "later"]

\* Mutant: the claim leaves next_run where it was.
Advanced_unmoved(job, next) ==
  NextJob(job, IF next = Never THEN "Completed" ELSE job.state, job.next, job.anchor, job.epoch)

Advanced(job, next) ==
  NextJob(job, IF next = Never THEN "Completed" ELSE job.state, next, job.anchor, job.epoch)

\* The transaction of claim_job: the job under its revision, with the new
\* attempts.
ClaimUnder(w, ok) ==
  LET p     == proc[w]
      job   == p.seen
      spec  == Spec_of(p.job, job.anchor)
      run   == due_decision(spec, MissedRun[p.job], job.next, p.time)
      fresh == NewIds(Cardinality(run))
  IN  /\ p.step = "Claim"
      /\ IF ok
           THEN /\ jobs' = [jobs EXCEPT ![p.job] = Advanced(job, next_after(spec, p.time))]
                /\ \E at \in [fresh -> run] :
                     /\ \A a, b \in fresh : a < b => at[a] < at[b]
                     /\ attempts' = [a \in Ids \cup fresh |->
                                       IF a \in Ids THEN attempts[a]
                                       ELSE Claimed(p.job, job.epoch, at[a])]
                /\ inbox' = [a \in Ids \cup fresh |-> IF a \in Ids THEN inbox[a] ELSE "None"]
                /\ Goto(w, IF run = {} THEN Idle("Ready")
                           ELSE WithAttempts("Enqueue", 0, fresh, {}, "none"))
           ELSE /\ Goto(w, Idle("Ready"))
                /\ UNCHANGED <<jobs, attempts, inbox>>
      /\ UNCHANGED <<now, edits, faults>>

\* Mutant: the job is replaced whatever its revision.
claim_any_revision(w) == ClaimUnder(w, Exists(proc[w].job))

claim_job(w) ==
  ClaimUnder(w, Exists(proc[w].job) /\ jobs[proc[w].job].revision = proc[w].seen.revision)

TakeUp(w, a, revision) ==
  Goto(w, WithAttempts("Enqueue", revision, {a}, {}, "none"))

\* Mutant: only a scheduled retry is taken up, never a lapsed claim.
retry_scheduled_only(w, a) ==
  /\ proc[w].step = "Ready"
  /\ attempts[a].state = "RetryScheduled" /\ attempts[a].due = "due"
  /\ Exists(attempts[a].job)
  /\ TakeUp(w, a, attempts[a].revision)
  /\ UNCHANGED <<now, jobs, attempts, inbox, edits, faults>>

\* A lapsed claim is first made a due retry.
retry_due(w, a) ==
  /\ proc[w].step = "Ready"
  /\ attempts[a].state \in {"Claimed", "RetryScheduled"} /\ attempts[a].due = "due"
  /\ Exists(attempts[a].job)
  /\ IF attempts[a].state = "Claimed"
       THEN /\ attempts' = [attempts EXCEPT ![a] = InState(@, "RetryScheduled")]
            /\ TakeUp(w, a, attempts[a].revision + 1)
       ELSE /\ TakeUp(w, a, attempts[a].revision)
            /\ UNCHANGED attempts
  /\ UNCHANGED <<now, jobs, inbox, edits, faults>>

----------------------------------------------------------------------------
(* enqueue_attempt: read the job, submit the action, record the result. *)

\* An error of enqueue_attempt ends the tick, and so the maintenance pass.
ReadJob(w, a) ==
  LET p == proc[w] IN
  /\ p.step = "Enqueue" /\ a \in First(p.todo)
  /\ IF Exists(attempts[a].job)
       THEN Goto(w, WithAttempts("Sink", p.revision, p.todo, p.done, "none"))
       ELSE MaintenanceError(w)
  /\ UNCHANGED <<now, jobs, attempts, inbox, edits, faults>>

\* ScheduledActionSink::enqueue: an action already present is not resubmitted.
SinkAccepts(w, a) ==
  LET p == proc[w] IN
  /\ p.step = "Sink" /\ a \in First(p.todo)
  /\ inbox' = [inbox EXCEPT ![a] = IF @ = "None" THEN "Queued" ELSE @]
  /\ Goto(w, WithAttempts("Record", p.revision, p.todo, p.done, "accepted"))
  /\ UNCHANGED <<now, jobs, attempts, edits, faults>>

SinkRefuses(w, a) ==
  LET p == proc[w] IN
  /\ p.step = "Sink" /\ a \in First(p.todo)
  /\ inbox[a] = "None"
  /\ Fault
  /\ Goto(w, WithAttempts("Record", p.revision, p.todo, p.done, "refused"))
  /\ UNCHANGED <<now, jobs, attempts, inbox, edits>>

\* Mutant: a refused submission is recorded as enqueued.
Recorded_unchecked(att, outcome) == InState(att, "Enqueued")

Recorded(att, outcome) ==
  CASE outcome = "accepted" -> InState(att, "Enqueued")
    [] outcome # "accepted" /\ att.retries < MaxRetries ->
         NextAttempt(att, "RetryScheduled", att.retries + 1, "later")
    [] outcome # "accepted" /\ ~(att.retries < MaxRetries) -> InState(att, "Failed")

\* put_attempt under the revision read; then the next attempt, or the
\* attempts go back to the maintenance pass.
put_attempt(w, a) ==
  LET p == proc[w]
      left == p.todo \ {a}
  IN  /\ p.step = "Record" /\ a \in First(p.todo)
      /\ IF attempts[a].revision = p.revision
           THEN /\ attempts' = [attempts EXCEPT ![a] = Recorded(@, p.outcome)]
                /\ Goto(w, WithAttempts(IF left = {} THEN "Settle" ELSE "Enqueue",
                                     p.revision, left, p.done \cup {a}, "none"))
           ELSE /\ MaintenanceError(w)
                /\ UNCHANGED attempts
      /\ UNCHANGED <<now, jobs, inbox, edits, faults>>

----------------------------------------------------------------------------
(* The rest of the maintenance pass: the attempts tick returned are drained *)
(* and finished one by one.                                                 *)

\* After the session's actions are drained: an action that has not started
\* is cancelled, and only a completed one is a success.
Settle(w, a) ==
  LET p == proc[w] IN
  /\ p.step = "Settle" /\ a \in First(p.done)
  /\ inbox' = [inbox EXCEPT ![a] = IF @ = "Queued" THEN "Cancelled" ELSE @]
  /\ Goto(w, WithAttempts("Finish", p.revision, {}, p.done,
                          IF inbox[a] = "Completed" THEN "succeeded" ELSE "failed"))
  /\ UNCHANGED <<now, jobs, attempts, edits, faults>>

finish_attempt(w, a) ==
  LET p == proc[w]
      j == attempts[a].job
      left == p.done \ {a}
  IN  /\ p.step = "Finish" /\ a \in First(p.done)
      /\ IF attempts[a].state = "Enqueued" /\ (p.outcome = "succeeded" \/ Exists(j))
           THEN /\ attempts' = [attempts EXCEPT ![a] =
                     InState(@, IF p.outcome = "succeeded" THEN "Completed" ELSE "Failed")]
                /\ jobs' = IF p.outcome = "succeeded" THEN jobs
                           ELSE [jobs EXCEPT ![j].revision = @ + 1]
                /\ Goto(w, IF left = {} THEN Idle("Ready")
                           ELSE WithAttempts("Settle", p.revision, {}, left, "none"))
           ELSE /\ MaintenanceError(w)
                /\ UNCHANGED <<jobs, attempts>>
      /\ UNCHANGED <<now, inbox, edits, faults>>

----------------------------------------------------------------------------
(* The environment: time, the action pump, crashes and activation. *)

Tick ==
  /\ now < MaxTime
  /\ now' = now + 1
  /\ UNCHANGED <<jobs, attempts, inbox, proc, edits, faults>>

\* claim_expires or retry_at passes.
Elapses(a) ==
  /\ attempts[a].due = "later" /\ ~attempt_terminal(attempts[a].state)
  /\ attempts' = [attempts EXCEPT ![a].due = "due"]
  /\ UNCHANGED <<now, jobs, inbox, proc, edits, faults>>

\* Some drain of the session takes the action up, and ends it.
PumpStarts(a) ==
  /\ inbox[a] = "Queued"
  /\ inbox' = [inbox EXCEPT ![a] = "Running"]
  /\ UNCHANGED <<now, jobs, attempts, proc, edits, faults>>

PumpEnds(a) ==
  /\ inbox[a] = "Running"
  /\ \E end \in {"Completed", "Failed"} : inbox' = [inbox EXCEPT ![a] = end]
  /\ UNCHANGED <<now, jobs, attempts, proc, edits, faults>>

\* The daemon restarts and adopts the live workers.
expire_stale_claims ==
  LET stale == {a \in Ids : attempts[a].state = "Claimed" /\ attempts[a].due = "due"}
  IN  /\ stale # {}
      /\ Crashes
      /\ Fault
      /\ attempts' = [a \in Ids |->
            IF a \in stale
              THEN InState(attempts[a], "RetryScheduled")
              ELSE attempts[a]]
      /\ UNCHANGED <<now, jobs, inbox, proc, edits>>

Crash(w) ==
  /\ Crashes
  /\ proc[w].step # "Down"
  /\ Fault
  /\ Goto(w, Idle("Down"))
  /\ UNCHANGED <<now, jobs, attempts, inbox, edits>>

\* A client command activates the root's worker again; nothing else does.
StartWorker(w) ==
  /\ proc[w].step = "Down"
  /\ Goto(w, Idle("Ready"))
  /\ UNCHANGED <<now, jobs, attempts, inbox, edits, faults>>

\* A step of the maintenance pass.
Maintain(w) ==
  \/ \E j \in Jobs : BeginClaim(w, j)
  \/ claim_job(w)
  \/ \E a \in Ids : \/ retry_due(w, a)
                   \/ ReadJob(w, a)
                   \/ SinkAccepts(w, a)
                   \/ SinkRefuses(w, a)
                   \/ put_attempt(w, a)
                   \/ Settle(w, a)
                   \/ finish_attempt(w, a)

Next ==
  \/ \E j \in Jobs : create(j) \/ change_state(j) \/ update(j)
  \/ \E w \in Workers, j \in Jobs : BeginDelete(w, j)
  \/ \E w \in Workers : Maintain(w) \/ delete(w) \/ Crash(w) \/ StartWorker(w)
  \/ \E a \in Ids : Elapses(a) \/ PumpStarts(a) \/ PumpEnds(a)
  \/ expire_stale_claims
  \/ Tick

Spec == Init /\ [][Next]_vars

\* Maintenance runs in every live worker each interval, an operation in hand
\* goes on, and clocks run.
MaintainedSpec ==
  /\ Spec
  /\ \A w \in Workers : WF_vars(Maintain(w)) /\ WF_vars(delete(w))
  /\ WF_vars(Tick)
  /\ WF_vars(\E a \in Ids : Elapses(a))

\* Clients also come back to a root whose worker has gone.
ActivatedSpec == MaintainedSpec /\ \A w \in Workers : WF_vars(StartWorker(w))

----------------------------------------------------------------------------
(* Properties. *)

\* Every record has its type; an attempt is never retried more than
\* max_enqueue_retries times (enqueue_attempt), and every attempt has the
\* inbox slot of its action.
TypeOK ==
  /\ now \in 0..MaxTime /\ edits \in 0..MaxEdits /\ faults \in 0..MaxFaults
  /\ jobs \in [Jobs -> JobRecords]
  /\ Ids \subseteq Int
  /\ attempts \in [Ids -> AttemptRecords]
  /\ inbox \in [Ids -> ActionStates]
  /\ proc \in [Workers -> Held]
  /\ \A w \in Workers : proc[w].todo \cup proc[w].done \cup Found(proc[w]) \subseteq Ids

\* No occurrence is claimed twice: two attempts of a job under one version
\* of its schedule are for different times, however the processes that tick
\* it overlap (claim_job replaces the job under the revision it read).
OneOccurrenceOneAttempt ==
  \A a, b \in Ids :
    a # b /\ attempts[a].job = attempts[b].job /\ attempts[a].epoch = attempts[b].epoch
      => attempts[a].at # attempts[b].at

\* A live attempt has its job: delete cancels every attempt that could still
\* be enqueued, also one claimed or retried while the delete was under way.
AttemptHasJob ==
  \A a \in Ids : ~attempt_terminal(attempts[a].state) => Exists(attempts[a].job)

\* An attempt is recorded as enqueued, or as completed, only when its action
\* is in the inbox: a crash or a refusal leaves it to be retried.
EnqueuedIsDurable ==
  \A a \in Ids : attempts[a].state \in {"Enqueued", "Completed"} => inbox[a] # "None"

\* One claim starts at most as many runs as the missed-run policy allows, and
\* leaves none of the occurrences it passed over to be claimed later.
NoCatchUpStorm ==
  [][\A j \in Jobs :
       LET new == {a \in DOMAIN attempts' \ Ids : attempts'[a].job = j}
       IN  new # {} =>
             /\ Cardinality(new) <= IF MissedRun[j].kind = "ReplayBounded" /\ MissedRun[j].max_runs > 1
                                      THEN MissedRun[j].max_runs ELSE 1
             /\ jobs'[j].next = Never \/ \A a \in new : attempts'[a].at < jobs'[j].next]_vars

\* A pause holds until it is resumed or the job deleted: no process that read
\* the job while it was active puts its copy back (put_job, claim_job).
PauseHolds ==
  [][\A j \in Jobs : jobs[j].state = "Paused" /\ edits' = edits
       => jobs'[j].state \in {"Paused", "Deleted"}]_vars

\* Every attempt claimed is in the end enqueued, failed or cancelled, whatever
\* process dies after the claim (retry_due, expire_stale_claims).
ClaimSettles ==
  \A a \in 1..(MaxTime + 1) :
    (a \in Ids /\ ~attempt_terminal(attempts[a].state))
      ~> (a \in Ids /\ attempt_terminal(attempts[a].state))

\* A due occurrence of an active job is in the end claimed.
DueIsClaimed == \A j \in Jobs : Due(j) ~> ~Due(j)
=============================================================================
