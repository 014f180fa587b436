-------------------------- MODULE SchedulerProofs --------------------------
(***************************************************************************)
(* Proofs about Scheduler, for any jobs, schedules, policies, processes    *)
(* and bounds: types, and that a delete leaves no live attempt behind.     *)
(* Every step moves the store in a restricted way (StoreMoves), which      *)
(* keeps the promises of the processes that do not take it; the process    *)
(* that does is looked at action by action.                                *)
(***************************************************************************)
EXTENDS Scheduler, TLAPS

\* An attempt that still can be enqueued.
Live(a) == ~attempt_terminal(attempts[a].state)

\* A process about to record an attempt holds a revision no later than the
\* stored one; while they agree, the attempt is still live.
Recording(w) ==
  proc[w].step \in {"Enqueue", "Sink", "Record"} =>
    \A a \in proc[w].todo : /\ proc[w].revision <= attempts[a].revision
                            /\ proc[w].revision = attempts[a].revision => Live(a)

\* A process about to delete a job has found every live attempt of it, unless
\* the job has changed since.
Deleting(w) ==
  proc[w].step = "Delete" =>
    /\ proc[w].job \in Jobs
    /\ jobs[proc[w].job].state # "None"
    /\ proc[w].revision <= jobs[proc[w].job].revision
    /\ proc[w].revision = jobs[proc[w].job].revision =>
         \A a \in Ids : attempts[a].job = proc[w].job /\ Live(a) => a \in Found(proc[w])

\* A process about to claim a job read it when it was active.
Claiming(w) ==
  proc[w].step = "Claim" => proc[w].job \in Jobs /\ proc[w].seen.state = "Active"

\* What a process holds refers to existing attempts.
Referring(w) == proc[w].todo \cup proc[w].done \cup Found(proc[w]) \subseteq Ids

Promises(w) == Recording(w) /\ Deleting(w) /\ Claiming(w) /\ Referring(w)

\* The types of the store and of the processes.
BoundsOK == now \in 0..MaxTime /\ edits \in 0..MaxEdits /\ faults \in 0..MaxFaults
JobsOK == jobs \in [Jobs -> JobRecords]
AttemptsOK == Ids \subseteq Int /\ attempts \in [Ids -> AttemptRecords]
InboxOK == inbox \in [Ids -> ActionStates]
ProcOK == proc \in [Workers -> Held]
StoreOK == BoundsOK /\ JobsOK /\ AttemptsOK /\ InboxOK

SchedInv ==
  /\ StoreOK
  /\ ProcOK
  /\ AttemptHasJob
  /\ \A w \in Workers : Promises(w)

\* What any step may do to the store: a job that exists or existed keeps its
\* record and its revision does not go back; an attempt never comes back to
\* life and its revision grows when it settles; a new attempt changes the
\* revision of its job.
JobsMove ==
  \A j \in Jobs : jobs[j].state # "None" =>
    jobs'[j].state # "None" /\ jobs[j].revision <= jobs'[j].revision

AttemptsMove ==
  /\ Ids \subseteq Ids'
  /\ \A a \in Ids : /\ attempts'[a].job = attempts[a].job
                    /\ attempts[a].revision <= attempts'[a].revision
                    /\ Live(a)' => Live(a)
                    /\ attempts[a].revision = attempts'[a].revision => (Live(a) => Live(a)')
  /\ \A a \in Ids' \ Ids : jobs[attempts'[a].job].revision < jobs'[attempts'[a].job].revision

StoreMoves == StoreOK' /\ JobsMove /\ AttemptsMove

----------------------------------------------------------------------------
(* The constants. *)

\* The bounds are natural numbers.
LEMMA BoundConstants == /\ MaxRetries \in Nat /\ MaxTime \in Nat
                        /\ MaxEdits \in Nat /\ MaxFaults \in Nat
BY SchedulerAssumption

\* A job's schedule and its policy for missed runs.
LEMMA JobConstants ==
  ASSUME NEW j \in Jobs
  PROVE  /\ Schedule[j].kind \in {"Once", "Interval"}
         /\ Schedule[j].every \in Nat \ {0} /\ Schedule[j].at \in Nat
         /\ MissedRun[j].kind \in {"Skip", "RunOnce", "ReplayBounded"}
BY SchedulerAssumption

----------------------------------------------------------------------------
(* Arithmetic: what the schedule functions return. *)

\* initial_run of a job's schedule is a time.
LEMMA InitialRunType ==
  ASSUME NEW j \in Jobs, NEW anchor \in Nat, NEW t \in Nat
  PROVE  initial_run(Spec_of(j, anchor), t) \in Int
<1>1. CASE Schedule[j].kind = "Once"
  BY <1>1, JobConstants DEF initial_run, Spec_of
<1>2. CASE Schedule[j].kind = "Interval"
  <2>1. (t - anchor + (Schedule[j].every - 1)) \div Schedule[j].every \in Int
    BY JobConstants
  <2>2. QED BY <1>2, <2>1, JobConstants DEF initial_run, Spec_of
<1>3. QED BY <1>1, <1>2, JobConstants

\* next_after of a job's schedule is a time or Never.
LEMMA NextAfterType ==
  ASSUME NEW j \in Jobs, NEW anchor \in Nat, NEW t \in Nat
  PROVE  next_after(Spec_of(j, anchor), t) \in Int
<1>1. ((t - anchor) \div Schedule[j].every) \in Int
  BY JobConstants
<1>2. QED BY <1>1, JobConstants DEF next_after, Spec_of, Never

\* A claim runs times between the occurrence due and now.
LEMMA DecisionType ==
  ASSUME NEW s, NEW missed, NEW first \in Int, NEW t \in Int,
         missed.kind \in {"Skip", "RunOnce", "ReplayBounded"}
  PROVE  due_decision(s, missed, first, t) \subseteq Int
<1>1. due_occurrences(s, first, t) \subseteq Int
  BY DEF due_occurrences
<1>2. Earliest(missed.max_runs, due_occurrences(s, first, t)) \subseteq Int
  BY <1>1 DEF Earliest
<1>3. QED BY <1>1, <1>2 DEF due_decision

----------------------------------------------------------------------------
(* The processes that do not take a step. *)

USE DEF Ids

\* A move of the store keeps what another process relies on.
LEMMA OthersKeepPromises ==
  ASSUME SchedInv, StoreMoves, NEW v \in Workers, proc'[v] = proc[v]
  PROVE  Promises(v)'
<1>1. StoreOK /\ StoreOK' /\ ProcOK /\ Promises(v)
  BY DEF SchedInv, StoreMoves
<1>2. Referring(v)'
  BY <1>1 DEF StoreMoves, AttemptsMove, Promises, Referring, Found
<1>3. Claiming(v)'
  BY <1>1 DEF Promises, Claiming
<1>4. Recording(v)'
  <2>1. SUFFICES ASSUME proc[v].step \in {"Enqueue", "Sink", "Record"}, NEW a \in proc[v].todo
                 PROVE  /\ proc[v].revision <= attempts'[a].revision
                        /\ proc[v].revision = attempts'[a].revision => Live(a)'
    BY DEF Recording, Live
  <2>2. a \in Ids /\ proc[v].revision \in Nat /\ attempts[a].revision \in Nat
    BY <1>1 DEF Promises, Referring, ProcOK, Held, StoreOK, AttemptsOK, AttemptRecords
  <2>3. attempts'[a].revision \in Nat
    BY <1>1, <2>2 DEF StoreMoves, AttemptsMove, StoreOK, AttemptsOK, AttemptRecords
  <2>4. /\ proc[v].revision <= attempts[a].revision
        /\ proc[v].revision = attempts[a].revision => Live(a)
    BY <1>1, <2>1 DEF Promises, Recording
  <2>5. /\ attempts[a].revision <= attempts'[a].revision
        /\ attempts[a].revision = attempts'[a].revision => (Live(a) => Live(a)')
    BY <2>2 DEF StoreMoves, AttemptsMove
  <2>6. QED BY <2>2, <2>3, <2>4, <2>5
<1>5. Deleting(v)'
  <2> DEFINE j == proc[v].job
  <2>1. SUFFICES ASSUME proc[v].step = "Delete"
                 PROVE  /\ j \in Jobs
                        /\ jobs'[j].state # "None"
                        /\ proc[v].revision <= jobs'[j].revision
                        /\ proc[v].revision = jobs'[j].revision =>
                             \A a \in Ids' : attempts'[a].job = j /\ Live(a)' => a \in Found(proc[v])
    BY DEF Deleting, Found
  <2>2. /\ j \in Jobs /\ jobs[j].state # "None" /\ proc[v].revision <= jobs[j].revision
        /\ proc[v].revision = jobs[j].revision =>
             \A a \in Ids : attempts[a].job = j /\ Live(a) => a \in Found(proc[v])
    BY <1>1, <2>1 DEF Promises, Deleting
  <2>3. proc[v].revision \in Nat /\ jobs[j].revision \in Nat /\ jobs'[j].revision \in Nat
    BY <1>1, <2>2 DEF ProcOK, Held, StoreOK, JobsOK, JobRecords
  <2>4. jobs'[j].state # "None" /\ jobs[j].revision <= jobs'[j].revision
    BY <2>2 DEF StoreMoves, JobsMove
  <2>5. ASSUME proc[v].revision = jobs'[j].revision, NEW a \in Ids',
               attempts'[a].job = j, Live(a)'
        PROVE  a \in Found(proc[v])
    <3>1. jobs[j].revision = jobs'[j].revision
      BY <2>2, <2>3, <2>4, <2>5
    <3>2. a \in Ids
      BY <2>3, <2>5, <3>1 DEF StoreMoves, AttemptsMove
    <3>3. attempts[a].job = j /\ Live(a)
      BY <2>5, <3>2 DEF StoreMoves, AttemptsMove
    <3>4. QED BY <2>2, <2>5, <3>1, <3>2, <3>3
  <2>6. QED BY <2>2, <2>3, <2>4, <2>5
<1>6. QED BY <1>2, <1>3, <1>4, <1>5 DEF Promises

\* A step of process w that leaves it holding q.
LEMMA ProcessStep ==
  ASSUME SchedInv, StoreMoves, AttemptHasJob', NEW w \in Workers, NEW q \in Held,
         proc' = [proc EXCEPT ![w] = q], Promises(w)'
  PROVE  SchedInv'
<1>1. ProcOK'
  BY DEF SchedInv, ProcOK
<1>2. ASSUME NEW v \in Workers PROVE Promises(v)'
  <2>1. CASE v = w
    BY <2>1
  <2>2. CASE v # w
    BY <2>2, OthersKeepPromises DEF SchedInv, ProcOK
  <2>3. QED BY <2>1, <2>2
<1>3. QED BY <1>1, <1>2 DEF SchedInv, StoreMoves

\* A step of the environment.
LEMMA EnvironmentStep ==
  ASSUME SchedInv, StoreMoves, AttemptHasJob', proc' = proc
  PROVE  SchedInv'
<1>1. ProcOK'
  BY DEF SchedInv, ProcOK
<1>2. ASSUME NEW v \in Workers PROVE Promises(v)'
  BY OthersKeepPromises
<1>3. QED BY <1>1, <1>2 DEF SchedInv, StoreMoves

\* What a process starts a new operation with.
LEMMA IdleHeld ==
  ASSUME NEW step \in Steps
  PROVE  /\ Idle(step) \in Held /\ Idle(step).step = step /\ Idle(step).revision = 0
         /\ Idle(step).todo = {} /\ Idle(step).done = {} /\ Idle(step).cancel = {}
BY DEF Idle, Holding, Held, NoSuchJob, Never, JobRecords, JobStates

\* What a process that has attempts to enqueue holds.
LEMMA EnqueueHeld ==
  ASSUME NEW n \in Nat, NEW todo, todo \subseteq Int
  PROVE  /\ WithAttempts("Enqueue", n, todo, {}, "none") \in Held
         /\ WithAttempts("Enqueue", n, todo, {}, "none").step = "Enqueue"
         /\ WithAttempts("Enqueue", n, todo, {}, "none").todo = todo
         /\ WithAttempts("Enqueue", n, todo, {}, "none").done = {}
         /\ WithAttempts("Enqueue", n, todo, {}, "none").revision = n
         /\ WithAttempts("Enqueue", n, todo, {}, "none").cancel = {}
BY DEF WithAttempts, Holding, Held, Steps, NoSuchJob, Never, JobRecords, JobStates

\* An attempt in its next revision and another state.
LEMMA InStateFacts ==
  ASSUME NEW att \in AttemptRecords, NEW state \in AttemptStates
  PROVE  /\ InState(att, state) \in AttemptRecords
         /\ InState(att, state).job = att.job
         /\ InState(att, state).revision = att.revision + 1
         /\ InState(att, state).state = state
         /\ att.revision \in Nat
BY DEF InState, NextAttempt, AttemptRecords

\* The attempt a claim makes.
LEMMA ClaimedFacts ==
  ASSUME NEW j \in Jobs, NEW epoch \in Nat, NEW at \in Int
  PROVE  /\ Claimed(j, epoch, at) \in AttemptRecords
         /\ Claimed(j, epoch, at).job = j
         /\ Claimed(j, epoch, at).revision = 0
         /\ ~attempt_terminal(Claimed(j, epoch, at).state)
BY BoundConstants DEF Claimed, AttemptRecords, AttemptStates, attempt_terminal

\* An attempt after its submission was accepted or refused.
LEMMA RecordedFacts ==
  ASSUME NEW att \in AttemptRecords, NEW outcome
  PROVE  /\ Recorded(att, outcome) \in AttemptRecords
         /\ Recorded(att, outcome).job = att.job
         /\ Recorded(att, outcome).revision = att.revision + 1
<1>1. CASE outcome = "accepted"
  BY <1>1, InStateFacts DEF Recorded, AttemptStates
<1>2. CASE outcome # "accepted" /\ att.retries < MaxRetries
  BY <1>2, BoundConstants DEF Recorded, NextAttempt, AttemptRecords, AttemptStates
<1>3. CASE outcome # "accepted" /\ ~(att.retries < MaxRetries)
  BY <1>3, InStateFacts DEF Recorded, AttemptStates
<1>4. QED BY <1>1, <1>2, <1>3

\* A job after a claim.
LEMMA AdvancedFacts ==
  ASSUME NEW job \in JobRecords, job.state = "Active", NEW next \in Int
  PROVE  /\ Advanced(job, next) \in JobRecords
         /\ Advanced(job, next).revision = job.revision + 1
         /\ Advanced(job, next).state \in {"Active", "Completed"}
BY DEF Advanced, NextJob, JobRecords, JobStates

\* The identities a claim draws are new.
LEMMA NewIdsFresh ==
  ASSUME NEW n
  PROVE  NewIds(n) \subseteq Int \ Ids
BY DEF NewIds

\* A process with nothing in hand promises nothing.
LEMMA IdleStep ==
  ASSUME SchedInv, StoreMoves, AttemptHasJob', NEW w \in Workers, NEW step \in {"Down", "Ready"},
         proc' = [proc EXCEPT ![w] = Idle(step)]
  PROVE  SchedInv'
<1>1. Idle(step) \in Held
  BY DEF Idle, Holding, Held, Steps, NoSuchJob, Never, JobRecords, JobStates
<1>2. proc'[w] = Idle(step)
  BY DEF SchedInv, ProcOK
<1>3. Promises(w)'
  BY <1>2 DEF Promises, Recording, Deleting, Claiming, Referring, Found, Idle, Holding
<1>4. QED BY <1>1, <1>3, ProcessStep

----------------------------------------------------------------------------
(* The store under each kind of write. *)

\* Nothing is written to jobs or attempts.
LEMMA StoreKept ==
  ASSUME SchedInv, UNCHANGED <<jobs, attempts>>, BoundsOK', InboxOK'
  PROVE  StoreMoves /\ AttemptHasJob'
<1>1. StoreOK'
  BY DEF SchedInv, StoreOK, JobsOK, AttemptsOK
<1>2. JobsMove
  BY DEF JobsMove, SchedInv, StoreOK, JobsOK, JobRecords
<1>3. AttemptsMove
  BY DEF AttemptsMove, SchedInv, StoreOK, AttemptsOK, AttemptRecords, Live
<1>4. AttemptHasJob'
  BY DEF SchedInv, AttemptHasJob, Exists
<1>5. QED BY <1>1, <1>2, <1>3, <1>4 DEF StoreMoves

\* One job is replaced under a later revision and goes on existing.
LEMMA JobReplaced ==
  ASSUME SchedInv, NEW j \in Jobs, NEW job \in JobRecords,
         jobs' = [jobs EXCEPT ![j] = job],
         jobs[j].state # "None" => jobs[j].revision <= job.revision,
         job.state \notin {"None", "Deleted"},
         UNCHANGED <<attempts, inbox>>, BoundsOK'
  PROVE  StoreMoves /\ AttemptHasJob'
<1>1. StoreOK'
  BY DEF SchedInv, StoreOK, JobsOK, AttemptsOK, InboxOK
<1>2. JobsMove
  BY DEF JobsMove, SchedInv, StoreOK, JobsOK, JobRecords
<1>3. AttemptsMove
  BY DEF AttemptsMove, SchedInv, StoreOK, AttemptsOK, AttemptRecords, Live
<1>4. AttemptHasJob'
  BY DEF SchedInv, AttemptHasJob, Exists, StoreOK, JobsOK
<1>5. QED BY <1>1, <1>2, <1>3, <1>4 DEF StoreMoves

\* One attempt is replaced under a later revision, live only if it was.
LEMMA AttemptReplaced ==
  ASSUME SchedInv, NEW a \in Ids, NEW att \in AttemptRecords,
         attempts' = [attempts EXCEPT ![a] = att],
         att.job = attempts[a].job,
         att.revision = attempts[a].revision + 1,
         ~attempt_terminal(att.state) => Live(a),
         JobsOK', JobsMove, \A k \in Jobs : Exists(k) => Exists(k)',
         UNCHANGED inbox, BoundsOK'
  PROVE  StoreMoves /\ AttemptHasJob'
<1>1. JobsOK /\ AttemptsOK /\ InboxOK /\ AttemptHasJob
  BY DEF SchedInv, StoreOK
<1>2. StoreOK'
  BY <1>1 DEF StoreOK, AttemptsOK, InboxOK
<1>4. attempts[a].revision \in Nat
  BY <1>1 DEF AttemptsOK, AttemptRecords
<1>5. ASSUME NEW b \in Ids
      PROVE  /\ attempts'[b].job = attempts[b].job
             /\ attempts[b].revision <= attempts'[b].revision
             /\ Live(b)' => Live(b)
             /\ attempts[b].revision = attempts'[b].revision => (Live(b) => Live(b)')
  <2>1. CASE b = a
    BY <1>1, <1>4, <2>1 DEF Live, AttemptsOK
  <2>2. CASE b # a
    BY <1>1, <2>2 DEF Live, AttemptsOK, AttemptRecords
  <2>3. QED BY <2>1, <2>2
<1>6. Ids' = Ids
  BY <1>1 DEF AttemptsOK
<1>7. AttemptsMove
  BY <1>5, <1>6 DEF AttemptsMove
<1>8. ASSUME NEW b \in Ids', Live(b)' PROVE Exists(attempts[b].job)'
  <2>1. b \in Ids /\ Live(b) /\ attempts'[b].job = attempts[b].job
    BY <1>5, <1>6, <1>8
  <2>2. attempts[b].job \in Jobs /\ Exists(attempts[b].job)
    BY <1>1, <2>1 DEF AttemptHasJob, Live, AttemptsOK, AttemptRecords
  <2>3. QED BY <2>1, <2>2 DEF Exists
<1>9. QED BY <1>2, <1>7, <1>8 DEF StoreMoves, AttemptHasJob, Live

\* No job is written.
LEMMA JobsKept ==
  ASSUME SchedInv, UNCHANGED jobs
  PROVE  JobsOK' /\ JobsMove /\ \A k \in Jobs : Exists(k) => Exists(k)'
BY DEF SchedInv, StoreOK, JobsOK, JobsMove, JobRecords, Exists

----------------------------------------------------------------------------
(* Administration. *)

\* create stores a job that was missing.
LEMMA CreateStep ==
  ASSUME SchedInv, NEW j \in Jobs, create(j)
  PROVE  SchedInv'
<1> DEFINE job == [state |-> "Active", next |-> initial_run(Spec_of(j, now), now),
                   anchor |-> now, revision |-> 0, epoch |-> 0]
<1>1. now \in Nat /\ BoundsOK'
  BY DEF SchedInv, StoreOK, BoundsOK, create
<1>2. job \in JobRecords
  BY <1>1, InitialRunType DEF JobRecords, JobStates
<1>3. jobs' = [jobs EXCEPT ![j] = job] /\ UNCHANGED <<attempts, inbox, proc>>
      /\ jobs[j].state = "None"
  BY DEF create
<1>4. job.state = "Active"
  OBVIOUS
<1> HIDE DEF job
<1>5. StoreMoves /\ AttemptHasJob'
  BY <1>1, <1>2, <1>3, <1>4, JobReplaced
<1>6. QED BY <1>3, <1>5, EnvironmentStep

\* change_state and update replace an existing job under its next revision.
LEMMA EditStep ==
  ASSUME SchedInv, NEW j \in Jobs, NEW job \in JobRecords, Edited(j, job),
         job.state \in {"Active", "Paused"}, job.revision = jobs[j].revision + 1
  PROVE  SchedInv'
<1>1. BoundsOK' /\ jobs[j].revision \in Nat
  BY BoundConstants DEF SchedInv, StoreOK, BoundsOK, JobsOK, JobRecords, Edited
<1>2. jobs' = [jobs EXCEPT ![j] = job] /\ UNCHANGED <<attempts, inbox, proc>>
  BY DEF Edited
<1>3. jobs[j].revision <= job.revision /\ job.state \notin {"None", "Deleted"}
  BY <1>1
<1>4. StoreMoves /\ AttemptHasJob'
  BY <1>1, <1>2, <1>3, JobReplaced
<1>5. QED BY <1>2, <1>4, EnvironmentStep

\* change_state: pause and resume.
LEMMA ChangeStateStep ==
  ASSUME SchedInv, NEW j \in Jobs, change_state(j)
  PROVE  SchedInv'
<1> DEFINE job == NextJob(jobs[j], IF jobs[j].state = "Active" THEN "Paused" ELSE "Active",
                          jobs[j].next, jobs[j].anchor, jobs[j].epoch)
<1>1. jobs[j] \in JobRecords
  BY DEF SchedInv, StoreOK, JobsOK
<1>2. /\ job \in JobRecords /\ job.state \in {"Active", "Paused"}
      /\ job.revision = jobs[j].revision + 1
  BY <1>1 DEF JobRecords, JobStates, NextJob
<1>3. Edited(j, job)
  BY DEF change_state
<1> HIDE DEF job
<1>4. QED BY <1>2, <1>3, EditStep

\* update, with or without a new schedule.
LEMMA UpdateStep ==
  ASSUME SchedInv, NEW j \in Jobs, update(j)
  PROVE  SchedInv'
<1> DEFINE next == initial_run(Spec_of(j, now), now)
           timed == NextJob(jobs[j], jobs[j].state, next, now, jobs[j].epoch + 1)
           plain == NextJob(jobs[j], jobs[j].state, jobs[j].next, jobs[j].anchor, jobs[j].epoch)
<1>1. now \in Nat /\ jobs[j] \in JobRecords /\ jobs[j].state \in {"Active", "Paused"}
  BY DEF SchedInv, StoreOK, BoundsOK, JobsOK, update
<1>2. next \in Int
  BY <1>1, InitialRunType
<1>3. Edited(j, timed) \/ Edited(j, plain)
  BY DEF update
<1> HIDE DEF next
<1>4. /\ timed \in JobRecords /\ timed.state \in {"Active", "Paused"}
      /\ timed.revision = jobs[j].revision + 1
  BY <1>1, <1>2 DEF JobRecords, NextJob
<1>5. /\ plain \in JobRecords /\ plain.state \in {"Active", "Paused"}
      /\ plain.revision = jobs[j].revision + 1
  BY <1>1 DEF JobRecords, NextJob
<1> HIDE DEF timed, plain
<1>6. QED BY <1>3, <1>4, <1>5, EditStep

\* delete reads the job and its live attempts.
LEMMA BeginDeleteStep ==
  ASSUME SchedInv, NEW w \in Workers, NEW j \in Jobs, BeginDelete(w, j)
  PROVE  SchedInv'
<1> DEFINE found == {<<a, attempts[a].revision>> : a \in Unsettled(j)}
           q == ToDelete(j, found)
<1>1. StoreOK /\ jobs[j].revision \in Nat
  BY DEF SchedInv, StoreOK, JobsOK, JobRecords
<1>2. found \subseteq Int \X Nat
  BY <1>1 DEF StoreOK, AttemptsOK, AttemptRecords, Unsettled
<1>3. Unsettled(j) = {c[1] : c \in found}
  <2>1. ASSUME NEW a \in Unsettled(j) PROVE \E c \in found : a = c[1]
    <3>1. <<a, attempts[a].revision>> \in found
      OBVIOUS
    <3>2. QED BY <3>1
  <2>2. ASSUME NEW c \in found PROVE c[1] \in Unsettled(j)
    OBVIOUS
  <2>3. QED BY <2>1, <2>2
<1>4. /\ proc' = [proc EXCEPT ![w] = q] /\ UNCHANGED <<now, jobs, attempts, inbox, edits, faults>>
      /\ Exists(j)
  BY DEF BeginDelete, Goto
<1> HIDE DEF found
<1>5. /\ q \in Held /\ q.step = "Delete" /\ q.job = j /\ q.revision = jobs[j].revision
      /\ q.todo = {} /\ q.done = {} /\ q.cancel = found
  BY <1>1, <1>2 DEF ToDelete, Holding, Held, Steps, NoSuchJob, Never, JobRecords, JobStates
<1> HIDE DEF q
<1>6. StoreMoves /\ AttemptHasJob'
  BY <1>1, <1>4, StoreKept DEF StoreOK, BoundsOK, InboxOK
<1>7. proc'[w] = q
  BY <1>4 DEF SchedInv, ProcOK
<1>8. Found(q) = Unsettled(j)
  BY <1>3, <1>5 DEF Found
<1>9. Recording(w)' /\ Claiming(w)'
  BY <1>5, <1>7 DEF Recording, Claiming
<1>10. Referring(w)' /\ Deleting(w)'
  <2>1. Found(proc'[w]) = Unsettled(j)
    BY <1>7, <1>8
  <2>2. Referring(w)'
    BY <1>4, <1>5, <1>7, <2>1 DEF Referring, Unsettled
  <2>3. jobs' = jobs /\ attempts' = attempts /\ jobs[j].state # "None" /\ jobs[j].revision \in Nat
    BY <1>1, <1>4 DEF Exists, StoreOK, JobsOK, JobRecords
  <2>4. Deleting(w)'
    BY <1>1, <1>5, <1>7, <2>1, <2>3 DEF Deleting, Unsettled, Live
  <2>5. QED BY <2>2, <2>4
<1>11. QED BY <1>4, <1>5, <1>6, <1>9, <1>10, ProcessStep DEF Promises

\* The transaction of delete: every live attempt of the job is cancelled with
\* it, because the job's revision says that none has been added.
LEMMA DeleteStep ==
  ASSUME SchedInv, NEW w \in Workers, delete(w)
  PROVE  SchedInv'
<1> DEFINE p == proc[w]
           j == proc[w].job
           Committed == /\ Exists(j) /\ jobs[j].revision = p.revision
                        /\ \A a \in Found(p) : <<a, attempts[a].revision>> \in p.cancel
<1>1. StoreOK /\ Promises(w) /\ AttemptHasJob /\ p \in Held /\ p.step = "Delete"
  BY DEF SchedInv, ProcOK, delete
<1>2. /\ j \in Jobs /\ jobs[j].state # "None"
      /\ p.revision = jobs[j].revision =>
           \A a \in Ids : attempts[a].job = j /\ Live(a) => a \in Found(p)
  BY <1>1 DEF Promises, Deleting
<1>3. proc' = [proc EXCEPT ![w] = Idle("Ready")] /\ UNCHANGED <<now, inbox, edits, faults>>
  BY DEF delete, Goto
<1>4. BoundsOK' /\ BoundsOK
  BY <1>1, <1>3 DEF StoreOK, BoundsOK
<1>5. CASE ~Committed
  <2>1. UNCHANGED <<jobs, attempts>>
    BY <1>5 DEF delete
  <2>2. StoreMoves /\ AttemptHasJob'
    BY <1>1, <1>3, <1>4, <2>1, StoreKept DEF StoreOK, InboxOK
  <2>3. QED BY <1>3, <2>2, IdleStep
<1>6. CASE Committed
  <2>1. /\ jobs' = [jobs EXCEPT ![j].state = "Deleted"]
        /\ attempts' = [a \in Ids |-> IF a \in Found(p) THEN InState(attempts[a], "Cancelled")
                                      ELSE attempts[a]]
    BY <1>6 DEF delete
  <2>2. ASSUME NEW a \in Ids
        PROVE  /\ attempts'[a] \in AttemptRecords
               /\ attempts'[a].job = attempts[a].job
               /\ attempts[a].revision <= attempts'[a].revision
               /\ Live(a)' => Live(a) /\ a \notin Found(p)
               /\ attempts[a].revision = attempts'[a].revision => (Live(a) => Live(a)')
    <3>1. attempts[a] \in AttemptRecords
      BY <1>1 DEF StoreOK, AttemptsOK
    <3>2. CASE a \in Found(p)
      <4>1. attempts'[a] = InState(attempts[a], "Cancelled")
        BY <2>1, <3>2
      <4>2. "Cancelled" \in AttemptStates
        BY DEF AttemptStates
      <4>3. /\ attempts'[a] \in AttemptRecords /\ attempts'[a].job = attempts[a].job
            /\ attempts'[a].revision = attempts[a].revision + 1
            /\ attempts'[a].state = "Cancelled" /\ attempts[a].revision \in Nat
        BY <3>1, <4>1, <4>2, InStateFacts
      <4>4. ~Live(a)'
        BY <4>3 DEF Live, attempt_terminal
      <4>5. QED BY <4>3, <4>4
    <3>3. CASE a \notin Found(p)
      <4>1. attempts'[a] = attempts[a]
        BY <2>1, <3>3
      <4>2. QED BY <3>1, <3>3, <4>1 DEF Live, AttemptRecords
    <3>4. QED BY <3>2, <3>3
  <2>3. Ids' = Ids /\ AttemptsOK'
    BY <1>1, <2>1, <2>2 DEF AttemptsOK, StoreOK
  <2>4. ASSUME NEW k \in Jobs
        PROVE  /\ jobs'[k] \in JobRecords /\ jobs'[k].revision = jobs[k].revision
               /\ k # j => jobs'[k] = jobs[k]
               /\ k = j => jobs'[k].state = "Deleted"
    <3>1. jobs[k] \in JobRecords
      BY <1>1 DEF StoreOK, JobsOK
    <3>2. QED BY <1>1, <1>2, <2>1, <3>1 DEF StoreOK, JobsOK, JobRecords, JobStates
  <2>5. JobsOK' /\ InboxOK'
    BY <1>1, <1>3, <2>1, <2>3, <2>4 DEF StoreOK, JobsOK, InboxOK
  <2>6. JobsMove
    BY <1>1, <2>4 DEF JobsMove, StoreOK, JobsOK, JobRecords
  <2>7. AttemptsMove
    BY <2>2, <2>3 DEF AttemptsMove
  <2>8. ASSUME NEW a \in Ids', Live(a)'
        PROVE  Exists(attempts[a].job)'
    <3>1. a \in Ids /\ Live(a) /\ a \notin Found(p) /\ attempts'[a].job = attempts[a].job
      BY <2>2, <2>3, <2>8
    <3>2. attempts[a].job # j
      BY <1>2, <1>6, <3>1
    <3>3. attempts[a].job \in Jobs /\ Exists(attempts[a].job)
      BY <1>1, <3>1 DEF AttemptHasJob, Live, StoreOK, AttemptsOK, AttemptRecords
    <3>4. QED BY <2>4, <3>1, <3>2, <3>3 DEF Exists
  <2>9. StoreMoves /\ AttemptHasJob'
    BY <1>4, <2>3, <2>5, <2>6, <2>7, <2>8 DEF StoreMoves, StoreOK, AttemptHasJob, Live
  <2>10. QED BY <1>3, <2>9, IdleStep
<1>7. QED BY <1>5, <1>6

----------------------------------------------------------------------------
(* tick. *)

\* tick reads a due job.
LEMMA BeginClaimStep ==
  ASSUME SchedInv, NEW w \in Workers, NEW j \in Jobs, BeginClaim(w, j)
  PROVE  SchedInv'
<1> DEFINE q == ToClaim(j)
<1>1. StoreOK /\ now \in Nat /\ jobs[j] \in JobRecords
  BY DEF SchedInv, StoreOK, BoundsOK, JobsOK
<1>2. /\ proc' = [proc EXCEPT ![w] = q] /\ UNCHANGED <<now, jobs, attempts, inbox, edits, faults>>
      /\ jobs[j].state = "Active"
  BY DEF BeginClaim, Goto, Due
<1>3. /\ q \in Held /\ q.step = "Claim" /\ q.job = j /\ q.seen = jobs[j]
      /\ q.todo = {} /\ q.done = {} /\ q.cancel = {}
  BY <1>1 DEF ToClaim, Holding, Held, Steps
<1> HIDE DEF q
<1>4. StoreMoves /\ AttemptHasJob'
  BY <1>1, <1>2, StoreKept DEF StoreOK, BoundsOK, InboxOK
<1>5. proc'[w] = q
  BY <1>2 DEF SchedInv, ProcOK
<1>6. Promises(w)'
  BY <1>2, <1>3, <1>5 DEF Promises, Recording, Deleting, Claiming, Referring, Found
<1>7. QED BY <1>2, <1>3, <1>4, <1>6, ProcessStep

\* The transaction of claim_job: new live attempts come with a new revision
\* of an existing job.
LEMMA ClaimStep ==
  ASSUME SchedInv, NEW w \in Workers, claim_job(w)
  PROVE  SchedInv'
<1> DEFINE p == proc[w]
           j == proc[w].job
           spec == Spec_of(j, p.seen.anchor)
           run == due_decision(spec, MissedRun[j], p.seen.next, p.time)
           fresh == NewIds(Cardinality(run))
           next == next_after(spec, p.time)
           ok == Exists(j) /\ jobs[j].revision = p.seen.revision
           q == IF run = {} THEN Idle("Ready") ELSE WithAttempts("Enqueue", 0, fresh, {}, "none")
<1>1. StoreOK /\ Promises(w) /\ AttemptHasJob /\ p \in Held /\ p.step = "Claim"
  BY DEF SchedInv, ProcOK, claim_job, ClaimUnder
<1>2. j \in Jobs /\ p.seen.state = "Active" /\ p.seen \in JobRecords /\ p.time \in Nat
  BY <1>1 DEF Promises, Claiming, Held
<1>3. UNCHANGED <<now, edits, faults>> /\ BoundsOK' /\ BoundsOK
  BY <1>1 DEF claim_job, ClaimUnder, StoreOK, BoundsOK
<1>4. CASE ~ok
  <2>1. UNCHANGED <<jobs, attempts, inbox>> /\ proc' = [proc EXCEPT ![w] = Idle("Ready")]
    BY <1>4 DEF claim_job, ClaimUnder, Goto
  <2>2. StoreMoves /\ AttemptHasJob'
    BY <1>1, <1>3, <2>1, StoreKept DEF StoreOK, InboxOK
  <2>3. QED BY <2>1, <2>2, IdleStep
<1>5. CASE ok
  <2>1. next \in Int
    BY <1>2, NextAfterType DEF JobRecords
  <2>2. run \subseteq Int
    <3>1. p.seen.next \in Int /\ p.time \in Int
      BY <1>2 DEF JobRecords
    <3>2. MissedRun[j].kind \in {"Skip", "RunOnce", "ReplayBounded"}
      BY <1>2, JobConstants
    <3>3. QED BY <3>1, <3>2, DecisionType
  <2>3. /\ jobs' = [jobs EXCEPT ![j] = Advanced(p.seen, next)]
        /\ inbox' = [a \in Ids \cup fresh |-> IF a \in Ids THEN inbox[a] ELSE "None"]
        /\ proc' = [proc EXCEPT ![w] = q]
        /\ \E at \in [fresh -> run] :
             attempts' = [a \in Ids \cup fresh |-> IF a \in Ids THEN attempts[a]
                                                   ELSE Claimed(j, p.seen.epoch, at[a])]
    BY <1>5 DEF claim_job, ClaimUnder, Goto
  <2>4. PICK at \in [fresh -> run] :
             attempts' = [a \in Ids \cup fresh |-> IF a \in Ids THEN attempts[a]
                                                   ELSE Claimed(j, p.seen.epoch, at[a])]
    BY <2>3
  <2>5. fresh \subseteq Int \ Ids
    BY NewIdsFresh
  <2>6. fresh \subseteq Int
    BY <2>5
  <2> HIDE DEF next, run, fresh
  <2>7. Ids' = Ids \cup fresh
    BY <2>4
  <2>8. /\ Advanced(p.seen, next) \in JobRecords
        /\ Advanced(p.seen, next).revision = jobs[j].revision + 1
        /\ Advanced(p.seen, next).state \in {"Active", "Completed"}
    <3>1. p.seen \in JobRecords /\ p.seen.revision = jobs[j].revision
      BY <1>2, <1>5
    <3>2. QED BY <1>2, <2>1, <3>1, AdvancedFacts
  <2>9. ASSUME NEW a \in fresh
        PROVE  /\ attempts'[a] \in AttemptRecords /\ attempts'[a].job = j
               /\ attempts'[a].revision = 0 /\ Live(a)'
    <3>1. at[a] \in Int
      BY <2>2
    <3>2. attempts'[a] = Claimed(j, p.seen.epoch, at[a])
      BY <2>4, <2>5
    <3>3. p.seen.epoch \in Nat
      BY <1>2 DEF JobRecords
    <3>4. QED BY <1>2, <3>1, <3>2, <3>3, ClaimedFacts DEF Live
  <2>10. ASSUME NEW a \in Ids PROVE attempts'[a] = attempts[a] /\ attempts[a] \in AttemptRecords
    BY <1>1, <2>4 DEF StoreOK, AttemptsOK
  <2>11. AttemptsOK'
    BY <1>1, <2>4, <2>6, <2>7, <2>9, <2>10 DEF StoreOK, AttemptsOK
  <2>12. InboxOK'
    BY <1>1, <2>3, <2>7 DEF StoreOK, InboxOK, ActionStates
  <2>13. JobsOK'
    BY <1>1, <2>3, <2>8 DEF StoreOK, JobsOK
  <2>14. ASSUME NEW k \in Jobs
         PROVE  /\ jobs[k].revision \in Nat
                /\ k # j => jobs'[k] = jobs[k]
                /\ k = j => /\ jobs'[k].revision = jobs[k].revision + 1
                            /\ jobs'[k].state \in {"Active", "Completed"}
    BY <1>1, <1>2, <2>3, <2>8 DEF StoreOK, JobsOK, JobRecords
  <2>15. JobsMove
    BY <2>14 DEF JobsMove
  <2>16. AttemptsMove
    <3>1. ASSUME NEW a \in Ids
          PROVE  /\ attempts'[a].job = attempts[a].job
                 /\ attempts[a].revision <= attempts'[a].revision
                 /\ Live(a)' => Live(a)
                 /\ attempts[a].revision = attempts'[a].revision => (Live(a) => Live(a)')
      BY <2>10 DEF Live, AttemptRecords
    <3>2. ASSUME NEW a \in Ids' \ Ids
          PROVE  jobs[attempts'[a].job].revision < jobs'[attempts'[a].job].revision
      BY <1>2, <2>7, <2>9, <2>14
    <3>3. QED BY <2>7, <3>1, <3>2 DEF AttemptsMove
  <2>17. AttemptHasJob'
    <3>1. ASSUME NEW a \in Ids', Live(a)' PROVE Exists(attempts[a].job)'
      <4>1. CASE a \in fresh
        BY <1>2, <2>9, <2>14, <4>1 DEF Exists
      <4>2. CASE a \in Ids
        <5>1. Live(a) /\ attempts[a].job \in Jobs /\ attempts'[a] = attempts[a]
          BY <2>10, <3>1, <4>2 DEF Live, AttemptRecords
        <5>2. Exists(attempts[a].job)
          BY <1>1, <4>2, <5>1 DEF AttemptHasJob, Live
        <5>3. QED BY <2>14, <5>1, <5>2 DEF Exists
      <4>3. QED BY <2>7, <3>1, <4>1, <4>2
    <3>2. QED BY <3>1 DEF AttemptHasJob, Live
  <2>18. StoreMoves
    BY <1>3, <2>11, <2>12, <2>13, <2>15, <2>16 DEF StoreMoves, StoreOK
  <2>19. CASE run = {}
    BY <2>3, <2>17, <2>18, <2>19, IdleStep
  <2>20. CASE run # {}
    <3> DEFINE r == WithAttempts("Enqueue", 0, fresh, {}, "none")
    <3>1. /\ r \in Held /\ r.step = "Enqueue" /\ r.todo = fresh /\ r.done = {}
          /\ r.revision = 0 /\ r.cancel = {}
      <4>1. 0 \in Nat
        OBVIOUS
      <4>2. QED BY <2>6, <4>1, EnqueueHeld, Zenon
    <3>2. proc' = [proc EXCEPT ![w] = r]
      BY <2>3, <2>20
    <3> HIDE DEF r
    <3>3. proc'[w] = r
      BY <3>2 DEF SchedInv, ProcOK
    <3>4. Recording(w)'
      BY <2>9, <3>1, <3>3 DEF Recording
    <3>5. Deleting(w)' /\ Claiming(w)' /\ Referring(w)'
      <4>1. Deleting(w)' /\ Claiming(w)'
        BY <3>1, <3>3 DEF Deleting, Claiming
      <4>2. Referring(w)'
        BY <2>7, <3>1, <3>3 DEF Referring, Found
      <4>3. QED BY <4>1, <4>2
    <3>6. QED BY <2>17, <2>18, <3>1, <3>2, <3>4, <3>5, ProcessStep DEF Promises
  <2>21. QED BY <2>19, <2>20
<1>6. QED BY <1>4, <1>5

\* retry_due takes up a live attempt under the revision it stores.
LEMMA RetryStep ==
  ASSUME SchedInv, NEW w \in Workers, NEW a \in Ids, retry_due(w, a)
  PROVE  SchedInv'
<1> DEFINE att == InState(attempts[a], "RetryScheduled")
<1>1. StoreOK /\ attempts[a] \in AttemptRecords
  BY DEF SchedInv, StoreOK, AttemptsOK
<1>2. /\ UNCHANGED <<now, jobs, inbox, edits, faults>> /\ BoundsOK'
      /\ attempts[a].state \in {"Claimed", "RetryScheduled"}
  BY <1>1 DEF retry_due, StoreOK, BoundsOK
<1>3. /\ att \in AttemptRecords /\ att.job = attempts[a].job
      /\ att.revision = attempts[a].revision + 1 /\ att.state = "RetryScheduled"
  <2>1. "RetryScheduled" \in AttemptStates
    BY DEF AttemptStates
  <2>2. QED BY <1>1, <2>1, InStateFacts
<1>4. PICK n \in Nat :
        /\ proc' = [proc EXCEPT ![w] = WithAttempts("Enqueue", n, {a}, {}, "none")]
        /\ \/ attempts' = [attempts EXCEPT ![a] = att] /\ n = attempts[a].revision + 1
           \/ attempts' = attempts /\ n = attempts[a].revision
  BY <1>1 DEF retry_due, TakeUp, Goto, AttemptRecords
<1> HIDE DEF att
<1>5. Live(a)
  BY <1>2 DEF Live, attempt_terminal
<1>6. StoreMoves /\ AttemptHasJob'
  <2>1. CASE attempts' = [attempts EXCEPT ![a] = att]
    BY <1>2, <1>3, <1>5, <2>1, AttemptReplaced, JobsKept
  <2>2. CASE attempts' = attempts
    BY <1>1, <1>2, <2>2, StoreKept DEF StoreOK, InboxOK
  <2>3. QED BY <1>4, <2>1, <2>2
<1>7. a \in Ids' /\ attempts'[a].revision = n /\ Live(a)'
  BY <1>1, <1>3, <1>4, <1>5 DEF StoreOK, AttemptsOK, Live, attempt_terminal
<1> DEFINE q == WithAttempts("Enqueue", n, {a}, {}, "none")
<1>8. /\ q \in Held /\ q.step = "Enqueue" /\ q.todo = {a} /\ q.done = {}
      /\ q.revision = n /\ q.cancel = {}
  <2>1. n \in Nat /\ {a} \subseteq Int
    BY <1>1, <1>4 DEF StoreOK, AttemptsOK
  <2>2. QED BY <2>1, EnqueueHeld, Zenon
<1>9. proc' = [proc EXCEPT ![w] = q]
  BY <1>4
<1> HIDE DEF q
<1>10. proc'[w] = q
  BY <1>9 DEF SchedInv, ProcOK
<1>11. Promises(w)'
  <2>1. Recording(w)'
    BY <1>7, <1>8, <1>10 DEF Recording
  <2>2. Deleting(w)' /\ Claiming(w)'
    BY <1>8, <1>10 DEF Deleting, Claiming
  <2>3. Referring(w)'
    BY <1>7, <1>8, <1>10 DEF Referring, Found
  <2>4. QED BY <2>1, <2>2, <2>3 DEF Promises
<1>12. QED BY <1>6, <1>8, <1>9, <1>11, ProcessStep

----------------------------------------------------------------------------
(* enqueue_attempt and the rest of the maintenance pass. *)

\* A process that goes on with its attempts, or some of them, promises what it
\* did, as long as those it has still to record are not written.
LEMMA AttemptsInHand ==
  ASSUME SchedInv, StoreMoves, AttemptHasJob', NEW w \in Workers,
         NEW step \in {"Enqueue", "Sink", "Record", "Settle", "Finish"},
         NEW todo \in SUBSET proc[w].todo, NEW done \in SUBSET (proc[w].todo \cup proc[w].done),
         NEW outcome \in {"none", "accepted", "refused", "succeeded", "failed"},
         step \in {"Enqueue", "Sink", "Record"} => proc[w].step \in {"Enqueue", "Sink", "Record"},
         proc' = [proc EXCEPT ![w] = WithAttempts(step, proc[w].revision, todo, done, outcome)]
  PROVE  SchedInv'
<1> DEFINE q == WithAttempts(step, proc[w].revision, todo, done, outcome)
<1>1. StoreOK /\ StoreOK' /\ Promises(w) /\ proc[w] \in Held
  BY DEF SchedInv, StoreMoves, ProcOK
<1>2. /\ q \in Held /\ q.step = step /\ q.todo = todo /\ q.done = done
      /\ q.revision = proc[w].revision /\ q.cancel = {}
  BY <1>1 DEF WithAttempts, Holding, Held, Steps, NoSuchJob, Never, JobRecords, JobStates
<1>3. proc' = [proc EXCEPT ![w] = q]
  OBVIOUS
<1> HIDE DEF q
<1>4. proc'[w] = q
  BY <1>3 DEF SchedInv, ProcOK
<1>5. Referring(w)'
  BY <1>1, <1>2, <1>4 DEF Promises, Referring, Found, StoreMoves, AttemptsMove
<1>6. Deleting(w)' /\ Claiming(w)'
  BY <1>2, <1>4 DEF Deleting, Claiming
<1>7. Recording(w)'
  <2>1. SUFFICES ASSUME step \in {"Enqueue", "Sink", "Record"}, NEW a \in todo
                 PROVE  /\ proc[w].revision <= attempts'[a].revision
                        /\ proc[w].revision = attempts'[a].revision => Live(a)'
    BY <1>2, <1>4 DEF Recording
  <2>2. a \in Ids /\ proc[w].revision \in Nat /\ attempts[a].revision \in Nat
    BY <1>1 DEF Promises, Referring, Held, StoreOK, AttemptsOK, AttemptRecords
  <2>3. attempts'[a].revision \in Nat
    BY <1>1, <2>2 DEF StoreMoves, AttemptsMove, StoreOK, AttemptsOK, AttemptRecords
  <2>4. /\ proc[w].revision <= attempts[a].revision
        /\ proc[w].revision = attempts[a].revision => Live(a)
    BY <1>1, <2>1 DEF Promises, Recording
  <2>5. /\ attempts[a].revision <= attempts'[a].revision
        /\ attempts[a].revision = attempts'[a].revision => (Live(a) => Live(a)')
    BY <2>2 DEF StoreMoves, AttemptsMove
  <2>6. proc[w].revision <= attempts'[a].revision
    BY <2>2, <2>3, <2>4, <2>5
  <2>7. ASSUME proc[w].revision = attempts'[a].revision PROVE Live(a)'
    <3>1. /\ proc[w].revision = attempts[a].revision
          /\ attempts[a].revision = attempts'[a].revision
      BY <2>2, <2>3, <2>4, <2>5, <2>7
    <3>2. QED BY <2>4, <2>5, <3>1
  <2>8. QED BY <2>6, <2>7
<1>8. QED BY <1>2, <1>3, <1>5, <1>6, <1>7, ProcessStep DEF Promises

\* enqueue_attempt reads the job.
LEMMA ReadJobStep ==
  ASSUME SchedInv, NEW w \in Workers, NEW a \in Ids, ReadJob(w, a)
  PROVE  SchedInv'
<1>1. StoreMoves /\ AttemptHasJob'
  BY StoreKept DEF ReadJob, SchedInv, StoreOK, BoundsOK, InboxOK
<1>2. CASE proc' = [proc EXCEPT ![w] = Idle("Down")]
  BY <1>1, <1>2, IdleStep
<1>3. CASE proc' = [proc EXCEPT ![w] = WithAttempts("Sink", proc[w].revision, proc[w].todo, proc[w].done, "none")]
  <2>1. proc[w].step = "Enqueue"
    BY DEF ReadJob
  <2>2. QED BY <1>1, <1>3, <2>1, AttemptsInHand
<1>4. QED BY <1>2, <1>3 DEF ReadJob, MaintenanceError, Goto

\* The inbox takes or refuses the action.
LEMMA SinkStep ==
  ASSUME SchedInv, NEW w \in Workers, NEW a \in Ids, SinkAccepts(w, a) \/ SinkRefuses(w, a)
  PROVE  SchedInv'
<1>1. InboxOK' /\ BoundsOK'
  <2>1. InboxOK /\ BoundsOK
    BY DEF SchedInv, StoreOK
  <2>2. CASE SinkAccepts(w, a)
    <3>1. BoundsOK'
      BY <2>1, <2>2 DEF BoundsOK, SinkAccepts
    <3>2. InboxOK'
      BY <2>1, <2>2 DEF InboxOK, ActionStates, SinkAccepts
    <3>3. QED BY <3>1, <3>2
  <2>3. CASE SinkRefuses(w, a)
    <3>1. BoundsOK'
      BY <2>1, <2>3, BoundConstants DEF BoundsOK, SinkRefuses, Fault
    <3>2. InboxOK'
      BY <2>1, <2>3 DEF InboxOK, SinkRefuses
    <3>3. QED BY <3>1, <3>2
  <2>4. QED BY <2>2, <2>3
<1>2. StoreMoves /\ AttemptHasJob'
  BY <1>1, StoreKept DEF SinkAccepts, SinkRefuses
<1>3. PICK outcome \in {"accepted", "refused"} :
        proc' = [proc EXCEPT ![w] = WithAttempts("Record", proc[w].revision, proc[w].todo, proc[w].done, outcome)]
  BY DEF SinkAccepts, SinkRefuses, Goto
<1>4. proc[w].step = "Sink"
  BY DEF SinkAccepts, SinkRefuses
<1>5. QED BY <1>2, <1>3, <1>4, AttemptsInHand

\* put_attempt: under the revision read the attempt is live, so its job exists
\* whatever is recorded.
LEMMA PutAttemptStep ==
  ASSUME SchedInv, NEW w \in Workers, NEW a \in Ids, put_attempt(w, a)
  PROVE  SchedInv'
<1> DEFINE p == proc[w]
           att == Recorded(attempts[a], p.outcome)
<1>1. StoreOK /\ Promises(w) /\ attempts[a] \in AttemptRecords
  BY DEF SchedInv, StoreOK, AttemptsOK
<1>2. /\ UNCHANGED <<now, jobs, inbox, edits, faults>> /\ BoundsOK'
      /\ p.step = "Record" /\ a \in p.todo
  BY <1>1 DEF put_attempt, StoreOK, BoundsOK, First
<1>3. CASE attempts[a].revision # p.revision
  <2>1. attempts' = attempts /\ proc' = [proc EXCEPT ![w] = Idle("Down")]
    BY <1>3 DEF put_attempt, MaintenanceError, Goto
  <2>2. StoreMoves /\ AttemptHasJob'
    BY <1>1, <1>2, <2>1, StoreKept DEF StoreOK, InboxOK
  <2>3. QED BY <2>1, <2>2, IdleStep
<1>4. CASE attempts[a].revision = p.revision
  <2>1. Live(a)
    BY <1>1, <1>2, <1>4 DEF Promises, Recording
  <2>2. /\ att \in AttemptRecords /\ att.job = attempts[a].job
        /\ att.revision = attempts[a].revision + 1
    BY <1>1, RecordedFacts
  <2>3. /\ attempts' = [attempts EXCEPT ![a] = att]
        /\ proc' = [proc EXCEPT ![w] = WithAttempts(IF p.todo \ {a} = {} THEN "Settle" ELSE "Enqueue",
                                      p.revision, p.todo \ {a}, p.done \cup {a}, "none")]
    BY <1>4 DEF put_attempt, Goto
  <2> HIDE DEF att
  <2>4. StoreMoves /\ AttemptHasJob'
    BY <1>2, <2>1, <2>2, <2>3, AttemptReplaced, JobsKept
  <2>5. p.todo \ {a} \in SUBSET p.todo /\ p.done \cup {a} \in SUBSET (p.todo \cup p.done)
    BY <1>2
  <2>6. QED BY <1>2, <2>3, <2>4, <2>5, AttemptsInHand
<1>5. QED BY <1>3, <1>4

\* The maintenance pass looks at the action.
LEMMA SettleStep ==
  ASSUME SchedInv, NEW w \in Workers, NEW a \in Ids, Settle(w, a)
  PROVE  SchedInv'
<1>1. InboxOK' /\ BoundsOK'
  BY DEF SchedInv, StoreOK, BoundsOK, InboxOK, ActionStates, Settle
<1>2. StoreMoves /\ AttemptHasJob'
  BY <1>1, StoreKept DEF Settle
<1>3. PICK outcome \in {"succeeded", "failed"} :
        proc' = [proc EXCEPT ![w] = WithAttempts("Finish", proc[w].revision, {}, proc[w].done, outcome)]
  BY DEF Settle, Goto
<1>4. QED BY <1>2, <1>3, AttemptsInHand

\* finish_attempt settles an enqueued attempt, and counts a failure.
LEMMA FinishStep ==
  ASSUME SchedInv, NEW w \in Workers, NEW a \in Ids, finish_attempt(w, a)
  PROVE  SchedInv'
<1> DEFINE p == proc[w]
           j == attempts[a].job
           good == attempts[a].state = "Enqueued" /\ (p.outcome = "succeeded" \/ Exists(j))
           att == InState(attempts[a], IF p.outcome = "succeeded" THEN "Completed" ELSE "Failed")
<1>1. StoreOK /\ attempts[a] \in AttemptRecords /\ j \in Jobs
  BY DEF SchedInv, StoreOK, AttemptsOK, AttemptRecords
<1>2. UNCHANGED <<now, inbox, edits, faults>> /\ BoundsOK' /\ a \in p.done
  BY <1>1 DEF finish_attempt, StoreOK, BoundsOK, First
<1>3. CASE ~good
  <2>1. UNCHANGED <<jobs, attempts>> /\ proc' = [proc EXCEPT ![w] = Idle("Down")]
    BY <1>3 DEF finish_attempt, MaintenanceError, Goto
  <2>2. StoreMoves /\ AttemptHasJob'
    BY <1>1, <1>2, <2>1, StoreKept DEF StoreOK, InboxOK
  <2>3. QED BY <2>1, <2>2, IdleStep
<1>4. CASE good
  <2>1. /\ att \in AttemptRecords /\ att.job = attempts[a].job
        /\ att.revision = attempts[a].revision + 1 /\ att.state \in {"Completed", "Failed"}
    <3>1. (IF p.outcome = "succeeded" THEN "Completed" ELSE "Failed")
             \in AttemptStates \cap {"Completed", "Failed"}
      BY DEF AttemptStates
    <3>2. QED BY <1>1, <3>1, InStateFacts
  <2>2. /\ attempts' = [attempts EXCEPT ![a] = att]
        /\ jobs' = jobs \/ jobs' = [jobs EXCEPT ![j].revision = @ + 1]
        /\ \/ proc' = [proc EXCEPT ![w] = Idle("Ready")]
           \/ proc' = [proc EXCEPT ![w] = WithAttempts("Settle", p.revision, {}, p.done \ {a}, "none")]
    BY <1>4 DEF finish_attempt, Goto
  <2> HIDE DEF att
  <2>3. JobsOK' /\ JobsMove /\ \A k \in Jobs : Exists(k) => Exists(k)'
    <3>1. CASE jobs' = jobs
      BY <3>1, JobsKept
    <3>2. CASE jobs' = [jobs EXCEPT ![j].revision = @ + 1]
      <4>1. ASSUME NEW k \in Jobs
            PROVE  /\ jobs'[k] \in JobRecords /\ jobs'[k].state = jobs[k].state
                   /\ jobs[k].revision <= jobs'[k].revision
        <5>1. jobs[k] \in JobRecords
          BY <1>1 DEF StoreOK, JobsOK
        <5>2. QED BY <1>1, <3>2, <5>1 DEF StoreOK, JobsOK, JobRecords
      <4>2. JobsOK'
        BY <1>1, <3>2, <4>1 DEF StoreOK, JobsOK
      <4>3. QED BY <4>1, <4>2 DEF JobsMove, Exists
    <3>3. QED BY <2>2, <3>1, <3>2
  <2>4. ~(~attempt_terminal(att.state))
    BY <2>1 DEF attempt_terminal
  <2>5. StoreMoves /\ AttemptHasJob'
    BY <1>2, <2>1, <2>2, <2>3, <2>4, AttemptReplaced
  <2>6. CASE proc' = [proc EXCEPT ![w] = Idle("Ready")]
    BY <2>5, <2>6, IdleStep
  <2>7. CASE proc' = [proc EXCEPT ![w] = WithAttempts("Settle", p.revision, {}, p.done \ {a}, "none")]
    BY <2>5, <2>7, AttemptsInHand
  <2>8. QED BY <2>2, <2>6, <2>7
<1>5. QED BY <1>3, <1>4

----------------------------------------------------------------------------
(* The environment. *)

\* A claim expires or a backoff passes: the attempt is what it was.
LEMMA ElapsesStep ==
  ASSUME SchedInv, NEW a \in Ids, Elapses(a)
  PROVE  SchedInv'
<1>1. StoreOK /\ AttemptHasJob
  BY DEF SchedInv
<1>2. attempts' = [attempts EXCEPT ![a].due = "due"] /\ UNCHANGED <<now, jobs, inbox, proc, edits, faults>>
  BY DEF Elapses
<1>3. ASSUME NEW b \in Ids
      PROVE  /\ attempts'[b] \in AttemptRecords /\ attempts'[b].job = attempts[b].job
             /\ attempts'[b].revision = attempts[b].revision
             /\ attempts'[b].state = attempts[b].state /\ attempts[b].revision \in Nat
  <2>1. attempts[b] \in AttemptRecords
    BY <1>1 DEF StoreOK, AttemptsOK
  <2>2. QED BY <1>1, <1>2, <2>1 DEF StoreOK, AttemptsOK, AttemptRecords
<1>4. Ids' = Ids
  BY <1>1, <1>2 DEF StoreOK, AttemptsOK
<1>5. AttemptsOK'
  BY <1>1, <1>2, <1>3, <1>4 DEF StoreOK, AttemptsOK
<1>6. AttemptsMove
  BY <1>3, <1>4 DEF AttemptsMove, Live
<1>7. AttemptHasJob'
  BY <1>1, <1>2, <1>3, <1>4 DEF AttemptHasJob, Exists
<1>8. StoreMoves
  BY <1>1, <1>2, <1>5, <1>6, JobsKept DEF StoreMoves, StoreOK, BoundsOK, InboxOK
<1>9. QED BY <1>2, <1>7, <1>8, EnvironmentStep

\* A restarting daemon makes lapsed claims due retries.
LEMMA ExpireStep ==
  ASSUME SchedInv, expire_stale_claims
  PROVE  SchedInv'
<1> DEFINE stale == {a \in Ids : attempts[a].state = "Claimed" /\ attempts[a].due = "due"}
<1>1. StoreOK /\ AttemptHasJob
  BY DEF SchedInv
<1>2. /\ attempts' = [a \in Ids |-> IF a \in stale THEN InState(attempts[a], "RetryScheduled")
                                    ELSE attempts[a]]
      /\ UNCHANGED <<now, jobs, inbox, proc, edits>> /\ BoundsOK'
  <2>1. faults < MaxFaults /\ faults' = faults + 1
    BY DEF expire_stale_claims, Fault
  <2>2. BoundsOK'
    BY <1>1, <2>1, BoundConstants DEF expire_stale_claims, StoreOK, BoundsOK
  <2>3. QED BY <2>2 DEF expire_stale_claims
<1>3. ASSUME NEW b \in Ids
      PROVE  /\ attempts'[b] \in AttemptRecords /\ attempts'[b].job = attempts[b].job
             /\ attempts[b].revision <= attempts'[b].revision
             /\ Live(b)' <=> Live(b)
  <2>1. attempts[b] \in AttemptRecords
    BY <1>1 DEF StoreOK, AttemptsOK
  <2>2. CASE b \in stale
    <3>1. attempts'[b] = InState(attempts[b], "RetryScheduled") /\ attempts[b].state = "Claimed"
      BY <1>2, <2>2
    <3>2. "RetryScheduled" \in AttemptStates
      BY DEF AttemptStates
    <3>3. /\ attempts'[b] \in AttemptRecords /\ attempts'[b].job = attempts[b].job
          /\ attempts'[b].revision = attempts[b].revision + 1
          /\ attempts'[b].state = "RetryScheduled" /\ attempts[b].revision \in Nat
      BY <2>1, <3>1, <3>2, InStateFacts
    <3>4. Live(b) /\ Live(b)'
      BY <3>1, <3>3 DEF Live, attempt_terminal
    <3>5. QED BY <3>3, <3>4
  <2>3. CASE b \notin stale
    <3>1. attempts'[b] = attempts[b]
      BY <1>2, <2>3
    <3>2. QED BY <2>1, <3>1 DEF AttemptRecords, Live
  <2>4. QED BY <2>2, <2>3
<1>4. Ids' = Ids
  BY <1>2
<1>5. AttemptsOK'
  BY <1>1, <1>2, <1>3, <1>4 DEF StoreOK, AttemptsOK
<1>6. AttemptsMove
  BY <1>3, <1>4 DEF AttemptsMove
<1>7. AttemptHasJob'
  BY <1>1, <1>2, <1>3, <1>4 DEF AttemptHasJob, Exists, Live
<1>8. StoreMoves
  BY <1>1, <1>2, <1>4, <1>5, <1>6, JobsKept DEF StoreMoves, StoreOK, InboxOK
<1>9. QED BY <1>2, <1>7, <1>8, EnvironmentStep

\* The action is taken up or ends, or time passes.
LEMMA PumpOrTickStep ==
  ASSUME SchedInv, (\E a \in Ids : PumpStarts(a) \/ PumpEnds(a)) \/ Tick
  PROVE  SchedInv'
<1>1. InboxOK' /\ BoundsOK' /\ UNCHANGED <<jobs, attempts, proc>>
  <2>1. InboxOK /\ BoundsOK
    BY DEF SchedInv, StoreOK
  <2>2. CASE Tick
    BY <2>1, <2>2, BoundConstants DEF BoundsOK, InboxOK, Tick
  <2>3. CASE \E a \in Ids : PumpStarts(a) \/ PumpEnds(a)
    BY <2>1, <2>3 DEF BoundsOK, InboxOK, ActionStates, PumpStarts, PumpEnds
  <2>4. QED BY <2>2, <2>3
<1>2. QED BY <1>1, StoreKept, EnvironmentStep

\* A process dies, or a worker starts.
LEMMA CrashOrStartStep ==
  ASSUME SchedInv, NEW w \in Workers, Crash(w) \/ StartWorker(w)
  PROVE  SchedInv'
<1>1. InboxOK' /\ BoundsOK' /\ UNCHANGED <<jobs, attempts>>
  BY BoundConstants DEF SchedInv, StoreOK, BoundsOK, InboxOK, Crash, StartWorker, Fault
<1>2. PICK step \in {"Down", "Ready"} : proc' = [proc EXCEPT ![w] = Idle(step)]
  BY DEF Crash, StartWorker, Goto
<1>3. QED BY <1>1, <1>2, StoreKept, IdleStep

----------------------------------------------------------------------------
(* The theorems. *)

\* The invariant holds initially.
LEMMA SchedInvInit == Init => SchedInv
<1> SUFFICES ASSUME Init PROVE SchedInv
  OBVIOUS
<1>1. StoreOK
  BY BoundConstants DEF Init, StoreOK, BoundsOK, JobsOK, AttemptsOK, InboxOK, NoSuchJob, Never, JobRecords, JobStates
<1>2. \A w \in Workers : proc[w] = Idle("Ready")
  BY DEF Init
<1>3. ProcOK
  BY IdleHeld DEF Init, ProcOK, Steps
<1>4. AttemptHasJob
  BY DEF Init, AttemptHasJob
<1>5. ASSUME NEW w \in Workers PROVE Promises(w)
  <2>1. /\ proc[w].step = "Ready" /\ proc[w].todo = {} /\ proc[w].done = {}
        /\ proc[w].cancel = {}
    BY <1>2, IdleHeld DEF Steps
  <2>2. Recording(w) /\ Deleting(w) /\ Claiming(w)
    BY <2>1 DEF Recording, Deleting, Claiming
  <2>3. Referring(w)
    BY <2>1 DEF Referring, Found
  <2>4. QED BY <2>2, <2>3 DEF Promises
<1>6. QED BY <1>1, <1>3, <1>4, <1>5 DEF SchedInv

\* Every step keeps it.
LEMMA SchedInvNext == SchedInv /\ [Next]_vars => SchedInv'
<1> SUFFICES ASSUME SchedInv, [Next]_vars PROVE SchedInv'
  OBVIOUS
<1>1. CASE UNCHANGED vars
  BY <1>1, StoreKept, EnvironmentStep DEF vars, SchedInv, StoreOK, BoundsOK, InboxOK
<1>2. ASSUME NEW j \in Jobs, create(j) \/ change_state(j) \/ update(j) PROVE SchedInv'
  BY <1>2, CreateStep, ChangeStateStep, UpdateStep
<1>3. ASSUME NEW w \in Workers, NEW j \in Jobs, BeginDelete(w, j) PROVE SchedInv'
  BY <1>3, BeginDeleteStep
<1>4. ASSUME NEW w \in Workers, Maintain(w) PROVE SchedInv'
  BY <1>4, BeginClaimStep, ClaimStep, RetryStep, ReadJobStep, SinkStep, PutAttemptStep,
     SettleStep, FinishStep DEF Maintain
<1>5. ASSUME NEW w \in Workers, delete(w) \/ Crash(w) \/ StartWorker(w) PROVE SchedInv'
  BY <1>5, DeleteStep, CrashOrStartStep
<1>6. ASSUME NEW a \in Ids, Elapses(a) \/ PumpStarts(a) \/ PumpEnds(a) PROVE SchedInv'
  BY <1>6, ElapsesStep, PumpOrTickStep
<1>7. CASE expire_stale_claims \/ Tick
  BY <1>7, ExpireStep, PumpOrTickStep
<1>8. QED BY <1>1, <1>2, <1>3, <1>4, <1>5, <1>6, <1>7 DEF Next

\* SchedInv is an invariant of the scheduler.
THEOREM SchedulerInvariant == Spec => []SchedInv
BY SchedInvInit, SchedInvNext, PTL DEF Spec

\* Type correctness: in particular no attempt is retried more often than
\* max_enqueue_retries.
THEOREM SchedulerTypeCorrect == Spec => []TypeOK
<1>1. SchedInv => TypeOK
  BY DEF SchedInv, StoreOK, BoundsOK, JobsOK, AttemptsOK, InboxOK, ProcOK, Promises, Referring, TypeOK
<1>2. QED BY <1>1, SchedulerInvariant, PTL

\* However ticks, retries, deletes, crashes and daemon restarts interleave, a
\* deleted job leaves no attempt that could still be enqueued.
THEOREM LiveAttemptsHaveJobs == Spec => []AttemptHasJob
<1>1. SchedInv => AttemptHasJob
  BY DEF SchedInv
<1>2. QED BY <1>1, SchedulerInvariant, PTL
=============================================================================
