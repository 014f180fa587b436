--------------------------- MODULE WorkerLeaseProofs ---------------------------
(* What WorkerLease keeps true for any number of workers, generations and      *)
(* revisions.                                                                  *)
EXTENDS WorkerLease, TLAPS

(* The generation record bounds every grant, and a claim in progress has read  *)
(* its current value: only the one supervisor writes it.                       *)
Ranked == /\ lease.generation <= generation
          /\ \A w \in WorkerIds : proc[w].generation <= generation
          /\ daemon.step = "claiming" => /\ daemon.seen = generation
                                         /\ generation < MaxGeneration
                                         /\ daemon.base < MaxRevision

(* The file lock is held exactly from WriterGuard::acquire to its drop.        *)
Serving == {"ready", "renewing", "releasing"}

Locked == \A w \in WorkerIds : proc[w].phase \in Serving <=> writer = w

(* A worker enters the supervisor's table only after it took the lock, and an  *)
(* operation on a worker names one.                                            *)
Managed == /\ managed # NoWorker => proc[managed].phase \in Serving \cup {"closing", "exited"}
           /\ daemon.step \in {"starting", "draining"} => daemon.worker # NoWorker

(* A record exists exactly when it has an owner, and a renewal in progress has *)
(* read an existing record.                                                    *)
Recorded == /\ lease.revision = 0 => lease = NoLease
            /\ lease.owner = NoWorker => lease.revision = 0
            /\ \A w \in WorkerIds : proc[w].phase = "renewing" =>
                                        proc[w].base > 0 /\ proc[w].base < MaxRevision

(* A supervisor about to delete a lease has seen the process end, and the      *)
(* record is the one it read, a later revision, or gone.                       *)
Releasing == daemon.step = "releasing" =>
                 /\ ~process_is_alive(daemon.worker)
                 /\ daemon.worker # NoWorker
                 /\ daemon.base > 0
                 /\ \/ lease.owner = daemon.worker /\ lease.revision = daemon.base
                    \/ lease.revision > daemon.base
                    \/ lease = NoLease

LeaseInv == TypeOK /\ Ranked /\ Locked /\ Managed /\ Recorded /\ Releasing

LEMMA MaxOfTwo ==
    ASSUME NEW a \in Nat, NEW b \in Nat, b <= a
    PROVE  Max({a, b}) = a
  <1>1. a \in {a, b} /\ \A x \in {a, b} : a >= x
    OBVIOUS
  <1>2. \A m \in {a, b} : (\A x \in {a, b} : m >= x) => m = a
    OBVIOUS
  <1> QED
    BY <1>1, <1>2 DEF Max

(* The shapes of the records, visible in every proof below.                    *)
USE LeaseConstants
USE DEF NoLease, LeaseGrant, WorkerProcess, WorkerRegistration, Supervisor, WorkerPhase,
        WorkerRunState, Generations, Revisions, Serving, process_is_alive

LEMMA NoLeaseType == NoLease \in LeaseGrant
  OBVIOUS

LEMMA InitLease == Init => LeaseInv
  BY DEF Init, LeaseInv, TypeOK, Ranked, Locked, Managed, Recorded, Releasing, Down, Idle, Operation

LEMMA DeadType ==
    ASSUME TypeOK, NEW w \in WorkerIds
    PROVE  Dead(w) \in [WorkerIds -> WorkerProcess]
  BY DEF Dead, TypeOK

LEMMA RequestType ==
    ASSUME TypeOK, NEW w \in WorkerIds, NEW b \in BOOLEAN
    PROVE  [proc EXCEPT ![w].active_request = b] \in [WorkerIds -> WorkerProcess]
  <1>1. proc[w] \in WorkerProcess
    BY DEF TypeOK
  <1>2. [proc[w] EXCEPT !.active_request = b] \in WorkerProcess
    BY <1>1
  <1> QED
    BY <1>1, <1>2 DEF TypeOK

LEMMA ReleaseType ==
    ASSUME TypeOK, NEW w \in WorkerIds, BeginRelease(w)
    PROVE  daemon' \in Supervisor
  BY DEF TypeOK, Idle, Operation, BeginRelease

(* The read half of release establishes Releasing once the process has ended.  *)
LEMMA ReleaseReads ==
    ASSUME TypeOK, Recorded, NEW w \in WorkerIds, BeginRelease(w), UNCHANGED lease,
           ~process_is_alive(w)'
    PROVE  Releasing'
  BY DEF TypeOK, Recorded, Releasing, Idle, Operation, BeginRelease, same_owner

LEMMA WorkerValidateInv == ASSUME LeaseInv, NEW w \in WorkerIds, WorkerValidate(w) PROVE LeaseInv'
  <1> USE DEF LeaseInv, TypeOK, Recorded, WorkerValidate, DropGuard, validate, same_owner
  <1>1. TypeOK'
    BY DEF Ranked
  <1>2. Ranked' /\ Managed' /\ Recorded'
    BY DEF Ranked, Managed
  <1>3. Locked' /\ Releasing'
    BY DEF Locked, Releasing
  <1> QED
    BY <1>1, <1>2, <1>3

LEMMA WriterGuardAcquireInv == ASSUME LeaseInv, NEW w \in WorkerIds, WriterGuardAcquire(w) PROVE LeaseInv'
  <1> USE DEF LeaseInv, TypeOK, Recorded, WriterGuardAcquire, DropGuard, Publish
  <1>1. TypeOK'
    BY DEF Ranked
  <1>2. Ranked' /\ Managed' /\ Recorded'
    BY DEF Ranked, Managed
  <1>3. Locked' /\ Releasing'
    BY DEF Locked, Releasing
  <1> QED
    BY <1>1, <1>2, <1>3

LEMMA BeginRenewInv == ASSUME LeaseInv, NEW w \in WorkerIds, BeginRenew(w) PROVE LeaseInv'
  <1> USE DEF LeaseInv, TypeOK, Recorded, BeginRenew, DropGuard, Publish, Fail, validate, same_owner
  <1>1. TypeOK'
    BY DEF Ranked
  <1>2. Ranked'
    BY DEF Ranked
  <1>3. Managed'
    BY DEF Managed
  <1>4. Recorded'
    OBVIOUS
  <1>5. Locked'
    BY DEF Locked
  <1>6. Releasing'
    BY DEF Releasing
  <1> QED
    BY <1>1, <1>2, <1>3, <1>4, <1>5, <1>6

LEMMA RenewInv == ASSUME LeaseInv, NEW w \in WorkerIds, Renew(w) PROVE LeaseInv'
  <1> USE DEF LeaseInv, TypeOK, Recorded, Renew, DropGuard, Publish, Fail, Exact, RenewedLease, next_revision
  <1>1. TypeOK'
    BY DEF Ranked
  <1>2. Ranked'
    <2>1. \A v \in WorkerIds : proc'[v].generation = proc[v].generation
      <3>1. CASE Exact(proc[w].base)
        BY <3>1
      <3>2. CASE ~Exact(proc[w].base)
        BY <3>2
      <3> QED
        BY <3>1, <3>2
    <2>2. lease'.generation \in {lease.generation, proc[w].generation}
      OBVIOUS
    <2>3. UNCHANGED <<generation, daemon>>
      OBVIOUS
    <2> HIDE DEF Renew, TypeOK, Recorded
    <2> QED
      BY <2>1, <2>2, <2>3 DEF Ranked
  <1>3. Managed'
    BY DEF Managed
  <1>4. Recorded'
    OBVIOUS
  <1>5. Locked' /\ Releasing'
    BY DEF Locked, Releasing
  <1> QED
    BY <1>1, <1>2, <1>3, <1>4, <1>5

LEMMA ControlErrorInv == ASSUME LeaseInv, NEW w \in WorkerIds, ControlError(w) PROVE LeaseInv'
  <1> USE DEF LeaseInv, TypeOK, Recorded, ControlError, DropGuard
  <1>1. TypeOK'
    BY DEF Ranked
  <1>2. Ranked' /\ Managed' /\ Recorded'
    BY DEF Ranked, Managed
  <1>3. Locked' /\ Releasing'
    BY DEF Locked, Releasing
  <1> QED
    BY <1>1, <1>2, <1>3

LEMMA FinishRequestInv == ASSUME LeaseInv, NEW w \in WorkerIds, FinishRequest(w) PROVE LeaseInv'
  <1> USE DEF LeaseInv, TypeOK, Recorded, FinishRequest
  <1>1. TypeOK'
    <2>1. proc' \in [WorkerIds -> WorkerProcess]
      BY RequestType
    <2> QED
      BY <2>1
  <1>2. Ranked' /\ Managed' /\ Recorded'
    BY DEF Ranked, Managed
  <1>3. Locked' /\ Releasing'
    BY DEF Locked, Releasing
  <1> QED
    BY <1>1, <1>2, <1>3

LEMMA BeginShutdownInv == ASSUME LeaseInv, NEW w \in WorkerIds, BeginShutdown(w) PROVE LeaseInv'
  <1> USE DEF LeaseInv, TypeOK, Recorded, BeginShutdown, DropGuard, Publish, Fail, same_owner
  <1>1. TypeOK'
    BY DEF Ranked
  <1>2. Ranked' /\ Managed' /\ Recorded'
    BY DEF Ranked, Managed
  <1>3. Locked' /\ Releasing'
    BY DEF Locked, Releasing
  <1> QED
    BY <1>1, <1>2, <1>3

LEMMA WorkerReleaseInv == ASSUME LeaseInv, NEW w \in WorkerIds, WorkerRelease(w) PROVE LeaseInv'
  <1> USE DEF LeaseInv, TypeOK, Recorded, WorkerRelease, DropGuard, Publish, Exact
  <1>1. TypeOK'
    <2>1. lease' = NoLease \/ lease' = lease
      OBVIOUS
    <2>2. lease' \in LeaseGrant
      BY <2>1, NoLeaseType
    <2>3. proc' \in [WorkerIds -> WorkerProcess]
      OBVIOUS
    <2>4. writer' \in WorkerIds \cup {NoWorker} /\ registered' \in WorkerRegistration
      OBVIOUS
    <2> QED
      BY <2>2, <2>3, <2>4
  <1>2. Ranked' /\ Managed' /\ Recorded'
    BY DEF Ranked, Managed
  <1>3. Locked' /\ Releasing'
    BY DEF Locked, Releasing
  <1> QED
    BY <1>1, <1>2, <1>3

LEMMA ProcessExitInv == ASSUME LeaseInv, NEW w \in WorkerIds, ProcessExit(w) PROVE LeaseInv'
  <1> USE DEF LeaseInv, TypeOK, Recorded, ProcessExit, Dead, Unlocked
  <1>1. TypeOK'
    BY DeadType
  <1>2. Ranked' /\ Managed' /\ Recorded'
    BY DEF Ranked, Managed
  <1>3. Locked' /\ Releasing'
    BY DEF Locked, Releasing
  <1> QED
    BY <1>1, <1>2, <1>3

LEMMA adopt_existingInv == LeaseInv /\ adopt_existing => LeaseInv'
  <1> SUFFICES ASSUME LeaseInv, adopt_existing PROVE LeaseInv'
    OBVIOUS
  <1> USE DEF LeaseInv, TypeOK, Recorded, adopt_existing, Adoptable, validate, same_owner, Idle, Operation
  <1>1. TypeOK'
    BY DEF Ranked
  <1>2. Ranked' /\ Managed' /\ Recorded'
    BY DEF Ranked, Managed
  <1>3. Locked' /\ Releasing'
    BY DEF Locked, Releasing
  <1> QED
    BY <1>1, <1>2, <1>3

LEMMA BeginClaimInv == LeaseInv /\ BeginClaim => LeaseInv'
  <1> SUFFICES ASSUME LeaseInv, BeginClaim PROVE LeaseInv'
    OBVIOUS
  <1> USE DEF LeaseInv, TypeOK, Recorded, BeginClaim, Idle, Operation
  <1>0. Max({generation, lease.generation}) = generation
    BY MaxOfTwo DEF Ranked
  <1>1. TypeOK'
    BY <1>0
  <1>2. Ranked' /\ Managed' /\ Recorded'
    BY <1>0 DEF Ranked, Managed
  <1>3. Locked' /\ Releasing'
    BY DEF Locked, Releasing
  <1> QED
    BY <1>1, <1>2, <1>3

LEMMA ClaimInv == ASSUME LeaseInv, NEW w \in WorkerIds, Claim(w) PROVE LeaseInv'
  <1> USE DEF LeaseInv, TypeOK, Recorded, Claim, Exact, next_revision, Idle, Operation
  <1>1. TypeOK'
    BY DEF Ranked
  <1>2. Ranked' /\ Managed' /\ Recorded'
    BY DEF Ranked, Managed
  <1>3. Locked' /\ Releasing'
    <2>1. Locked'
      BY DEF Locked
    <2>2. Releasing'
      BY DEF Releasing
    <2> QED
      BY <2>1, <2>2
  <1> QED
    BY <1>1, <1>2, <1>3

LEMMA StartReadyInv == LeaseInv /\ StartReady => LeaseInv'
  <1> SUFFICES ASSUME LeaseInv, StartReady PROVE LeaseInv'
    OBVIOUS
  <1> USE DEF LeaseInv, TypeOK, Recorded, StartReady, Idle, Operation
  <1>1. TypeOK'
    BY DEF Ranked
  <1>2. Ranked' /\ Managed' /\ Recorded'
    BY DEF Ranked, Managed
  <1>3. Locked' /\ Releasing'
    BY DEF Locked, Releasing
  <1> QED
    BY <1>1, <1>2, <1>3

LEMMA StartFailsInv == LeaseInv /\ StartFails => LeaseInv'
  <1> SUFFICES ASSUME LeaseInv, StartFails PROVE LeaseInv'
    OBVIOUS
  <1> USE DEF LeaseInv, TypeOK, Recorded, StartFails, Dead, Unlocked, BeginRelease, same_owner, Idle, Operation
  <1>1. TypeOK'
    BY DeadType, ReleaseType DEF Managed
  <1>2. Ranked' /\ Managed' /\ Recorded'
    BY DEF Ranked, Managed
  <1>3. Locked' /\ Releasing'
    <2>1. Locked'
      BY DEF Locked
    <2>2. Releasing'
      BY ReleaseReads DEF Managed
    <2> QED
      BY <2>1, <2>2
  <1> QED
    BY <1>1, <1>2, <1>3

LEMMA SupervisorReleaseInv == LeaseInv /\ SupervisorRelease => LeaseInv'
  <1> SUFFICES ASSUME LeaseInv, SupervisorRelease PROVE LeaseInv'
    OBVIOUS
  <1> USE DEF LeaseInv, TypeOK, Recorded, SupervisorRelease, Exact, Idle, Operation
  <1>1. TypeOK'
    BY DEF Ranked
  <1>2. Ranked' /\ Managed' /\ Recorded'
    BY DEF Ranked, Managed
  <1>3. Locked' /\ Releasing'
    BY DEF Locked, Releasing
  <1> QED
    BY <1>1, <1>2, <1>3

LEMMA monitorInv == LeaseInv /\ monitor => LeaseInv'
  <1> SUFFICES ASSUME LeaseInv, monitor PROVE LeaseInv'
    OBVIOUS
  <1> USE DEF LeaseInv, TypeOK, Recorded, monitor, BeginRelease, same_owner, Idle, Operation
  <1>1. TypeOK'
    BY DEF Ranked
  <1>2. Ranked' /\ Managed' /\ Recorded'
    BY DEF Ranked, Managed
  <1>3. Locked' /\ Releasing'
    BY DEF Locked, Releasing
  <1> QED
    BY <1>1, <1>2, <1>3

LEMMA drainInv == LeaseInv /\ drain => LeaseInv'
  <1> SUFFICES ASSUME LeaseInv, drain PROVE LeaseInv'
    OBVIOUS
  <1> USE DEF LeaseInv, TypeOK, Recorded, drain, Idle, Operation
  <1>1. TypeOK'
    BY DEF Ranked
  <1>2. Ranked' /\ Managed' /\ Recorded'
    BY DEF Ranked, Managed
  <1>3. Locked' /\ Releasing'
    BY DEF Locked, Releasing
  <1> QED
    BY <1>1, <1>2, <1>3

LEMMA DrainKillInv == LeaseInv /\ DrainKill => LeaseInv'
  <1> SUFFICES ASSUME LeaseInv, DrainKill PROVE LeaseInv'
    OBVIOUS
  <1> USE DEF LeaseInv, TypeOK, Recorded, DrainKill, Dead, Unlocked
  <1>1. TypeOK'
    BY DEF Ranked
  <1>2. Ranked' /\ Managed' /\ Recorded'
    BY DEF Ranked, Managed
  <1>3. Locked' /\ Releasing'
    BY DEF Locked, Releasing
  <1> QED
    BY <1>1, <1>2, <1>3

LEMMA DrainDoneInv == LeaseInv /\ DrainDone => LeaseInv'
  <1> SUFFICES ASSUME LeaseInv, DrainDone PROVE LeaseInv'
    OBVIOUS
  <1> USE DEF LeaseInv, TypeOK, Recorded, DrainDone, BeginRelease, same_owner, Idle, Operation
  <1>1. TypeOK'
    BY DEF Ranked
  <1>2. Ranked' /\ Managed' /\ Recorded'
    BY DEF Ranked, Managed
  <1>3. Locked' /\ Releasing'
    BY ReleaseReads DEF Locked, Managed
  <1> QED
    BY <1>1, <1>2, <1>3

LEMMA execute_streamingInv == LeaseInv /\ execute_streaming => LeaseInv'
  <1> SUFFICES ASSUME LeaseInv, execute_streaming PROVE LeaseInv'
    OBVIOUS
  <1> USE DEF LeaseInv, TypeOK, Recorded, execute_streaming, validate, same_owner
  <1>1. TypeOK'
    BY RequestType
  <1>2. Ranked' /\ Managed' /\ Recorded'
    BY DEF Ranked, Managed
  <1>3. Locked' /\ Releasing'
    BY DEF Locked, Releasing
  <1> QED
    BY <1>1, <1>2, <1>3

LEMMA DaemonCrashInv == LeaseInv /\ DaemonCrash => LeaseInv'
  <1> SUFFICES ASSUME LeaseInv, DaemonCrash PROVE LeaseInv'
    OBVIOUS
  <1> USE DEF LeaseInv, TypeOK, Recorded, DaemonCrash, Down, Idle, Operation
  <1>1. TypeOK'
    BY DEF Ranked
  <1>2. Ranked' /\ Managed' /\ Recorded'
    BY DEF Ranked, Managed
  <1>3. Locked' /\ Releasing'
    BY DEF Locked, Releasing
  <1> QED
    BY <1>1, <1>2, <1>3

LEMMA LeaseExpiresInv == LeaseInv /\ LeaseExpires => LeaseInv'
  <1> SUFFICES ASSUME LeaseInv, LeaseExpires PROVE LeaseInv'
    OBVIOUS
  <1> USE DEF LeaseInv, TypeOK, Recorded, LeaseExpires
  <1>1. TypeOK'
    BY DEF Ranked
  <1>2. Ranked' /\ Managed' /\ Recorded'
    BY DEF Ranked, Managed
  <1>3. Locked' /\ Releasing'
    BY DEF Locked, Releasing
  <1> QED
    BY <1>1, <1>2, <1>3

LEMMA NextLease == LeaseInv /\ [Next]_vars => LeaseInv'
  <1> SUFFICES ASSUME LeaseInv, [Next]_vars PROVE LeaseInv'
    OBVIOUS
  <1>1. CASE UNCHANGED vars
    BY <1>1 DEF vars, LeaseInv, TypeOK, Ranked, Locked, Managed, Recorded, Releasing
  <1>2. ASSUME NEW w \in WorkerIds,
               WorkerStep(w) \/ FinishRequest(w) \/ ControlError(w) \/ ProcessExit(w)
        PROVE  LeaseInv'
    BY <1>2, WorkerValidateInv, WriterGuardAcquireInv, BeginRenewInv, RenewInv, BeginShutdownInv,
       WorkerReleaseInv, FinishRequestInv, ControlErrorInv, ProcessExitInv DEF WorkerStep
  <1>3. ASSUME NEW w \in WorkerIds, Claim(w) PROVE LeaseInv'
    BY <1>3, ClaimInv
  <1>4. CASE SupervisorStep
    BY <1>3, <1>4, adopt_existingInv, BeginClaimInv, StartReadyInv, StartFailsInv,
       SupervisorReleaseInv, monitorInv, drainInv, DrainKillInv, DrainDoneInv,
       execute_streamingInv DEF SupervisorStep
  <1>5. CASE LeaseExpires \/ DaemonCrash
    BY <1>5, LeaseExpiresInv, DaemonCrashInv
  <1> QED
    BY <1>1, <1>2, <1>4, <1>5 DEF Next

(* LeaseInv is an invariant of the supervisor, its workers and their records.  *)
THEOREM LeaseInvariant == Spec => []LeaseInv
  BY InitLease, NextLease, PTL DEF Spec

(* Every reachable state is well typed, for any numbers of workers, claims and *)
(* renewals: TypeOK.                                                           *)
THEOREM LeaseTypeCorrect == Spec => []TypeOK
  <1>1. LeaseInv => TypeOK
    BY DEF LeaseInv
  <1> QED
    BY LeaseInvariant, <1>1, PTL

(* A request that passes validate_route goes to the process that holds the     *)
(* writer lock of the tree: RouteReachesWriter.                                *)
THEOREM RoutesReachTheWriter == Spec => []RouteReachesWriter
  <1>1. LeaseInv => RouteReachesWriter
    BY DEF LeaseInv, TypeOK, Locked, Managed, RouteReachesWriter
  <1> QED
    BY LeaseInvariant, <1>1, PTL

(* Each grant of claim_at has a higher generation than every grant before it:  *)
(* GrantsIncrease.                                                             *)
THEOREM GrantsOutrank == Spec => GrantsIncrease
  <1> DEFINE Outranks == \A w, v \in WorkerIds :
                 /\ w # v
                 /\ proc[w].phase = "unused" /\ proc'[w].phase = "spawned"
                 => proc'[w].generation > proc[v].generation
  <1>1. LeaseInv /\ [Next]_vars => [Outranks]_vars
    <2> SUFFICES ASSUME LeaseInv, Next, NEW w \in WorkerIds, NEW v \in WorkerIds, w # v,
                        proc[w].phase = "unused", proc'[w].phase = "spawned"
                 PROVE  proc'[w].generation > proc[v].generation
      OBVIOUS
    <2>1. PICK u \in WorkerIds : Claim(u)
      <3> USE DEF LeaseInv, TypeOK
      <3>1. ~LeaseExpires /\ ~DaemonCrash
        BY DEF LeaseExpires, DaemonCrash
      <3>2. \A u \in WorkerIds : ~FinishRequest(u) /\ ~ControlError(u) /\ ~ProcessExit(u)
        BY DEF FinishRequest, ControlError, ProcessExit, DropGuard, Dead
      <3>3. \A u \in WorkerIds : ~WorkerStep(u)
        BY DEF WorkerStep, WorkerValidate, WriterGuardAcquire, BeginRenew, Renew, BeginShutdown,
               WorkerRelease, DropGuard, Fail
      <3>4. ~adopt_existing /\ ~BeginClaim /\ ~StartReady /\ ~SupervisorRelease /\ ~monitor
        BY DEF adopt_existing, BeginClaim, StartReady, SupervisorRelease, monitor
      <3>5. ~drain /\ ~DrainDone /\ ~StartFails /\ ~DrainKill /\ ~execute_streaming
        BY DEF drain, DrainDone, StartFails, DrainKill, execute_streaming, Dead
      <3> QED
        BY <3>1, <3>2, <3>3, <3>4, <3>5 DEF Next, SupervisorStep
    <2> QED
      BY <2>1 DEF LeaseInv, TypeOK, Ranked, Claim
  <1> QED
    BY LeaseInvariant, <1>1, PTL DEF Spec, GrantsIncrease

(* The supervisor deletes a lease only after its owner's process has ended:    *)
(* ReleaseAfterExit.                                                           *)
THEOREM ReleasesAfterExit == Spec => ReleaseAfterExit
  <1> DEFINE Ended == daemon.step = "releasing" /\ daemon'.step = "idle" /\ lease # lease'
                          => ~process_is_alive(lease.owner)
  <1>1. LeaseInv /\ [Next]_vars => [Ended]_vars
    <2> SUFFICES ASSUME LeaseInv, Next, daemon.step = "releasing", daemon'.step = "idle",
                        lease # lease'
                 PROVE  ~process_is_alive(lease.owner)
      OBVIOUS
    <2>1. SupervisorRelease
      <3>1. \A w \in WorkerIds : ~WorkerStep(w) /\ ~FinishRequest(w) /\ ~ControlError(w)
                                  /\ ~ProcessExit(w) /\ ~Claim(w)
        BY DEF WorkerStep, WorkerValidate, WriterGuardAcquire, BeginRenew, Renew, BeginShutdown,
               WorkerRelease, FinishRequest, ControlError, ProcessExit, Claim
      <3>2. ~LeaseExpires /\ ~DaemonCrash
        BY DEF LeaseExpires, DaemonCrash, Down, Operation
      <3> QED
        BY <3>1, <3>2 DEF Next, SupervisorStep, adopt_existing, BeginClaim, StartReady, StartFails,
               monitor, drain, DrainKill, DrainDone, execute_streaming
    <2> QED
      BY <2>1 DEF LeaseInv, TypeOK, Releasing, SupervisorRelease, Exact
  <1> QED
    BY LeaseInvariant, <1>1, PTL DEF Spec, ReleaseAfterExit

===============================================================================
