------------------------------ MODULE WorkerLease ------------------------------
(* Ownership of one root session tree (crates/worker-runtime/src/lib.rs and    *)
(* crates/supervisor/src/lib.rs): the lease and generation records, the worker *)
(* processes that renew them behind a file lock, and the supervisor inside the *)
(* daemon that starts, adopts, drains and replaces workers.                    *)
(*                                                                             *)
(* The lease manager reads a record and then writes it under the revision it   *)
(* read, so every lease operation is two steps here, and a process may be held *)
(* up between them for as long as it likes.  Wall-clock time is one bit of the *)
(* lease: "live" until LeaseExpires.  The daemon may crash at any point and a  *)
(* new one adopts what it finds; workers outlive it.                           *)
EXTENDS Integers, FiniteSetsExt

CONSTANTS WorkerIds,      \* identities WorkerId::new() can draw
          NoWorker,       \* no worker (managed, registered or holding the lock)
          MaxGeneration,  \* bound: claims made in a behaviour
          MaxRevision     \* bound: revisions of one lease record

ASSUME LeaseConstants == /\ NoWorker \notin WorkerIds
                         /\ MaxGeneration \in Nat
                         /\ MaxRevision \in Nat \ {0}

VARIABLES lease,       \* the WorkerLeases record of the tree
          generation,  \* the WorkerGenerations record of the tree
          proc,        \* the worker processes
          writer,      \* who holds the WriterGuard file lock
          registered,  \* the registration file of the tree
          daemon,      \* the supervisor's current operation
          managed      \* the worker in the supervisor's table

vars == <<lease, generation, proc, writer, registered, daemon, managed>>

Generations == 0 .. MaxGeneration
Revisions == 0 .. MaxRevision

NoLease == [owner |-> NoWorker, generation |-> 0, live |-> FALSE, revision |-> 0]

LeaseGrant == [owner: WorkerIds \cup {NoWorker}, generation: Generations,
               live: BOOLEAN, revision: Revisions]

WorkerPhase == {"unused", "spawned", "validated", "ready", "renewing",
                "releasing", "closing", "exited"}

WorkerProcess == [phase: WorkerPhase, generation: Generations, base: Revisions,
                  active_request: BOOLEAN]

WorkerRunState == {"None", "Ready", "Draining", "Stopped", "Failed"}

WorkerRegistration == [worker_id: WorkerIds \cup {NoWorker}, state: WorkerRunState]

Supervisor == [step: {"down", "idle", "claiming", "starting", "draining", "releasing"},
               worker: WorkerIds \cup {NoWorker}, base: Revisions, seen: Generations]

(* The state of every variable has the type of the Rust struct it models.      *)
TypeOK == /\ lease \in LeaseGrant
          /\ generation \in Generations
          /\ proc \in [WorkerIds -> WorkerProcess]
          /\ writer \in WorkerIds \cup {NoWorker}
          /\ registered \in WorkerRegistration
          /\ daemon \in Supervisor
          /\ managed \in WorkerIds \cup {NoWorker}

Operation(step, w, base, seen) == [step |-> step, worker |-> w, base |-> base, seen |-> seen]

Idle == Operation("idle", NoWorker, 0, 0)

Down == Operation("down", NoWorker, 0, 0)

Init == /\ lease = NoLease
        /\ generation = 0
        /\ proc = [w \in WorkerIds |-> [phase |-> "unused", generation |-> 0, base |-> 0,
                                        active_request |-> FALSE]]
        /\ writer = NoWorker
        /\ registered = [worker_id |-> NoWorker, state |-> "None"]
        /\ daemon = Down
        /\ managed = NoWorker

process_is_alive(w) == w # NoWorker /\ proc[w].phase \notin {"unused", "exited"}

same_owner(w) == lease.owner = w

validate(w) == same_owner(w) /\ lease.live

-------------------------------------------------------------------------------
(* The lease manager's second halves: the write under the revision read.       *)

Exact(base) == lease.revision = base

next_revision == lease.revision + 1

RenewedLease(w) == [lease EXCEPT !.owner = w, !.generation = proc[w].generation,
                                 !.live = TRUE, !.revision = next_revision]

-------------------------------------------------------------------------------
(* A worker process (run_worker_inner).                                        *)

(* Returning from run_worker_inner drops the writer guard while the detached   *)
(* executor thread of an active request still runs; the process ends later.    *)
DropGuard(w) == /\ proc' = [proc EXCEPT ![w].phase = "closing"]
                /\ writer' = IF writer = w THEN NoWorker ELSE writer

Publish(w, state) == registered' = [worker_id |-> w, state |-> state]

WorkerValidate(w) ==
    /\ proc[w].phase = "spawned"
    /\ \/ /\ validate(w)
          /\ proc' = [proc EXCEPT ![w].phase = "validated"]
          /\ UNCHANGED writer
       \/ /\ ~validate(w)
          /\ DropGuard(w)
    /\ UNCHANGED <<lease, generation, registered, daemon, managed>>

WriterGuardAcquire(w) ==
    /\ proc[w].phase = "validated"
    /\ \/ /\ writer = NoWorker
          /\ writer' = w
          /\ proc' = [proc EXCEPT ![w].phase = "ready"]
          /\ Publish(w, "Ready")
       \/ /\ writer # NoWorker
          /\ DropGuard(w)
          /\ UNCHANGED registered
    /\ UNCHANGED <<lease, generation, daemon, managed>>

Fail(w) == Publish(w, "Failed") /\ DropGuard(w)

(* Mutant: a failed renewal is tried again at the next heartbeat.              *)
BeginRenewForgiving(w) ==
    /\ proc[w].phase = "ready"
    /\ validate(w)
    /\ lease.revision < MaxRevision
    /\ proc' = [proc EXCEPT ![w].phase = "renewing", ![w].base = lease.revision]
    /\ UNCHANGED <<lease, generation, writer, registered, daemon, managed>>

BeginRenew(w) ==
    /\ proc[w].phase = "ready"
    /\ \/ /\ validate(w)
          /\ lease.revision < MaxRevision
          /\ proc' = [proc EXCEPT ![w].phase = "renewing", ![w].base = lease.revision]
          /\ UNCHANGED <<writer, registered>>
       \/ /\ ~validate(w)
          /\ Fail(w)
    /\ UNCHANGED <<lease, generation, daemon, managed>>

Renew(w) ==
    /\ proc[w].phase = "renewing"
    /\ \/ /\ Exact(proc[w].base)
          /\ lease' = RenewedLease(w)
          /\ proc' = [proc EXCEPT ![w].phase = "ready", ![w].base = 0]
          /\ Publish(w, "Ready")
          /\ UNCHANGED writer
       \/ /\ ~Exact(proc[w].base)
          /\ Fail(w)
          /\ UNCHANGED lease
    /\ UNCHANGED <<generation, daemon, managed>>

(* service_control returning an error ends the worker without a registration. *)
ControlError(w) ==
    /\ proc[w].phase = "ready"
    /\ DropGuard(w)
    /\ UNCHANGED <<lease, generation, registered, daemon, managed>>

FinishRequest(w) ==
    /\ process_is_alive(w)
    /\ proc[w].active_request
    /\ proc' = [proc EXCEPT ![w].active_request = FALSE]
    /\ UNCHANGED <<lease, generation, writer, registered, daemon, managed>>

(* A shutdown message or a termination signal: an active request past the      *)
(* deadline fails the worker, otherwise it publishes Draining and reads its    *)
(* lease to release it.                                                        *)
BeginShutdown(w) ==
    /\ proc[w].phase = "ready"
    /\ \/ /\ proc[w].active_request
          /\ Fail(w)
       \/ /\ ~proc[w].active_request
          /\ Publish(w, "Draining")
          /\ \/ /\ same_owner(w)
                /\ proc' = [proc EXCEPT ![w].phase = "releasing", ![w].base = lease.revision]
                /\ UNCHANGED writer
             \/ /\ ~same_owner(w)
                /\ DropGuard(w)
    /\ UNCHANGED <<lease, generation, daemon, managed>>

WorkerRelease(w) ==
    /\ proc[w].phase = "releasing"
    /\ \/ /\ Exact(proc[w].base)
          /\ lease' = NoLease
          /\ Publish(w, "Stopped")
       \/ /\ ~Exact(proc[w].base)
          /\ UNCHANGED <<lease, registered>>
    /\ DropGuard(w)
    /\ UNCHANGED <<generation, daemon, managed>>

(* The process ends: on return from main, killed, or crashed.                  *)
Dead(w) == [proc EXCEPT ![w] = [phase |-> "exited", generation |-> @.generation, base |-> 0,
                                active_request |-> FALSE]]

Unlocked(w) == IF writer = w THEN NoWorker ELSE writer

ProcessExit(w) ==
    /\ process_is_alive(w)
    /\ proc' = Dead(w)
    /\ writer' = Unlocked(w)
    /\ UNCHANGED <<lease, generation, registered, daemon, managed>>

LeaseExpires ==
    /\ lease.live
    /\ lease' = [lease EXCEPT !.live = FALSE]
    /\ UNCHANGED <<generation, proc, writer, registered, daemon, managed>>

-------------------------------------------------------------------------------
(* The supervisor inside the daemon, one operation at a time.                  *)

(* adopt_existing: a live registered process whose lease is still current.  A  *)
(* worker that does not answer connect_control fails the boot, which is then   *)
(* tried again.                                                                *)
Adoptable == /\ registered.state \in {"Ready", "Draining"}
             /\ process_is_alive(registered.worker_id)
             /\ validate(registered.worker_id)

adopt_existing ==
    /\ daemon.step = "down"
    /\ \/ /\ Adoptable
          /\ proc[registered.worker_id].phase \in {"ready", "renewing"}
          /\ managed' = registered.worker_id
       \/ /\ ~Adoptable
          /\ managed' = NoWorker
    /\ daemon' = Idle
    /\ UNCHANGED <<lease, generation, proc, writer, registered>>

(* Mutant: the next generation is read off the lease record alone.             *)
BeginClaimFromLease ==
    /\ daemon.step = "idle"
    /\ ~process_is_alive(managed)
    /\ managed' = NoWorker
    /\ ~lease.live
    /\ lease.generation < MaxGeneration
    /\ lease.revision < MaxRevision
    /\ daemon' = Operation("claiming", NoWorker, lease.revision, lease.generation)
    /\ UNCHANGED <<lease, generation, proc, writer, registered>>

(* start_with_image up to the reads of claim_at: refused while the managed     *)
(* process is alive (AlreadyActive) or the lease is live (Active).             *)
BeginClaim ==
    /\ daemon.step = "idle"
    /\ ~process_is_alive(managed)
    /\ managed' = NoWorker
    /\ \/ /\ ~lease.live
          /\ generation < MaxGeneration
          /\ lease.revision < MaxRevision
          /\ daemon' = Operation("claiming", NoWorker, lease.revision,
                               Max({generation, lease.generation}))
       \/ /\ lease.live
          /\ managed # NoWorker
          /\ UNCHANGED daemon
    /\ UNCHANGED <<lease, generation, proc, writer, registered>>

(* The transaction of claim_at and the spawn: both records move together, or   *)
(* the claim is Contended.                                                     *)
Claim(w) ==
    /\ daemon.step = "claiming"
    /\ proc[w].phase = "unused"
    /\ \/ /\ Exact(daemon.base)
          /\ generation' = daemon.seen + 1
          /\ lease' = [owner |-> w, generation |-> daemon.seen + 1, live |-> TRUE,
                       revision |-> next_revision]
          /\ proc' = [proc EXCEPT ![w].phase = "spawned", ![w].generation = daemon.seen + 1]
          /\ daemon' = Operation("starting", w, 0, 0)
       \/ /\ ~Exact(daemon.base)
          /\ daemon' = Idle
          /\ UNCHANGED <<lease, generation, proc>>
    /\ UNCHANGED <<writer, registered, managed>>

(* Mutant: a spawned child counts as started before it registers.              *)
StartReadyUnregistered ==
    /\ daemon.step = "starting"
    /\ process_is_alive(daemon.worker)
    /\ managed' = daemon.worker
    /\ daemon' = Idle
    /\ UNCHANGED <<lease, generation, proc, writer, registered>>

StartReady ==
    /\ daemon.step = "starting"
    /\ registered = [worker_id |-> daemon.worker, state |-> "Ready"]
    /\ proc[daemon.worker].phase \in {"ready", "renewing"}
    /\ managed' = daemon.worker
    /\ daemon' = Idle
    /\ UNCHANGED <<lease, generation, proc, writer, registered>>

(* The read of release: nothing to delete unless the grant still owns it.      *)
BeginRelease(w) ==
    daemon' = IF same_owner(w)
              THEN Operation("releasing", w, lease.revision, 0)
              ELSE Idle

(* The child failed to start, or the startup timeout kills it and waits.       *)
StartFails ==
    /\ daemon.step = "starting"
    /\ proc' = Dead(daemon.worker)
    /\ writer' = Unlocked(daemon.worker)
    /\ BeginRelease(daemon.worker)
    /\ UNCHANGED <<lease, generation, registered, managed>>

SupervisorRelease ==
    /\ daemon.step = "releasing"
    /\ lease' = IF Exact(daemon.base) THEN NoLease ELSE lease
    /\ daemon' = Idle
    /\ UNCHANGED <<generation, proc, writer, registered, managed>>

monitor ==
    /\ daemon.step = "idle"
    /\ managed # NoWorker
    /\ ~process_is_alive(managed)
    /\ managed' = NoWorker
    /\ BeginRelease(managed)
    /\ UNCHANGED <<lease, generation, proc, writer, registered>>

(* drain, restart, evict_idle and force_replace all end the managed process    *)
(* before its lease is released: the worker shuts down in time or is killed.   *)
drain ==
    /\ daemon.step = "idle"
    /\ managed # NoWorker
    /\ daemon' = Operation("draining", managed, 0, 0)
    /\ UNCHANGED <<lease, generation, proc, writer, registered, managed>>

DrainKill ==
    /\ daemon.step = "draining"
    /\ process_is_alive(daemon.worker)
    /\ proc' = Dead(daemon.worker)
    /\ writer' = Unlocked(daemon.worker)
    /\ UNCHANGED <<lease, generation, registered, daemon, managed>>

(* Mutant: the drain deadline releases the lease of a process still running.   *)
DrainDoneAtDeadline ==
    /\ daemon.step = "draining"
    /\ managed' = NoWorker
    /\ BeginRelease(daemon.worker)
    /\ UNCHANGED <<lease, generation, proc, writer, registered>>

DrainDone ==
    /\ daemon.step = "draining"
    /\ ~process_is_alive(daemon.worker)
    /\ managed' = NoWorker
    /\ BeginRelease(daemon.worker)
    /\ UNCHANGED <<lease, generation, proc, writer, registered>>

(* validate_route and the Execute message: a busy worker answers Failed.       *)
execute_streaming ==
    /\ daemon.step = "idle"
    /\ managed # NoWorker
    /\ validate(managed)
    /\ proc[managed].phase = "ready"
    /\ ~proc[managed].active_request
    /\ proc' = [proc EXCEPT ![managed].active_request = TRUE]
    /\ UNCHANGED <<lease, generation, writer, registered, daemon, managed>>

DaemonCrash ==
    /\ daemon.step # "down"
    /\ daemon' = Down
    /\ managed' = NoWorker
    /\ UNCHANGED <<lease, generation, proc, writer, registered>>

-------------------------------------------------------------------------------
WorkerStep(w) == \/ WorkerValidate(w)
                 \/ WriterGuardAcquire(w)
                 \/ BeginRenew(w)
                 \/ Renew(w)
                 \/ BeginShutdown(w)
                 \/ WorkerRelease(w)

SupervisorStep == \/ adopt_existing
                  \/ BeginClaim
                  \/ \E w \in WorkerIds : Claim(w)
                  \/ StartReady
                  \/ StartFails
                  \/ SupervisorRelease
                  \/ monitor
                  \/ drain
                  \/ DrainKill
                  \/ DrainDone
                  \/ execute_streaming

Next == \/ \E w \in WorkerIds : WorkerStep(w)
        \/ \E w \in WorkerIds : FinishRequest(w) \/ ControlError(w) \/ ProcessExit(w)
        \/ SupervisorStep
        \/ LeaseExpires
        \/ DaemonCrash

Spec == Init /\ [][Next]_vars

(* A scheduled worker loops: its heartbeat comes due, a started renewal ends   *)
(* one way or the other, and a process that returned from main ends.           *)
FairSpec == /\ Spec
            /\ \A w \in WorkerIds :
                  /\ WF_vars(BeginRenew(w))
                  /\ WF_vars(Renew(w))
                  /\ WF_vars(WorkerRelease(w))

-------------------------------------------------------------------------------
(* A request validate_route lets through reaches the process that holds the    *)
(* tree's writer lock: a managed, living worker with a current lease is it.    *)
RouteReachesWriter ==
    managed # NoWorker /\ validate(managed) /\ process_is_alive(managed)
        => writer = managed \/ proc[managed].phase = "closing"

(* Every grant claim_at makes outranks every grant made before it, whatever    *)
(* was released, expired, crashed or overwritten in between.                   *)
GrantsIncrease ==
    [][\A w, v \in WorkerIds :
          /\ w # v
          /\ proc[w].phase = "unused" /\ proc'[w].phase = "spawned"
          => proc'[w].generation > proc[v].generation]_vars

(* The supervisor deletes a lease only once the process it was granted to has  *)
(* ended, so a replacement never starts beside a worker that was let go.       *)
ReleaseAfterExit ==
    [][daemon.step = "releasing" /\ daemon'.step = "idle" /\ lease # lease'
          => ~process_is_alive(lease.owner)]_vars

(* A worker whose tree is owned by another grant stops at a heartbeat, unless  *)
(* its grant is put back first: no process goes on serving without a lease.    *)
LostLeaseStops ==
    \A w \in WorkerIds :
        (proc[w].phase \in {"ready", "renewing", "releasing"} /\ ~same_owner(w))
            ~> (proc[w].phase \in {"closing", "exited"} \/ same_owner(w))

(* "Renews the caller's lease only if its complete ownership tuple still       *)
(* matches": a lease changes hands only to a higher generation.                *)
LeaseNeverRegresses ==
    [][lease # NoLease /\ lease' # NoLease => lease'.generation >= lease.generation]_vars

===============================================================================
