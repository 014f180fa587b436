------------------------------- MODULE Waits -------------------------------
(***************************************************************************)
(* Commitments and the waits that wake them (crates/commitments and        *)
(* crates/waiting), with the part of the runtime that drives both: the     *)
(* maintenance pass expires commitments, signals the time and recovers     *)
(* fired waits, and the pump turns a queued wake into an activation.       *)
(*                                                                         *)
(* Each service orders its own calls with a mutex, but every worker        *)
(* process has services of its own over the same store, so between two     *)
(* workers only the compare-and-swap on a record's revision decides.  An   *)
(* operation is a chain of steps, one per read or conditional put that     *)
(* another worker can fall between.  A trigger is a time: the other kinds  *)
(* are fired by signals of their own through the same code.                *)
(***************************************************************************)
EXTENDS Integers, FiniteSets

CONSTANTS
  Commits,      \* commitment identities
  WaitIds,      \* identities of waits, each with its stable action identity
  Workers,      \* processes with a commitment and a waiting service
  WakeAt,       \* the times a trigger may name
  Expiries,     \* the expiry times a caller may give
  MaxTime,      \* horizon of the clock
  MaxCalls,     \* bound on calls that edit or settle commitments
  MaxFaults,    \* bound on refusals by the action inbox and worker crashes
  Absent,       \* no record under an identity
  NoWait        \* no wait

Never == MaxTime + 1           \* no expiry

NoTrigger == MaxTime + 2
Triggers == WakeAt \cup {NoTrigger}

CommitmentStates == {"Captured", "Scheduled", "Active", "Waiting",
                     "Fulfilled", "Blocked", "Cancelled", "Expired"}
WaitingStates == {"Armed", "Fired", "Resumed", "Cancelled", "Expired"}

Commitment ==
  [state : CommitmentStates, trigger : Triggers,
   expires_at : Expiries \cup {Never}, waiting_id : WaitIds \cup {NoWait},
   revision : Nat]
WaitingItem ==
  [state : WaitingStates, trigger : WakeAt, expires_at : Expiries \cup {Never},
   fired_by : BOOLEAN, revision : Nat]

VARIABLES
  commitments,   \* the Commitments collection
  waits,         \* the Waits collection
  wakes,         \* wakes[x]: the inbox record under the action identity of x
  ops,           \* ops[w]: the operation worker w is in the middle of
  now,           \* wall clock
  spent,         \* calls, refusals and crashes used up
  detached       \* commitments whose wait stopped answering for them

vars == <<commitments, waits, wakes, ops, now, spent, detached>>

(* An operation: what it does next, what its loop still has to visit, the   *)
(* wait and the commitment in hand with the revisions read, the state to    *)
(* store, and the time and the event of a maintenance pass.                 *)
Idle == [kind |-> "idle", todo |-> {}, wait |-> NoWait, rev |-> 0, c |-> Absent,
         crev |-> 0, next |-> "none", at |-> 0, event |-> "none"]

Terminal(state) == state \in {"Fulfilled", "Cancelled", "Expired"}

allows(from, next) ==
  next \in CASE from = "Captured"  -> {"Scheduled", "Active", "Cancelled", "Expired"}
             [] from = "Scheduled" -> CommitmentStates \ {"Captured", "Scheduled"}
             [] from = "Active"    -> CommitmentStates \ {"Captured", "Scheduled", "Active"}
             [] from = "Waiting"   -> CommitmentStates \ {"Captured", "Scheduled", "Waiting"}
             [] from = "Blocked"   -> {"Active", "Cancelled", "Expired"}
             [] OTHER              -> {}

trigger_matches(trigger, t) == t >= trigger

StoredCommits == {c \in Commits : commitments[c] # Absent}
StoredWaits == {x \in WaitIds : waits[x] # Absent}

(* Snapshots a service takes when it lists the waits: identity and revision *)
Loaded(set) == {[id |-> x, rev |-> waits[x].revision] : x \in set}

DueToExpire(t) == {x \in StoredWaits : /\ waits[x].state = "Armed"
                                       /\ waits[x].expires_at <= t}
Matching(t) == {x \in StoredWaits :
                         /\ waits[x].state = "Armed"
                         /\ trigger_matches(waits[x].trigger, t)}
FiredWaits == {x \in StoredWaits : waits[x].state = "Fired"}

Init ==
  /\ commitments = [c \in Commits |-> Absent]
  /\ waits = [x \in WaitIds |-> Absent]
  /\ wakes = [x \in WaitIds |-> "none"]
  /\ ops = [w \in Workers |-> Idle]
  /\ now = 0
  /\ spent = [calls |-> 0, refusals |-> 0, crashes |-> 0]
  /\ detached = {}
-----------------------------------------------------------------------------
(* Conditional puts.                                                        *)
WaitIsAny(x, rev) == TRUE      \* Mutant: a put with no precondition

WaitIs(x, rev) == waits[x].revision = rev

PutWait(x, state) ==
  waits' = [waits EXCEPT ![x].state = state, ![x].revision = @ + 1,
                         ![x].fired_by = @ \/ state = "Fired"]

Goto(w, op) == ops' = [ops EXCEPT ![w] = op]

Call == /\ spent.calls < MaxCalls
        /\ spent' = [spent EXCEPT !.calls = @ + 1]

MayFail == spent.refusals + spent.crashes < MaxFaults
-----------------------------------------------------------------------------
(* The commitment service.                                                  *)
create(c, trigger, expiry) ==
  /\ commitments[c] = Absent
  /\ expiry > now
  /\ commitments' = [commitments EXCEPT ![c] =
       [state |-> IF trigger = NoTrigger THEN "Captured" ELSE "Scheduled",
        trigger |-> trigger, expires_at |-> expiry, waiting_id |-> NoWait,
        revision |-> 0]]
  /\ UNCHANGED <<waits, wakes, ops, now, spent, detached>>

(* begin_waiting registers the wait ...                                     *)
begin_waiting(w, c, x) ==
  /\ ops[w] = Idle
  /\ c \in StoredCommits
  /\ commitments[c].state \in {"Scheduled", "Active"}
  /\ commitments[c].trigger # NoTrigger
  /\ commitments[c].expires_at > now
  /\ waits[x] = Absent
  /\ waits' = [waits EXCEPT ![x] =
       [state |-> "Armed", trigger |-> commitments[c].trigger,
        expires_at |-> commitments[c].expires_at, fired_by |-> FALSE,
        revision |-> 0]]
  /\ Goto(w, [Idle EXCEPT !.kind = "attach", !.wait = x,
                          !.c = c, !.crev = commitments[c].revision])
  /\ UNCHANGED <<commitments, wakes, now, spent, detached>>

(* Mutant: a wait that could not be attached is left armed.                 *)
AttachOnly(w) ==
  /\ ops[w].kind = "attach"
  /\ LET c == ops[w].c IN
     commitments' = IF commitments[c].revision = ops[w].crev
                    THEN [commitments EXCEPT ![c].state = "Waiting",
                            ![c].waiting_id = ops[w].wait, ![c].revision = @ + 1]
                    ELSE commitments
  /\ Goto(w, Idle)
  /\ UNCHANGED <<waits, wakes, now, spent, detached>>

(* ... then stores its identity in the commitment, or cancels it again.     *)
Attach(w) ==
  /\ ops[w].kind = "attach"
  /\ LET c == ops[w].c IN
     IF commitments[c].revision = ops[w].crev
     THEN /\ commitments' = [commitments EXCEPT ![c].state = "Waiting",
                               ![c].waiting_id = ops[w].wait, ![c].revision = @ + 1]
          /\ Goto(w, Idle)
     ELSE /\ Goto(w, [ops[w] EXCEPT !.kind = "cancel", !.next = "none"])
          /\ UNCHANGED commitments
  /\ UNCHANGED <<waits, wakes, now, spent, detached>>

(* update: read and put with no other effect between them, so one step.     *)
update(c, trigger, expiry) ==
  /\ c \in StoredCommits
  /\ Call
  /\ ~Terminal(commitments[c].state)
  /\ expiry > now
  /\ \/ /\ trigger = commitments[c].trigger      \* the trigger is not given
        /\ commitments' = [commitments EXCEPT ![c].expires_at = expiry,
                                              ![c].revision = @ + 1]
     \/ /\ commitments[c].state # "Waiting"
        /\ commitments' = [commitments EXCEPT
             ![c].trigger = trigger, ![c].expires_at = expiry,
             ![c].state = IF trigger = NoTrigger THEN "Captured" ELSE "Scheduled",
             ![c].revision = @ + 1]
  /\ detached' = IF commitments[c].state = "Waiting" /\ expiry # commitments[c].expires_at
                 THEN detached \cup {c} ELSE detached
  /\ UNCHANGED <<waits, wakes, ops, now>>

WaitOpen(x) == x # NoWait /\ waits[x].state \in {"Armed", "Fired"}

(* Mutant: transition leaves the wait alone.                                *)
TransitionAlone(op, c, next) ==
  [op EXCEPT !.kind = "store", !.wait = commitments[c].waiting_id, !.next = next,
             !.c = c, !.crev = commitments[c].revision]

(* transition reads the commitment and lists the waits ...                  *)
Transition(op, c, next) ==
  [op EXCEPT !.kind = IF WaitOpen(commitments[c].waiting_id) THEN "cancel" ELSE "store",
             !.wait = commitments[c].waiting_id, !.next = next,
             !.c = c, !.crev = commitments[c].revision]

(* activate, fulfill, block and cancel, called from outside.                *)
Settle(w, c, next) ==
  /\ ops[w] = Idle
  /\ c \in StoredCommits
  /\ Call
  /\ next \in {"Active", "Fulfilled", "Blocked", "Cancelled"}
  /\ allows(commitments[c].state, next)
  /\ Goto(w, Transition(Idle, c, next))
  /\ UNCHANGED <<commitments, waits, wakes, now, detached>>

(* ... then cancels the wait, ignoring a refusal (WaitingService::cancel    *)
(* reads it again and puts it under the revision read) ...                  *)
AfterCancel(w) ==
  IF ops[w].next = "none" THEN Idle ELSE [ops[w] EXCEPT !.kind = "store"]

CancelRead(w) ==
  /\ ops[w].kind = "cancel"
  /\ Goto(w, IF WaitOpen(ops[w].wait)
             THEN [ops[w] EXCEPT !.kind = "cancel_put", !.rev = waits[ops[w].wait].revision]
             ELSE AfterCancel(w))
  /\ UNCHANGED <<commitments, waits, wakes, now, spent, detached>>

CancelPut(w) ==
  /\ ops[w].kind = "cancel_put"
  /\ IF WaitIs(ops[w].wait, ops[w].rev) THEN PutWait(ops[w].wait, "Cancelled")
                                        ELSE UNCHANGED waits
  /\ Goto(w, AfterCancel(w))
  /\ UNCHANGED <<commitments, wakes, now, spent, detached>>

(* ... and stores the commitment; a refused put ends the whole operation.   *)
Cut(w) ==
  {c \in {ops[w].c} : /\ ops[w].kind = "store"
                      /\ ops[w].wait # NoWait
                      /\ waits[ops[w].wait].state = "Cancelled"}

Store(w) ==
  /\ ops[w].kind = "store"
  /\ LET c == ops[w].c IN
     IF commitments[c].revision = ops[w].crev
     THEN /\ commitments' = [commitments EXCEPT ![c].state = ops[w].next,
                                                ![c].revision = @ + 1]
          /\ Goto(w, IF ops[w].event = "Time"
                     THEN [ops[w] EXCEPT !.kind = "lapse", !.c = Absent, !.wait = NoWait]
                     ELSE Idle)
          /\ UNCHANGED detached
     ELSE /\ Goto(w, Idle)
          /\ detached' = detached \cup Cut(w)
          /\ UNCHANGED commitments
  /\ UNCHANGED <<waits, wakes, now, spent>>
-----------------------------------------------------------------------------
(* maintain_runtime: commitments.expire_due, then waiting.signal(Time),     *)
(* then waiting.recover.  Any error ends the pass.                          *)
Maintain(w) ==
  /\ ops[w] = Idle
  /\ Goto(w, [Idle EXCEPT !.kind = "lapse", !.at = now, !.event = "Time",
       !.todo = {c \in StoredCommits : /\ ~Terminal(commitments[c].state)
                                       /\ commitments[c].expires_at <= now}])
  /\ UNCHANGED <<commitments, waits, wakes, now, spent, detached>>

Expiring(w) ==
  [Idle EXCEPT !.kind = "expire", !.at = ops[w].at, !.event = ops[w].event,
               !.todo = Loaded(DueToExpire(ops[w].at))]

Lapse(w) ==
  /\ ops[w].kind = "lapse"
  /\ \/ ops[w].todo = {} /\ Goto(w, Expiring(w))
     \/ \E c \in ops[w].todo :
          Goto(w, IF allows(commitments[c].state, "Expired")
                  THEN Transition([ops[w] EXCEPT !.todo = @ \ {c}], c, "Expired")
                  ELSE Idle)
  /\ UNCHANGED <<commitments, waits, wakes, now, spent, detached>>

(* expire_due_locked, at the head of signal and of recover; then the second *)
(* listing, of what the call is about.                                      *)
Expire(w) ==
  /\ ops[w].kind = "expire"
  /\ \/ /\ ops[w].todo = {}
        /\ Goto(w, IF ops[w].event = "recover"
                   THEN [ops[w] EXCEPT !.kind = "recover", !.todo = Loaded(FiredWaits)]
                   ELSE [ops[w] EXCEPT !.kind = "fire",
                           !.todo = Loaded(Matching(ops[w].at))])
        /\ UNCHANGED waits
     \/ \E s \in ops[w].todo :
          IF WaitIs(s.id, s.rev)
          THEN /\ PutWait(s.id, "Expired")
               /\ Goto(w, [ops[w] EXCEPT !.todo = @ \ {s}])
          ELSE /\ Goto(w, Idle)
               /\ UNCHANGED waits
  /\ UNCHANGED <<commitments, wakes, now, spent, detached>>

(* Mutant: a fired wait is resumed with nothing queued.                     *)
FireUnqueued(w) ==
  /\ ops[w].kind = "fire"
  /\ \/ /\ ops[w].todo = {}
        /\ Goto(w, [Expiring(w) EXCEPT !.event = "recover"])
        /\ UNCHANGED waits
     \/ \E s \in ops[w].todo :
          /\ WaitIs(s.id, s.rev)
          /\ PutWait(s.id, "Fired")
          /\ Goto(w, [ops[w] EXCEPT !.kind = "resume", !.todo = @ \ {s},
                                    !.wait = s.id, !.rev = s.rev + 1])
  /\ UNCHANGED <<commitments, wakes, now, spent, detached>>

(* signal records Fired; a wait that changed meanwhile is passed over.      *)
Fire(w) ==
  /\ ops[w].kind = "fire"
  /\ \/ /\ ops[w].todo = {}
        /\ Goto(w, [Expiring(w) EXCEPT !.event = "recover"])
        /\ UNCHANGED waits
     \/ \E s \in ops[w].todo :
          IF WaitIs(s.id, s.rev)
          THEN /\ PutWait(s.id, "Fired")
               /\ Goto(w, [ops[w] EXCEPT !.kind = "enqueue", !.todo = @ \ {s},
                                         !.wait = s.id, !.rev = s.rev + 1])
          ELSE /\ Goto(w, [ops[w] EXCEPT !.todo = @ \ {s}])
               /\ UNCHANGED waits
  /\ UNCHANGED <<commitments, wakes, now, spent, detached>>

(* Mutant: recover takes no fired wait up.                                  *)
RecoverNothing(w) ==
  /\ ops[w].kind = "recover"
  /\ Goto(w, Idle)
  /\ UNCHANGED <<commitments, waits, wakes, now, spent, detached>>

Recover(w) ==
  /\ ops[w].kind = "recover"
  /\ \/ ops[w].todo = {} /\ Goto(w, Idle)
     \/ \E s \in ops[w].todo :
          Goto(w, [ops[w] EXCEPT !.kind = "enqueue", !.todo = @ \ {s},
                                 !.wait = s.id, !.rev = s.rev])
  /\ UNCHANGED <<commitments, waits, wakes, now, spent, detached>>

(* enqueue_fired: the action under its stable identity ...                  *)
Enqueue(w) ==
  /\ ops[w].kind = "enqueue"
  /\ LET x == ops[w].wait IN
     \/ /\ wakes' = [wakes EXCEPT ![x] = IF @ = "none" THEN "queued" ELSE @]
        /\ Goto(w, [ops[w] EXCEPT !.kind = "resume"])
        /\ UNCHANGED spent
     \/ /\ wakes[x] = "none" /\ MayFail                      \* submit refused
        /\ spent' = [spent EXCEPT !.refusals = @ + 1]
        /\ Goto(w, [ops[w] EXCEPT !.kind = "note"])
        /\ UNCHANGED wakes
  /\ UNCHANGED <<commitments, waits, now, detached>>

(* ... then Resumed, or safe_error in a record that stays Fired.            *)
Resume(w) ==
  /\ ops[w].kind \in {"resume", "note"}
  /\ IF WaitIs(ops[w].wait, ops[w].rev)
     THEN /\ PutWait(ops[w].wait, IF ops[w].kind = "resume" THEN "Resumed" ELSE "Fired")
          /\ Goto(w, [ops[w] EXCEPT !.wait = NoWait, !.rev = 0,
                        !.kind = IF ops[w].event = "recover" THEN "recover" ELSE "fire"])
     ELSE /\ Goto(w, Idle)
          /\ UNCHANGED waits
  /\ UNCHANGED <<commitments, wakes, now, spent, detached>>
-----------------------------------------------------------------------------
(* The pump takes a queued wake up: action_text looks for the commitment    *)
(* that holds the wait and activates it when it is Waiting.  A refusal      *)
(* fails the action.                                                        *)
TakeWake(w, x) ==
  /\ ops[w] = Idle
  /\ wakes[x] = "queued"
  /\ wakes' = [wakes EXCEPT ![x] = "taken"]
  /\ \/ \E c \in StoredCommits :
          /\ commitments[c].waiting_id = x /\ commitments[c].state = "Waiting"
          /\ Goto(w, [Idle EXCEPT !.kind = "activate", !.c = c])
     \/ /\ \A c \in StoredCommits :
             ~(commitments[c].waiting_id = x /\ commitments[c].state = "Waiting")
        /\ UNCHANGED ops
  /\ UNCHANGED <<commitments, waits, now, spent, detached>>

Activate(w) ==
  /\ ops[w].kind = "activate"
  /\ Goto(w, IF allows(commitments[ops[w].c].state, "Active")
             THEN Transition(Idle, ops[w].c, "Active") ELSE Idle)
  /\ UNCHANGED <<commitments, waits, wakes, now, spent, detached>>

(* A worker dies in the middle of an operation.                             *)
Crash(w) ==
  /\ ops[w] # Idle
  /\ MayFail
  /\ spent' = [spent EXCEPT !.crashes = @ + 1]
  /\ detached' = detached \cup Cut(w)
  /\ Goto(w, Idle)
  /\ UNCHANGED <<commitments, waits, wakes, now>>

Tick ==
  /\ now < MaxTime
  /\ now' = now + 1
  /\ UNCHANGED <<commitments, waits, wakes, ops, spent, detached>>

Step(w) ==
  \/ Attach(w) \/ CancelRead(w) \/ CancelPut(w) \/ Store(w)
  \/ Lapse(w) \/ Expire(w) \/ Fire(w) \/ Recover(w) \/ Enqueue(w) \/ Resume(w)
  \/ Activate(w)

Pump(w) == \E x \in WaitIds : TakeWake(w, x)

Caller ==
  \/ \E c \in Commits, t \in Triggers, e \in Expiries \cup {Never} :
       create(c, t, e) \/ update(c, t, e)
  \/ \E w \in Workers, c \in Commits :
       \/ \E x \in WaitIds : begin_waiting(w, c, x)
       \/ \E next \in CommitmentStates : Settle(w, c, next)

Next ==
  \/ Caller
  \/ \E w \in Workers : Maintain(w) \/ Step(w) \/ Pump(w) \/ Crash(w)
  \/ Tick

Spec == Init /\ [][Next]_vars

(* Maintenance and the pump take turns in every pass of a worker's loop, so *)
(* neither keeps the other out for ever; an operation once begun goes on.   *)
Fairness ==
  \A w \in Workers : WF_vars(Step(w)) /\ WF_vars(Maintain(w)) /\ SF_vars(Pump(w))

FairSpec == Spec /\ Fairness
-----------------------------------------------------------------------------
Operation ==
  [kind : {"idle", "attach", "cancel", "cancel_put", "store", "lapse", "expire",
           "fire", "recover", "enqueue", "resume", "note", "activate"},
   todo : SUBSET (Commits \cup [id : WaitIds, rev : Nat]),
   wait : WaitIds \cup {NoWait}, rev : Nat, c : Commits \cup {Absent}, crev : Nat,
   next : CommitmentStates \cup {"none"}, at : 0 .. MaxTime,
   event : {"none", "Time", "recover"}]

(* Every variable keeps its type.                                           *)
TypeOK ==
  /\ commitments \in [Commits -> Commitment \cup {Absent}]
  /\ waits \in [WaitIds -> WaitingItem \cup {Absent}]
  /\ wakes \in [WaitIds -> {"none", "queued", "taken"}]
  /\ ops \in [Workers -> Operation]
  /\ now \in 0 .. MaxTime
  /\ spent \in [calls : 0 .. MaxCalls, refusals : 0 .. MaxFaults,
                crashes : 0 .. MaxFaults]
  /\ detached \subseteq Commits

(* A wait says Resumed only when its wake is in the inbox, and a wake is    *)
(* there only for a wait that fired, never for one that expired             *)
(* (enqueue_fired, expire_due_locked), whichever workers signal, recover,   *)
(* cancel and die in between.                                               *)
WakeFollowsFire ==
  \A x \in StoredWaits :
    /\ waits[x].state = "Resumed" => wakes[x] # "none"
    /\ wakes[x] # "none" => waits[x].fired_by
    /\ waits[x].state = "Expired" => ~waits[x].fired_by

(* fulfill, cancel and expire_due leave no armed wait behind: the wait of a *)
(* settled commitment can no longer fire, although it is cancelled before   *)
(* the commitment is stored, its cancellation may be refused, and another   *)
(* worker may attach a wait at the same time (CommitmentService::transition).*)
SettledHasNoArmedWait ==
  \A c \in StoredCommits :
    /\ Terminal(commitments[c].state) /\ commitments[c].waiting_id # NoWait
    => waits[commitments[c].waiting_id].state # "Armed"

(* begin_waiting registers first and attaches second.  As long as no worker *)
(* dies in between, an armed wait belongs to a commitment or is in the      *)
(* hands of the operation that will attach or cancel it.                    *)
ArmedHasOwner ==
  spent.crashes = 0 =>
    \A x \in StoredWaits : waits[x].state = "Armed" =>
      \/ \E c \in StoredCommits : commitments[c].waiting_id = x
      \/ \E w \in Workers : /\ ops[w].wait = x
                            /\ ops[w].kind \in {"attach", "cancel", "cancel_put"}

IsWaiting(c) == c \in StoredCommits /\ commitments[c].state = "Waiting"

WakeTaken(c) == IsWaiting(c) /\ wakes[commitments[c].waiting_id] = "taken"

(* A commitment whose time has come wakes: it leaves Waiting, or its wake   *)
(* reached the pump.  The exceptions are the commitments whose wait was     *)
(* taken from them: a transition cancelled it and then could not store the  *)
(* commitment, or the expiry was edited while the wait kept the old one.    *)
DueIsHeard ==
  \A c \in Commits :
    IsWaiting(c) /\ now >= commitments[c].trigger
    ~> ~IsWaiting(c) \/ WakeTaken(c) \/ c \in detached

(* A worker holds a snapshot in which x is fired and will queue its wake    *)
(* without looking at x again.                                              *)
AboutToWake(x) ==
  \E w \in Workers :
    \/ ops[w].kind = "enqueue" /\ ops[w].wait = x
    \/ /\ ops[w].event = "recover" /\ ops[w].kind \in {"recover", "enqueue", "resume", "note"}
       /\ \E s \in ops[w].todo : s.id = x

(* A wake as a hand-over: once it is settled that a wait will not wake its  *)
(* session it never does, and a wake that was queued is never taken back.   *)
Outcome ==
  [x \in WaitIds |->
     IF waits[x] = Absent THEN "absent"
     ELSE IF wakes[x] # "none" THEN "handed over"
     ELSE IF waits[x].state \in {"Cancelled", "Expired"} /\ ~AboutToWake(x)
     THEN "withdrawn" ELSE "open"]

Wake == INSTANCE Settlement WITH Items <- WaitIds, outcome <- Outcome

WakeSettlesOnce == Wake!Spec
=============================================================================
