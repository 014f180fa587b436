---------------------------- MODULE ActionInbox ----------------------------
(***************************************************************************)
(* The durable, prioritised inbox of session actions                       *)
(* (crates/action-store).  A PersistentActionInbox serialises its own      *)
(* calls with a mutex, but the runtime opens several of them over the same *)
(* database file (one for the action pump, one each for goals, schedules,  *)
(* commitments and attention).  Between instances the only protection is   *)
(* the compare-and-swap on a record's revision, so every operation is two  *)
(* kinds of step here: Begin..., which takes the instance's mutex, reads   *)
(* the table and decides what to write, and Write..., one conditional put. *)
(***************************************************************************)
EXTENDS Integers, FiniteSets

CONSTANTS
  Sessions,        \* session identities
  ActionIds,       \* action identities
  Instances,       \* PersistentActionInbox objects open on the store
  Pump,            \* the instance that selects and runs (LocalRuntime.actions)
  Requests,        \* the SessionAction values callers submit
  MaxQueued,       \* config.max_queued_per_session
  MaxBackground,   \* config.max_background_queued_per_session
  MaxSequence,     \* largest enqueue_sequence (u64::MAX in the code)
  MaxRevision,     \* largest revision (u64::MAX in the code)
  MaxTime,         \* horizon of the clock
  NoRecord,        \* no record stored under an identity
  NoWrite          \* an operation with nothing more to write

Priorities == {"Interrupt", "User", "ChildResult", "Scheduled", "Background"}

States == {"Queued", "Admitted", "Running", "Waiting",
           "Completed", "Failed", "Cancelled", "Expired"}

(* Instants.  An absent not_before is 0 and an absent deadline is          *)
(* MaxTime + 1: neither ever holds an action back.                         *)
Times == 0 .. MaxTime

SessionAction ==
  [session_id : Sessions,
   source     : {"ordinary", "evolution", "evolution_child", "evolution_recursive"},
   delivery   : {"Immediate", "NextTurnBoundary", "WhenIdle"},
   priority   : Priorities,
   not_before : Times,
   deadline   : 1 .. MaxTime + 1,
   payload    : {"text", "empty_text", "steering", "evolution"}]

ActionRecord ==
  [action : SessionAction, state : States,
   enqueue_sequence : 1 .. MaxSequence, revision : 0 .. MaxRevision]

Missing == -1      \* WritePrecondition::Missing; Exact(r) is r itself

Write == [id : ActionIds, base : {Missing} \cup (0 .. MaxRevision), record : ActionRecord]

ASSUME InboxAssumption ==
  /\ Pump \in Instances
  /\ IsFiniteSet(Instances) /\ IsFiniteSet(ActionIds)
  /\ Requests \subseteq SessionAction
  /\ MaxTime \in Nat /\ MaxSequence \in Nat \ {0} /\ MaxRevision \in Nat
  /\ MaxQueued \in Nat \ {0}
  /\ MaxBackground \in 0 .. MaxQueued
  /\ NoRecord \notin ActionRecord /\ NoWrite \notin Write

VARIABLES
  records,   \* the PendingActions collection: id -> record
  ops,       \* ops[i]: what instance i, holding its mutex, still has to write
  now,       \* wall clock
  earlier    \* earlier[id]: records stored before the submission of id began

vars == <<records, ops, now, earlier>>

Idle == [kind |-> "none", expiries |-> {}, final |-> NoWrite, seen |-> {}]

Stored == {id \in ActionIds : records[id] # NoRecord}

InSession(s) == {id \in Stored : records[id].action.session_id = s}

is_terminal(state) == state \in {"Completed", "Failed", "Cancelled", "Expired"}

Live(s) == {id \in InSession(s) : ~is_terminal(records[id].state)}

LiveBackground(s) ==
  {id \in Live(s) : records[id].action.priority = "Background"}

allows(from, next) ==
  next \in CASE from = "Queued"   -> {"Admitted", "Cancelled", "Expired"}
             [] from = "Admitted" -> {"Running", "Completed", "Cancelled", "Expired"}
             [] from = "Running"  -> {"Waiting", "Completed", "Failed", "Cancelled"}
             [] from = "Waiting"  ->
                  {"Admitted", "Completed", "Failed", "Cancelled", "Expired"}
             [] OTHER             -> {}

rank(p) ==
  CASE p = "Interrupt"   -> 0
    [] p = "User"        -> 1
    [] p = "ChildResult" -> 2
    [] p = "Scheduled"   -> 3
    [] p = "Background"  -> 4

validate_action(a) ==
  /\ a.payload # "empty_text"
  /\ a.not_before < a.deadline
  /\ a.delivery = "NextTurnBoundary" => a.payload = "steering"
  /\ (a.source # "ordinary") <=> (a.payload = "evolution")
  /\ a.source # "ordinary" =>
       /\ a.priority = "Background"
       /\ a.delivery = "WhenIdle"
       /\ a.source = "evolution"

(* PumpContext: is a turn active, is it at a boundary, is the session idle *)
Contexts == [active : BOOLEAN, at_turn_boundary : BOOLEAN, session_idle : BOOLEAN]

eligibility(a, context) ==
  CASE a.delivery = "Immediate" ->
         IF a.priority = "Interrupt" /\ a.payload = "steering"
         THEN context.active
         ELSE ~context.active
    [] a.delivery = "NextTurnBoundary" ->
         context.active => context.at_turn_boundary
    [] a.delivery = "WhenIdle" ->
         ~context.active /\ context.session_idle

(* Mutant: the sort forgets the enqueue sequence.                          *)
action_order_by_rank(l, r) ==
  rank(records[l].action.priority) <= rank(records[r].action.priority)

(* Ties on rank and sequence are broken by the random identity, which the  *)
(* model leaves open.                                                      *)
action_order(l, r) ==
  \/ rank(records[l].action.priority) < rank(records[r].action.priority)
  \/ /\ rank(records[l].action.priority) = rank(records[r].action.priority)
     /\ records[l].enqueue_sequence <= records[r].enqueue_sequence
-----------------------------------------------------------------------------
Init ==
  /\ records = [id \in ActionIds |-> NoRecord]
  /\ ops = [i \in Instances |-> Idle]
  /\ now = 0
  /\ earlier = [id \in ActionIds |-> {}]

Begin(i, kind, expiries, final) ==
  /\ ops[i] = Idle
  /\ ops' = [ops EXCEPT ![i] = [kind |-> kind, expiries |-> expiries,
                                final |-> final,
                                seen |-> IF kind = "submit" THEN Stored ELSE {}]]
  /\ UNCHANGED <<records, now, earlier>>

(* n is one more than the largest sequence number the session ever used.   *)
NextSequence(s, n) ==
  /\ \A id \in InSession(s) : records[id].enqueue_sequence < n
  /\ n = 1 \/ \E id \in InSession(s) : records[id].enqueue_sequence = n - 1

(* Mutant: the queue limits are compared with <= and not with <.           *)
BeginSubmitOffByOne(i, id, a) ==
  /\ validate_action(a)
  /\ id \notin Stored
  /\ Cardinality(Live(a.session_id)) <= MaxQueued
  /\ \E n \in 1 .. MaxSequence :
       /\ NextSequence(a.session_id, n)
       /\ Begin(i, "submit", {},
            [id |-> id, base |-> Missing,
             record |-> [action |-> a, state |-> "Queued",
                         enqueue_sequence |-> n, revision |-> 0]])

BeginSubmit(i, id, a) ==
  /\ validate_action(a)
  /\ id \notin Stored
  /\ Cardinality(Live(a.session_id)) < MaxQueued
  /\ a.priority = "Background" =>
       Cardinality(LiveBackground(a.session_id)) < MaxBackground
  /\ \E n \in 1 .. MaxSequence :
       /\ NextSequence(a.session_id, n)
       /\ Begin(i, "submit", {},
            [id |-> id, base |-> Missing,
             record |-> [action |-> a,
                         state |-> IF now >= a.deadline THEN "Expired" ELSE "Queued",
                         enqueue_sequence |-> n, revision |-> 0]])

transition_stored(id, next) ==
  [id |-> id, base |-> records[id].revision,
   record |-> [records[id] EXCEPT !.state = next, !.revision = @ + 1]]

CanTransition(id, next) ==
  /\ allows(records[id].state, next)
  /\ records[id].revision < MaxRevision

Overdue(s) ==
  {id \in InSession(s) : /\ records[id].state \in {"Queued", "Waiting"}
                         /\ now >= records[id].action.deadline}

EligibleIn(s, context) ==
  {id \in InSession(s) \ Overdue(s) :
     /\ records[id].state = "Queued"
     /\ now >= records[id].action.not_before
     /\ eligibility(records[id].action, context)}

(* Expire what is overdue, then admit the first eligible action, if any.   *)
BeginSelectNext(i, s, context) ==
  /\ \A id \in Overdue(s) : CanTransition(id, "Expired")
  /\ LET expiries == {transition_stored(id, "Expired") : id \in Overdue(s)}
         eligible == EligibleIn(s, context)
     IN \/ /\ eligible = {} /\ expiries # {}
           /\ Begin(i, "select", expiries, NoWrite)
        \/ \E id \in eligible :
             /\ \A other \in eligible : action_order(id, other)
             /\ CanTransition(id, "Admitted")
             /\ Begin(i, "select", expiries, transition_stored(id, "Admitted"))

(* Mutant: mark_running does not look for another running turn.            *)
BeginMarkRunningUnchecked(i, id) ==
  /\ id \in Stored
  /\ CanTransition(id, "Running")
  /\ Begin(i, "transition", {}, transition_stored(id, "Running"))

BeginMarkRunning(i, id) ==
  /\ id \in Stored
  /\ \A other \in InSession(records[id].action.session_id) \ {id} :
       records[other].state # "Running"
  /\ CanTransition(id, "Running")
  /\ Begin(i, "transition", {}, transition_stored(id, "Running"))

(* mark_waiting, resume_waiting, complete, fail and cancel.                *)
BeginTransition(i, id, next) ==
  /\ id \in Stored
  /\ CanTransition(id, next)
  /\ Begin(i, "transition", {}, transition_stored(id, next))
-----------------------------------------------------------------------------
(* Mutant: puts carry WritePrecondition::Any.                              *)
check_precondition_any(w) == TRUE

check_precondition(w) ==
  IF records[w.id] = NoRecord
  THEN w.base = Missing
  ELSE w.base = records[w.id].revision

Apply(w) == records' = [records EXCEPT ![w.id] = w.record]

(* One put of the expiry loop; a refused one ends the whole operation.     *)
WriteExpiry(i) ==
  \E w \in ops[i].expiries :
    /\ IF check_precondition(w)
       THEN /\ Apply(w)
            /\ ops' = [ops EXCEPT ![i].expiries = @ \ {w}]
       ELSE /\ ops' = [ops EXCEPT ![i] = Idle]
            /\ UNCHANGED records
    /\ UNCHANGED <<now, earlier>>

WriteFinal(i) ==
  /\ ops[i].expiries = {}
  /\ ops[i] # Idle
  /\ ops' = [ops EXCEPT ![i] = Idle]
  /\ IF ops[i].final # NoWrite /\ check_precondition(ops[i].final)
     THEN /\ Apply(ops[i].final)
          /\ earlier' = IF ops[i].kind = "submit"
                        THEN [earlier EXCEPT ![ops[i].final.id] = ops[i].seen]
                        ELSE earlier
     ELSE UNCHANGED <<records, earlier>>
  /\ UNCHANGED now

(* The process stops: every instance loses what it was about to write.     *)
Crash ==
  /\ \E i \in Instances : ops[i] # Idle
  /\ ops' = [i \in Instances |-> Idle]
  /\ UNCHANGED <<records, now, earlier>>

Tick ==
  /\ now < MaxTime
  /\ now' = now + 1
  /\ UNCHANGED <<records, ops, earlier>>

Submit == \E i \in Instances, id \in ActionIds, a \in Requests : BeginSubmit(i, id, a)
SelectNext == \E s \in Sessions, context \in Contexts : BeginSelectNext(Pump, s, context)
MarkRunning == \E id \in ActionIds : BeginMarkRunning(Pump, id)
Settle ==
  \E id \in ActionIds, next \in {"Waiting", "Admitted", "Completed", "Failed"} :
    BeginTransition(Pump, id, next)
Cancel == \E i \in Instances, id \in ActionIds : BeginTransition(i, id, "Cancelled")

Next ==
  \/ Submit \/ SelectNext \/ MarkRunning \/ Settle \/ Cancel
  \/ \E i \in Instances : WriteExpiry(i)
  \/ \E i \in Instances : WriteFinal(i)
  \/ Crash \/ Tick

Spec == Init /\ [][Next]_vars
-----------------------------------------------------------------------------
Operation ==
  [kind : {"none", "submit", "select", "transition"}, expiries : SUBSET Write,
   final : Write \cup {NoWrite}, seen : SUBSET ActionIds]

(* Every variable keeps its type.                                          *)
TypeOK ==
  /\ records \in [ActionIds -> ActionRecord \cup {NoRecord}]
  /\ ops \in [Instances -> Operation]
  /\ now \in Times
  /\ earlier \in [ActionIds -> SUBSET ActionIds]

(* A session never has two running turns (TurnAlreadyRunning in            *)
(* mark_running), although the check and the write are separate steps and  *)
(* other instances submit, cancel and settle records between them.         *)
SingleRunning ==
  \A a, b \in Stored :
    /\ records[a].action.session_id = records[b].action.session_id
    /\ records[a].state = "Running" /\ records[b].state = "Running"
    => a = b

(* max_queued_per_session is checked on a table read before the put, so    *)
(* instances submitting at the same time may pass it together: the queue   *)
(* overshoots by at most the number of other instances, and never more.    *)
QueueBound ==
  \A s \in Sessions :
    Cardinality(Live(s)) <= MaxQueued + Cardinality(Instances) - 1

(* A terminal record is never rewritten, whatever another instance had     *)
(* read before it became terminal (transition_stored and its               *)
(* compare-and-swap).                                                      *)
TerminalIsFinal ==
  [][\A id \in Stored : is_terminal(records[id].state) => records'[id] = records[id]]_vars

(* FIFO within equal priority: select_next never admits b while an action  *)
(* a that was stored before the submission of b began, and that is         *)
(* eligible whenever b is, is still queued.                                *)
AlikeAction(a, b) ==
  /\ a.session_id = b.session_id /\ a.priority = b.priority
  /\ a.delivery = b.delivery /\ a.not_before <= b.not_before
  /\ (a.payload = "steering") = (b.payload = "steering")

FifoWithinPriority ==
  [][\A i \in Instances : \A b \in Stored : \A a \in earlier[b] :
       /\ ops[i].kind = "select" /\ ops'[i] # ops[i]
       /\ records[b].state = "Queued" /\ records'[b].state = "Admitted"
       /\ AlikeAction(records[a].action, records[b].action)
       => records[a].state # "Queued"]_vars
=============================================================================
