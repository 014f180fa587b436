-------------------------- MODULE ActionInboxProofs --------------------------
(* Proofs about the action inbox for any number of actions, instances,      *)
(* sessions and request shapes.                                             *)
EXTENDS ActionInbox, FiniteSetTheorems, TLAPS

(* What instance i may still write.                                         *)
Pending(i) == ops[i].expiries \cup ({ops[i].final} \ {NoWrite})

(* A pending write steps its record by one revision and, as long as the     *)
(* record is the one it was computed from, by a legal transition.           *)
Current(w) ==
  /\ w.record.revision = w.base + 1
  /\ w.base # Missing => w.id \in Stored
  /\ w.id \in Stored =>
       /\ w.base <= records[w.id].revision
       /\ w.base = records[w.id].revision =>
            allows(records[w.id].state, w.record.state)

(* No record of w's session other than w's own is running.                  *)
AloneRunning(w) ==
  \A other \in Stored \ {w.id} :
    records[other].action.session_id = w.record.action.session_id
      => records[other].state # "Running"

(* Only the pump writes Running, and while it is about to, no other record  *)
(* of that session is running: every other instance leaves that so.         *)
PendingInv ==
  \A i \in Instances : \A w \in Pending(i) :
    /\ Current(w)
    /\ w.record.state = "Running" =>
         i = Pump /\ w = ops[i].final /\ AloneRunning(w)

InboxInv == TypeOK /\ SingleRunning /\ PendingInv
-----------------------------------------------------------------------------
LEMMA WriteType ==
  ASSUME TypeOK, NEW id \in ActionIds, id \in Stored, NEW next \in States,
         CanTransition(id, next)
  PROVE  /\ transition_stored(id, next) \in Write
         /\ transition_stored(id, next).id = id
         /\ transition_stored(id, next).record.state = next
         /\ transition_stored(id, next).record.action = records[id].action
         /\ Current(transition_stored(id, next))
  <1>1. records[id] \in ActionRecord
    BY DEF TypeOK, Stored
  <1>2. records[id].revision + 1 \in 0 .. MaxRevision
    BY <1>1, InboxAssumption DEF CanTransition, ActionRecord
  <1>3. [records[id] EXCEPT !.state = next, !.revision = @ + 1] \in ActionRecord
    BY <1>1, <1>2 DEF ActionRecord
  <1>4. /\ transition_stored(id, next) \in Write
        /\ transition_stored(id, next).id = id
        /\ transition_stored(id, next).base = records[id].revision
        /\ transition_stored(id, next).record.state = next
        /\ transition_stored(id, next).record.action = records[id].action
        /\ transition_stored(id, next).record.revision = records[id].revision + 1
    BY <1>1, <1>3 DEF transition_stored, Write, ActionRecord
  <1>5. records[id].revision \in Nat
    BY <1>1, InboxAssumption DEF ActionRecord
  <1> QED
    BY <1>4, <1>5 DEF Current, CanTransition

LEMMA PendingType ==
  ASSUME TypeOK, NEW i \in Instances, NEW w \in Pending(i)
  PROVE  w \in Write
  BY DEF TypeOK, Operation, Pending

LEMMA IdleType ==
  /\ Idle \in Operation
  /\ Idle.expiries = {} /\ Idle.final = NoWrite
  BY DEF Idle, Operation

(* A new operation keeps the invariant when the writes it plans do.         *)
LEMMA BeginInv ==
  ASSUME InboxInv, NEW i \in Instances,
         NEW kind \in {"submit", "select", "transition"},
         NEW expiries \in SUBSET Write, NEW final \in Write \cup {NoWrite},
         Begin(i, kind, expiries, final),
         \A w \in expiries : Current(w) /\ w.record.state # "Running",
         final # NoWrite =>
           /\ Current(final)
           /\ final.record.state = "Running" => i = Pump /\ AloneRunning(final)
  PROVE  InboxInv'
  <1> DEFINE op == [kind |-> kind, expiries |-> expiries, final |-> final,
                    seen |-> IF kind = "submit" THEN Stored ELSE {}]
  <1>1. op \in Operation
    <2>1. Stored \in SUBSET ActionIds
      BY DEF Stored
    <2> QED BY <2>1 DEF Operation
  <1>2. TypeOK'
    BY <1>1 DEF Begin, TypeOK, InboxInv
  <1>3. SingleRunning'
    BY DEF InboxInv, SingleRunning, Begin, Stored
  <1>4. PendingInv'
    <2> SUFFICES ASSUME NEW j \in Instances, NEW w \in Pending(j)'
                 PROVE  (/\ Current(w)
                         /\ w.record.state = "Running" =>
                              j = Pump /\ w = ops[j].final /\ AloneRunning(w))'
      BY DEF PendingInv
    <2>1. /\ records' = records /\ ops' = [ops EXCEPT ![i] = op]
          /\ ops \in [Instances -> Operation]
      BY DEF Begin, InboxInv, TypeOK
    <2>2. (Current(w) <=> Current(w)') /\ (AloneRunning(w) <=> AloneRunning(w)')
      BY <2>1 DEF Current, AloneRunning, Stored
    <2>3. CASE j # i
      BY <2>1, <2>2, <2>3 DEF InboxInv, PendingInv, Pending
    <2>4. CASE j = i
      BY <2>1, <2>2, <2>4 DEF Pending
    <2> QED BY <2>3, <2>4
  <1> QED BY <1>2, <1>3, <1>4 DEF InboxInv

(* A put that its precondition admits keeps the invariant, when the         *)
(* operations that remain only drop writes.                                 *)
LEMMA ApplyInv ==
  ASSUME InboxInv, NEW i \in Instances, NEW w \in Pending(i),
         check_precondition(w), Apply(w),
         ops' \in [Instances -> Operation],
         earlier' \in [ActionIds -> SUBSET ActionIds], UNCHANGED now,
         \A j \in Instances \ {i} : ops'[j] = ops[j],
         \A v \in Pending(i)' : v \in Pending(i) /\ ops'[i].final = ops[i].final
  PROVE  InboxInv'
  <1>1. w \in Write
    BY PendingType DEF InboxInv
  <1>2. /\ records' = [records EXCEPT ![w.id] = w.record]
        /\ records \in [ActionIds -> ActionRecord \cup {NoRecord}]
        /\ w.id \in ActionIds /\ w.record \in ActionRecord
        /\ NoRecord \notin ActionRecord
    BY <1>1, InboxAssumption DEF Apply, InboxInv, TypeOK, Write
  <1>3. TypeOK'
    BY <1>2 DEF TypeOK, InboxInv
  <1>4. Stored' = Stored \cup {w.id}
    BY <1>2 DEF Stored
  <1>5. SingleRunning'
    <2>1. CASE w.record.state # "Running"
      BY <1>2, <1>4, <2>1 DEF InboxInv, SingleRunning
    <2>2. CASE w.record.state = "Running"
      <3>1. AloneRunning(w)
        BY <2>2 DEF InboxInv, PendingInv
      <3> QED BY <1>2, <1>4, <3>1 DEF InboxInv, SingleRunning, AloneRunning
    <2> QED BY <2>1, <2>2
  <1>6. ASSUME NEW v \in Write, Current(v) PROVE Current(v)'
    <2>1. Current(w)
      BY DEF InboxInv, PendingInv
    <2>2. /\ v.base \in Int /\ v.record.revision \in Int
          /\ w.base \in Int /\ w.record.revision \in Nat
      BY <1>1, InboxAssumption DEF Write, Missing, ActionRecord
    <2>3. CASE v.id # w.id
      BY <1>2, <1>4, <1>6, <2>3 DEF Current, Write
    <2>4. CASE v.id = w.id
      <3>1. v.base < w.record.revision
        <4>1. CASE w.id \in Stored
          BY <1>6, <2>1, <2>2, <2>4, <4>1 DEF Current, check_precondition, Stored
        <4>2. CASE w.id \notin Stored
          BY <1>6, <2>1, <2>2, <2>4, <4>2 DEF Current, Missing
        <4> QED BY <4>1, <4>2
      <3>2. records'[v.id] = w.record
        BY <1>2, <2>4
      <3> QED BY <1>4, <1>6, <2>2, <2>4, <3>1, <3>2 DEF Current
    <2> QED BY <2>3, <2>4
  <1>7. PendingInv'
    <2> SUFFICES ASSUME NEW j \in Instances, NEW v \in Pending(j)'
                 PROVE  (/\ Current(v)
                         /\ v.record.state = "Running" =>
                              j = Pump /\ v = ops[j].final /\ AloneRunning(v))'
      BY DEF PendingInv
    <2>1. v \in Pending(j) /\ ops'[j].final = ops[j].final
      BY DEF Pending
    <2>2. v \in Write /\ Current(v)
      BY <2>1, PendingType DEF InboxInv, PendingInv
    <2>3. ASSUME v.record.state = "Running"
          PROVE  w.record.state # "Running" \/ w = v
      <3>1. j = Pump /\ v = ops[j].final
        BY <2>1, <2>3 DEF InboxInv, PendingInv
      <3> SUFFICES ASSUME w.record.state = "Running" PROVE w = v
        OBVIOUS
      <3>2. i = Pump /\ w = ops[i].final
        BY DEF InboxInv, PendingInv
      <3> QED BY <3>1, <3>2
    <2>4. ASSUME v.record.state = "Running"
          PROVE  AloneRunning(v)'
      <3>1. AloneRunning(v)
        BY <2>1, <2>4 DEF InboxInv, PendingInv
      <3> QED BY <1>2, <1>4, <2>3, <2>4, <3>1 DEF AloneRunning
    <2> QED BY <1>6, <2>1, <2>2, <2>4 DEF InboxInv, PendingInv
  <1> QED BY <1>3, <1>5, <1>7 DEF InboxInv

(* Dropping pending writes keeps the invariant.                             *)
LEMMA DropInv ==
  ASSUME InboxInv, UNCHANGED <<records, earlier>>, now' \in Times,
         ops' \in [Instances -> Operation],
         \A j \in Instances : ops'[j] = ops[j] \/ ops'[j] = Idle
  PROVE  InboxInv'
  <1>1. TypeOK' /\ SingleRunning'
    BY DEF InboxInv, TypeOK, SingleRunning, Stored
  <1>2. \A j \in Instances : Pending(j)' # {} => ops'[j] = ops[j]
    BY IdleType DEF Pending
  <1>3. PendingInv'
    BY <1>2 DEF InboxInv, PendingInv, Current, AloneRunning, Stored, Pending
  <1> QED BY <1>1, <1>3 DEF InboxInv
-----------------------------------------------------------------------------
LEMMA InitInv == Init => InboxInv
  <1> SUFFICES ASSUME Init PROVE InboxInv
    OBVIOUS
  <1>1. TypeOK
    BY IdleType, InboxAssumption DEF Init, TypeOK, Times
  <1>2. \A i \in Instances : Pending(i) = {}
    BY IdleType DEF Init, Pending
  <1>3. Stored = {}
    BY DEF Init, Stored
  <1> QED BY <1>1, <1>2, <1>3 DEF InboxInv, SingleRunning, PendingInv

LEMMA SubmitInv ==
  ASSUME InboxInv, NEW i \in Instances, NEW id \in ActionIds,
         NEW a \in Requests, BeginSubmit(i, id, a)
  PROVE  InboxInv'
  <1> DEFINE state == IF now >= a.deadline THEN "Expired" ELSE "Queued"
             write(n) == [id |-> id, base |-> Missing,
                          record |-> [action |-> a, state |-> state,
                                      enqueue_sequence |-> n, revision |-> 0]]
  <1>1. PICK n \in 1 .. MaxSequence : Begin(i, "submit", {}, write(n))
    BY DEF BeginSubmit
  <1>2. a \in SessionAction /\ state \in {"Expired", "Queued"}
    BY InboxAssumption
  <1>3. write(n) \in Write
    BY <1>2, InboxAssumption DEF Write, ActionRecord, States
  <1>4. Current(write(n))
    BY DEF Current, Missing, BeginSubmit
  <1> HIDE DEF write
  <1>5. write(n).record.state # "Running"
    BY <1>2 DEF write
  <1> QED BY <1>1, <1>3, <1>4, <1>5, BeginInv

LEMMA SelectInv ==
  ASSUME InboxInv, NEW i \in Instances, NEW s \in Sessions,
         NEW context \in Contexts, BeginSelectNext(i, s, context)
  PROVE  InboxInv'
  <1> DEFINE expiries == {transition_stored(id, "Expired") : id \in Overdue(s)}
  <1>1. \A w \in expiries :
          w \in Write /\ Current(w) /\ w.record.state # "Running"
    <2> SUFFICES ASSUME NEW id \in Overdue(s)
                 PROVE  LET w == transition_stored(id, "Expired")
                        IN  w \in Write /\ Current(w) /\ w.record.state # "Running"
      OBVIOUS
    <2>1. id \in ActionIds /\ id \in Stored /\ CanTransition(id, "Expired")
      BY DEF Overdue, InSession, Stored, BeginSelectNext
    <2> QED BY <2>1, WriteType DEF InboxInv, States
  <1>2. ASSUME NEW id \in EligibleIn(s, context), CanTransition(id, "Admitted")
        PROVE  LET w == transition_stored(id, "Admitted")
               IN  w \in Write /\ Current(w) /\ w.record.state # "Running"
    <2>1. id \in ActionIds /\ id \in Stored
      BY DEF EligibleIn, InSession, Stored
    <2> QED BY <1>2, <2>1, WriteType DEF InboxInv, States
  <1>3. CASE Begin(i, "select", expiries, NoWrite)
    BY <1>1, <1>3, BeginInv
  <1>4. CASE \E id \in EligibleIn(s, context) :
               /\ CanTransition(id, "Admitted")
               /\ Begin(i, "select", expiries, transition_stored(id, "Admitted"))
    BY <1>1, <1>2, <1>4, BeginInv
  <1> QED BY <1>3, <1>4 DEF BeginSelectNext

LEMMA MarkRunningInv ==
  ASSUME InboxInv, NEW id \in ActionIds, BeginMarkRunning(Pump, id)
  PROVE  InboxInv'
  <1> DEFINE w == transition_stored(id, "Running")
  <1>1. id \in Stored /\ CanTransition(id, "Running")
        /\ Begin(Pump, "transition", {}, w)
    BY DEF BeginMarkRunning
  <1>2. /\ w \in Write /\ w.id = id /\ Current(w)
        /\ w.record.action = records[id].action
    BY <1>1, WriteType DEF InboxInv, States
  <1> HIDE DEF w
  <1>3. AloneRunning(w)
    BY <1>2 DEF AloneRunning, BeginMarkRunning, InSession
  <1> QED BY <1>1, <1>2, <1>3, BeginInv, InboxAssumption

LEMMA TransitionInv ==
  ASSUME InboxInv, NEW i \in Instances, NEW id \in ActionIds,
         NEW next \in States \ {"Running"}, BeginTransition(i, id, next)
  PROVE  InboxInv'
  <1> DEFINE w == transition_stored(id, next)
  <1>1. id \in Stored /\ CanTransition(id, next) /\ Begin(i, "transition", {}, w)
    BY DEF BeginTransition
  <1>2. w \in Write /\ Current(w) /\ w.record.state # "Running"
    BY <1>1, WriteType DEF InboxInv
  <1> HIDE DEF w
  <1> QED BY <1>1, <1>2, BeginInv

LEMMA WriteExpiryInv ==
  ASSUME InboxInv, NEW i \in Instances, WriteExpiry(i)
  PROVE  InboxInv'
  <1>1. PICK w \in ops[i].expiries :
          IF check_precondition(w)
          THEN Apply(w) /\ ops' = [ops EXCEPT ![i].expiries = @ \ {w}]
          ELSE ops' = [ops EXCEPT ![i] = Idle] /\ UNCHANGED records
    BY DEF WriteExpiry
  <1>2. UNCHANGED <<now, earlier>> /\ ops \in [Instances -> Operation]
        /\ earlier \in [ActionIds -> SUBSET ActionIds] /\ now \in Times
    BY DEF WriteExpiry, InboxInv, TypeOK
  <1>3. CASE check_precondition(w)
    <2>1. /\ ops' \in [Instances -> Operation]
          /\ ops'[i].final = ops[i].final
          /\ ops'[i].expiries = ops[i].expiries \ {w}
          /\ \A j \in Instances \ {i} : ops'[j] = ops[j]
      BY <1>1, <1>2, <1>3 DEF Operation
    <2>2. w \in Pending(i)
      BY DEF Pending
    <2>3. \A v \in Pending(i)' : v \in Pending(i)
      BY <2>1 DEF Pending
    <2> QED BY <1>1, <1>2, <1>3, <2>1, <2>2, <2>3, ApplyInv
  <1>4. CASE ~check_precondition(w)
    BY <1>1, <1>2, <1>4, IdleType, DropInv
  <1> QED BY <1>3, <1>4

LEMMA WriteFinalInv ==
  ASSUME InboxInv, NEW i \in Instances, WriteFinal(i)
  PROVE  InboxInv'
  <1> DEFINE w == ops[i].final
  <1>1. /\ ops' = [ops EXCEPT ![i] = Idle]
        /\ UNCHANGED now
        /\ ops \in [Instances -> Operation]
        /\ earlier \in [ActionIds -> SUBSET ActionIds] /\ now \in Times
    BY DEF WriteFinal, InboxInv, TypeOK
  <1>2. /\ ops' \in [Instances -> Operation]
        /\ Pending(i)' = {}
        /\ \A j \in Instances \ {i} : ops'[j] = ops[j]
    BY <1>1, IdleType DEF Pending
  <1>3. CASE w # NoWrite /\ check_precondition(w)
    <2>1. w \in Pending(i)
      BY <1>3 DEF Pending
    <2>2. Apply(w)
      BY <1>3 DEF WriteFinal
    <2>3. earlier' \in [ActionIds -> SUBSET ActionIds]
      <3>1. ops[i].seen \in SUBSET ActionIds
        BY <1>1 DEF Operation
      <3> QED BY <1>1, <1>3, <3>1 DEF WriteFinal
    <2> HIDE DEF w
    <2> QED BY <1>1, <1>2, <1>3, <2>1, <2>2, <2>3, ApplyInv
  <1>4. CASE ~(w # NoWrite /\ check_precondition(w))
    <2>1. UNCHANGED <<records, earlier>>
      BY <1>4 DEF WriteFinal
    <2> QED BY <1>1, <1>2, <2>1, DropInv
  <1> QED BY <1>3, <1>4

LEMMA NextInv == InboxInv /\ [Next]_vars => InboxInv'
  <1> SUFFICES ASSUME InboxInv, [Next]_vars PROVE InboxInv'
    OBVIOUS
  <1> Pump \in Instances
    BY InboxAssumption
  <1>1. CASE Submit
    BY <1>1, SubmitInv DEF Submit
  <1>2. CASE SelectNext
    BY <1>2, SelectInv DEF SelectNext
  <1>3. CASE MarkRunning
    BY <1>3, MarkRunningInv DEF MarkRunning
  <1>4. CASE Settle
    BY <1>4, TransitionInv DEF Settle, States
  <1>5. CASE Cancel
    BY <1>5, TransitionInv DEF Cancel, States
  <1>6. CASE \E i \in Instances : WriteExpiry(i)
    BY <1>6, WriteExpiryInv
  <1>7. CASE \E i \in Instances : WriteFinal(i)
    BY <1>7, WriteFinalInv
  <1>8. CASE Crash
    <2>1. UNCHANGED <<records, now, earlier>> /\ ops' = [i \in Instances |-> Idle]
      BY <1>8 DEF Crash
    <2> QED BY <2>1, IdleType, DropInv DEF InboxInv, TypeOK
  <1>9. CASE Tick
    <2>1. UNCHANGED <<records, ops, earlier>> /\ now' \in Times
      BY <1>9, InboxAssumption DEF Tick, InboxInv, TypeOK, Times
    <2> QED BY <2>1, DropInv DEF InboxInv, TypeOK
  <1>10. CASE UNCHANGED vars
    BY <1>10, DropInv DEF vars, InboxInv, TypeOK
  <1> QED BY <1>1, <1>2, <1>3, <1>4, <1>5, <1>6, <1>7, <1>8, <1>9, <1>10 DEF Next

THEOREM InboxInvariant == Spec => []InboxInv
  BY InitInv, NextInv, PTL DEF Spec

(* Every variable keeps its type, whatever the instances interleave.        *)
THEOREM TypeCorrect == Spec => []TypeOK
  <1>1. InboxInv => TypeOK
    BY DEF InboxInv
  <1> QED BY <1>1, InboxInvariant, PTL

(* One turn at a time: mark_running's check, made under the pump's mutex    *)
(* but before its put, still holds when the put lands.                      *)
THEOREM OneTurnAtATime == Spec => []SingleRunning
  <1>1. InboxInv => SingleRunning
    BY DEF InboxInv
  <1> QED BY <1>1, InboxInvariant, PTL
=============================================================================
