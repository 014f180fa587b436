------------------------------- MODULE Goals -------------------------------
(***************************************************************************)
(* A long-running goal (crates/goals) and the continuations it queues in   *)
(* the action inbox.  The service of a worker orders its calls with a      *)
(* mutex, and the worker is the only writer of the session, so a call with *)
(* one durable write is one step.  Ending a goal is not: its continuations *)
(* are cancelled one by one, before the transition is even known to be     *)
(* legal, while the pump goes on taking them up.                           *)
(*                                                                         *)
(* The nine limits are one: usage counts towards limit, and time may use   *)
(* up what is left of it.                                                  *)
(***************************************************************************)
EXTENDS Integers, FiniteSets

CONSTANTS
  Actions,      \* action identities for continuations
  MaxLimit,     \* bound on the limit a caller may set
  MaxCalls,     \* bound on calls of the service
  NoState       \* no state to resume

GoalStates == {"Draft", "Ready", "Running", "Waiting", "Reviewing", "Paused",
               "Blocked", "Complete", "Failed", "Cancelled"}
Final == {"Complete", "Failed", "Cancelled"}
Options == {"none", "some"}

VARIABLES
  goal,     \* the goal record
  conts,    \* conts[a]: the continuation under action identity a
  ending,   \* the terminal transition in progress
  calls     \* calls so far

goalVars == <<goal, conts, ending, calls>>

NotEnding == [next |-> NoState, todo |-> {}]

allows(from, next) ==
  next \in CASE from = "Draft"     -> {"Ready", "Cancelled"}
             [] from = "Ready"     -> {"Running", "Paused", "Cancelled"}
             [] from = "Running"   -> {"Waiting", "Reviewing", "Paused", "Blocked"} \cup Final
             [] from = "Waiting"   -> {"Running", "Paused", "Blocked", "Failed", "Cancelled"}
             [] from = "Reviewing" -> {"Running", "Paused", "Blocked"} \cup Final
             [] from = "Paused"    -> {"Ready", "Running", "Waiting", "Reviewing", "Cancelled"}
             [] from = "Blocked"   -> {"Running", "Paused", "Failed", "Cancelled"}
             [] OTHER              -> {}

Live == {a \in Actions : conts[a] \in {"queued", "running"}}

(* create                                                                   *)
Init ==
  /\ goal \in [state : {"Draft"}, limit : 1 .. MaxLimit, usage : {0},
               waiting_condition_id : {"none"}, resume_state : {NoState},
               archived_at : {"none"}]
  /\ conts = [a \in Actions |-> "none"]
  /\ ending = NotEnding
  /\ calls = 0
-----------------------------------------------------------------------------
(* A call takes the lock, and refuses an archived goal.                     *)
Enter == /\ ending = NotEnding
         /\ goal.archived_at = "none"
         /\ calls < MaxCalls
         /\ calls' = calls + 1

AtLimit == goal.usage >= goal.limit

edit(limit, condition) ==
  /\ Enter
  /\ goal.state \in {"Draft", "Ready", "Paused", "Blocked"}
  /\ goal.usage <= limit
  /\ goal' = [goal EXCEPT !.limit = limit, !.waiting_condition_id = condition]
  /\ UNCHANGED <<conts, ending>>

(* transition to a state that is not terminal                               *)
transition(next) ==
  /\ Enter
  /\ next \notin Final
  /\ allows(goal.state, next)
  /\ next = "Waiting" => goal.waiting_condition_id # "none"
  /\ goal' = [goal EXCEPT !.state = next, !.resume_state = NoState]
  /\ UNCHANGED <<conts, ending>>

pause ==
  /\ Enter
  /\ allows(goal.state, "Paused")
  /\ goal' = [goal EXCEPT !.state = "Paused",
       !.resume_state = IF goal.state = "Blocked" THEN "Running" ELSE goal.state]
  /\ UNCHANGED <<conts, ending>>

ResumeState == IF goal.state = "Blocked" THEN "Running"
               ELSE IF goal.resume_state = NoState THEN "Ready" ELSE goal.resume_state

(* Mutant: resume forgets the condition.                                    *)
resume_any ==
  /\ Enter
  /\ ~AtLimit
  /\ goal.state \in {"Paused", "Blocked"}
  /\ goal' = [goal EXCEPT !.state = ResumeState,
       !.resume_state = IF goal.state = "Paused" THEN NoState ELSE @]
  /\ UNCHANGED <<conts, ending>>

resume ==
  /\ Enter
  /\ ~AtLimit
  /\ goal.state \in {"Paused", "Blocked"}
  /\ ResumeState = "Waiting" => goal.waiting_condition_id # "none"
  /\ goal' = [goal EXCEPT !.state = ResumeState,
       !.resume_state = IF goal.state = "Paused" THEN NoState ELSE @]
  /\ UNCHANGED <<conts, ending>>

block ==
  /\ Enter
  /\ allows(goal.state, "Blocked")
  /\ goal' = [goal EXCEPT !.state = "Blocked"]
  /\ UNCHANGED <<conts, ending>>

(* bounded_usage clamps, and the goal blocks at the limit.                  *)
record_usage(delta) ==
  LET usage == IF goal.usage + delta > goal.limit THEN goal.limit ELSE goal.usage + delta IN
  /\ Enter
  /\ goal.state \in {"Running", "Waiting", "Reviewing"}
  /\ goal' = [goal EXCEPT !.usage = usage,
       !.state = IF usage >= goal.limit THEN "Blocked" ELSE @]
  /\ UNCHANGED <<conts, ending>>

archive ==
  /\ Enter
  /\ goal.state \in Final
  /\ goal' = [goal EXCEPT !.archived_at = "some"]
  /\ UNCHANGED <<conts, ending>>

(* enqueue_continuation: time may have used the limit up; otherwise a       *)
(* continuation that is still open is returned, or a new one is submitted.  *)
enqueue_continuation(a) ==
  /\ Enter
  /\ goal.state = "Running"
  /\ \/ /\ \E used \in {goal.usage, goal.limit} :
             /\ used >= goal.limit
             /\ goal' = [goal EXCEPT !.state = "Blocked", !.usage = used]
        /\ UNCHANGED conts
     \/ /\ ~AtLimit /\ Live = {} /\ conts[a] = "none"
        /\ conts' = [conts EXCEPT ![a] = "queued"]
        /\ UNCHANGED goal
  /\ UNCHANGED ending
-----------------------------------------------------------------------------
(* Mutant: only running continuations are cancelled.                        *)
BeginEndRunning(next) ==
  /\ Enter
  /\ next \in Final
  /\ ending' = [next |-> next, todo |-> {a \in Live : conts[a] = "running"}]
  /\ UNCHANGED <<goal, conts>>

(* transition to a terminal state: cancel_continuations, whose refusal ends *)
(* the call, and then transition_stored.                                    *)
BeginEnd(next) ==
  /\ Enter
  /\ next \in Final
  /\ ending' = [next |-> next, todo |-> Live]
  /\ UNCHANGED <<goal, conts>>

cancel_continuations(a) ==
  /\ a \in ending.todo
  /\ \/ /\ a \in Live
        /\ conts' = [conts EXCEPT ![a] = "settled"]
        /\ ending' = [ending EXCEPT !.todo = @ \ {a}]
     \/ /\ a \notin Live \/ conts[a] = "running"   \* settled, or moved meanwhile
        /\ ending' = NotEnding
        /\ UNCHANGED conts
  /\ UNCHANGED <<goal, calls>>

transition_stored ==
  /\ ending # NotEnding /\ ending.todo = {}
  /\ goal' = IF allows(goal.state, ending.next)
             THEN [goal EXCEPT !.state = ending.next, !.resume_state = NoState]
             ELSE goal
  /\ ending' = NotEnding
  /\ UNCHANGED <<conts, calls>>

(* The worker dies in the middle of it.                                     *)
Crash ==
  /\ ending # NotEnding
  /\ ending' = NotEnding
  /\ UNCHANGED <<goal, conts, calls>>

(* The pump takes a continuation up and settles it, whatever the state of   *)
(* the goal (action_text).                                                  *)
TakeUp(a) ==
  /\ conts[a] = "queued"
  /\ conts' = [conts EXCEPT ![a] = "running"]
  /\ UNCHANGED <<goal, ending, calls>>

Finish(a) ==
  /\ conts[a] = "running"
  /\ conts' = [conts EXCEPT ![a] = "settled"]
  /\ UNCHANGED <<goal, ending, calls>>

Next ==
  \/ \E l \in 1 .. MaxLimit, c \in Options : edit(l, c)
  \/ \E next \in GoalStates : transition(next) \/ BeginEnd(next)
  \/ \E d \in 0 .. MaxLimit : record_usage(d)
  \/ pause \/ resume \/ block \/ archive
  \/ \E a \in Actions :
       enqueue_continuation(a) \/ cancel_continuations(a) \/ TakeUp(a) \/ Finish(a)
  \/ transition_stored \/ Crash

Spec == Init /\ [][Next]_goalVars
-----------------------------------------------------------------------------
GoalRecord ==
  [state : GoalStates, limit : 1 .. MaxLimit, usage : Nat, waiting_condition_id : Options,
   resume_state : GoalStates \cup {NoState}, archived_at : Options]

(* Every variable keeps its type.                                           *)
TypeOK ==
  /\ goal \in GoalRecord
  /\ conts \in [Actions -> {"none", "queued", "running", "settled"}]
  /\ ending \in [next : GoalStates \cup {NoState}, todo : SUBSET Actions]
  /\ calls \in Nat

(* A goal that ended has no continuation left to run, although they are     *)
(* cancelled one by one before the goal is stored, each cancellation may    *)
(* lose to the pump, and the worker may die on the way (transition,         *)
(* cancel_continuations).                                                   *)
EndedIsQuiet == goal.state \in Final => Live = {}

(* enqueue_continuation never has two continuations of a goal open at once. *)
OneContinuation == \A a, b \in Live : a = b

(* A goal waits only for a named condition, and its usage stays within its  *)
(* limit, through every order of editing, pausing, blocking, resuming and   *)
(* recording (edit, resume, transition_stored, bounded_usage).              *)
WithinTerms ==
  /\ goal.state = "Waiting" => goal.waiting_condition_id # "none"
  /\ goal.usage <= goal.limit
=============================================================================
