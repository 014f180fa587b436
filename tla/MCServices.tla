----------------------------- MODULE MCServices -----------------------------
(***************************************************************************)
(* Instances of the durable services of a session: its action inbox, its   *)
(* children and a goal.  `part' names the one whose calls are explored,    *)
(* the others stay as they are: "inbox" is the life of two actions,        *)
(* "queue" three submissions to a queue of one.                            *)
(***************************************************************************)
EXTENDS ActionInbox, TLC

CONSTANTS
  s1, a1, a2, a3,      \* a session, and actions
  y1, y2,              \* two actions, or two children
  pump, goals,         \* two inbox instances
  NoState, Absent

VARIABLES
  part,
  queue, submits, time, before,                                       \* the queue
  goal, conts, ending, calls,                                         \* a goal
  children, sessions, snapshots, messages, runtimes, op, up, crashes  \* children

Shape(priority, delivery, payload, not_before, deadline) ==
  [session_id |-> s1,
   source     |-> IF payload = "evolution" THEN "evolution" ELSE "ordinary",
   delivery   |-> delivery, priority |-> priority,
   not_before |-> not_before, deadline |-> deadline, payload |-> payload]

(* User prompts with a deadline and a background action with a start time. *)
MCRequests ==
  {Shape("User", "Immediate", "text", 0, 1),
   Shape("Background", "WhenIdle", "evolution", 1, MaxTime + 1)}

Q == INSTANCE ActionInbox WITH
       records <- queue, ops <- submits, now <- time, earlier <- before,
       ActionIds <- {a1, a2, a3}, MaxQueued <- 1, MaxRevision <- 2

(* A goal with up to three continuations, and seven calls.                 *)
L == INSTANCE Goals WITH Actions <- {a1, a2, a3}, MaxLimit <- 2, MaxCalls <- 7

(* Two children, one of which may be below the other, and a crash.         *)
C == INSTANCE Children WITH
       Ids <- {y1, y2}, Root <- s1, MaxDepth <- 2, MaxDirect <- 2, MaxDescendants <- 2,
       MaxMessages <- 1, MaxCrashes <- 1

inboxVars == <<records, ops, now, earlier>>
queueVars == <<queue, submits, time, before>>
goalVars == <<goal, conts, ending, calls>>
childVars == <<children, sessions, snapshots, messages, runtimes, op, up, crashes>>
allVars == <<part, inboxVars, queueVars, goalVars, childVars>>

Identities == Permutations({y1, y2}) \cup Permutations({a1, a2, a3})

ServicesInit ==
  /\ part \in {"inbox", "queue", "goal", "children"}
  /\ Init /\ Q!Init /\ L!Init /\ C!Init
  /\ part # "goal" => goal.limit = 1

Inbox == part = "inbox" /\ Next /\ UNCHANGED <<part, queueVars, goalVars, childVars>>
Queue == part = "queue" /\ Q!Next /\ UNCHANGED <<part, inboxVars, goalVars, childVars>>
Goal == part = "goal" /\ L!Next /\ UNCHANGED <<part, inboxVars, queueVars, childVars>>
Tree == part = "children" /\ C!Next /\ UNCHANGED <<part, inboxVars, queueVars, goalVars>>

ServicesNext == Inbox \/ Queue \/ Goal \/ Tree

ServicesSpec == ServicesInit /\ [][ServicesNext]_allVars
-----------------------------------------------------------------------------
(* A session's queue exceeds its bound by less than the number of inbox    *)
(* instances (PersistentActionInbox::submit).                              *)
QueueWithin == part = "queue" => Q!QueueBound

(* A goal has one continuation open at most, and none is left to run once   *)
(* it has ended (GoalService::enqueue_continuation, transition).            *)
ContinuationsInOrder == part = "goal" => L!OneContinuation /\ L!EndedIsQuiet

(* A goal waits only for a named condition and stays within its limit       *)
(* (GoalService::edit, resume, record_usage).                               *)
WithinTerms == part = "goal" => L!WithinTerms

(* A worker has an actor for exactly the children that are not settled, and *)
(* whatever is stored for a child has the child's record before it          *)
(* (ChildCoordinator::create, stop_runtime, recover_active, delete).        *)
ChildrenInOrder ==
  part = "children" => C!TypeOK /\ C!ActorsFollowRecords /\ C!RecordLeads

(* No child is too deep and the tree never too large (create, adopt).       *)
WithinLimits == part = "children" => C!WithinLimits
=============================================================================
