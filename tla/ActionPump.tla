------------------------------ MODULE ActionPump ------------------------------
(* The runtime's pump over one session's inbox (crates/local-runtime/src/       *)
(* lib.rs: drain_session_actions, reconcile_action_finalizations, run_turn and  *)
(* the recovery at start).  One worker thread drains a session: it reconciles   *)
(* what an earlier run left behind, then admits actions one by one, runs a      *)
(* model turn for each, and hands the final answer to the delivery outbox (and, *)
(* in a child session, to the parent) before it completes the action.           *)
(*                                                                              *)
(* Three durable stores take part and no transaction spans them: the inbox      *)
(* (state), the session history (journal) and the outboxes (delivered,          *)
(* published).  The process may crash between any two writes.                   *)
EXTENDS Naturals

CONSTANTS Actions,        \* the actions submitted to the session
          Scheduled,      \* those the scheduler submits
          Deadlined,      \* those with a deadline
          NoAction,       \* no action in hand
          IsChild,        \* whether the session belongs to a child agent
          SessionFaults,  \* whether the session history can fail to be read back
          MaxCrashes      \* bound: crashes of the worker in a behaviour

ASSUME PumpConstants == /\ NoAction \notin Actions
                        /\ Scheduled \subseteq Actions
                        /\ Deadlined \subseteq Actions
                        /\ IsChild \in BOOLEAN
                        /\ SessionFaults \in BOOLEAN
                        /\ MaxCrashes \in Nat

VARIABLES state,      \* inbox: the state of each action record
          journal,    \* session history: how far the turn of each action got
          delivered,  \* whether the answer is in the delivery outbox
          published,  \* results sent to the parent: 0, 1 or 2 (more than one)
          runs,       \* model turns started for the action: 0, 1 or 2
          active,     \* active_cancellations holds this session
          pump,       \* the thread draining the session
          attempts,   \* scheduled actions the maintenance tick has in hand
          crashes

vars == <<state, journal, delivered, published, runs, active, pump, attempts, crashes>>

States == {"Absent", "Queued", "Admitted", "Running", "Waiting",
           "Completed", "Failed", "Cancelled", "Expired"}

Journals == {"none", "ingress", "obliged", "finalized"}

Steps == {"down", "idle", "reconcile", "select", "admitted", "prepare", "accept", "turn",
          "finish", "deliver", "publish", "settle"}

(* todo: records the reconciliation still has to look at; delivery: its        *)
(* outcome so far; origin: which loop the delivery belongs to.            *)
Pump == [step: Steps, action: Actions \cup {NoAction}, todo: SUBSET Actions, delivery: {"Ok", "Err"},
         origin: {"reconcile", "select"}]

Resting == {"down", "idle", "reconcile", "select"}

(* Well-typed, and the pump holds an action exactly between taking it up and   *)
(* settling it.                                                                *)
TypeOK == /\ state \in [Actions -> States]
          /\ journal \in [Actions -> Journals]
          /\ delivered \in [Actions -> BOOLEAN]
          /\ published \in [Actions -> 0 .. 2]
          /\ runs \in [Actions -> 0 .. 2]
          /\ active \in BOOLEAN
          /\ pump \in Pump
          /\ pump.action = NoAction <=> pump.step \in Resting
          /\ attempts \subseteq Scheduled
          /\ crashes \in 0 .. MaxCrashes

At(step, todo) == [step |-> step, action |-> NoAction, todo |-> todo, delivery |-> "Ok",
                   origin |-> "reconcile"]

On(step, a, todo, origin) == [step |-> step, action |-> a, todo |-> todo, delivery |-> "Ok",
                              origin |-> origin]

Idle == At("idle", {})

More(n) == IF n = 2 THEN 2 ELSE n + 1

Init == /\ state = [a \in Actions |-> "Absent"]
        /\ journal = [a \in Actions |-> "none"]
        /\ delivered = [a \in Actions |-> FALSE]
        /\ published = [a \in Actions |-> 0]
        /\ runs = [a \in Actions |-> 0]
        /\ active = FALSE
        /\ pump = At("down", {})
        /\ attempts = {}
        /\ crashes = 0

-------------------------------------------------------------------------------
(* Mutant: interrupted work is queued again at start.                          *)
recover_requeued ==
    /\ pump.step = "down"
    /\ pump' = Idle
    /\ state' = [a \in Actions |-> IF state[a] = "Running" /\ journal[a] # "finalized"
                                   THEN "Queued" ELSE state[a]]
    /\ UNCHANGED <<journal, delivered, published, runs, active, attempts, crashes>>

(* Start of the runtime: the accepted turn without a terminal entry is closed  *)
(* with a failure final.                                                       *)
recover_unfinished_turn_obligations ==
    /\ pump.step = "down"
    /\ pump' = Idle
    /\ journal' = [a \in Actions |-> IF journal[a] = "obliged" THEN "finalized" ELSE journal[a]]
    /\ UNCHANGED <<state, delivered, published, runs, active, attempts, crashes>>

Submit(a) ==
    /\ state[a] = "Absent"
    /\ a \in Scheduled => pump.step = "idle"
    /\ state' = [state EXCEPT ![a] = "Queued"]
    /\ attempts' = attempts \cup ({a} \cap Scheduled)
    /\ UNCHANGED <<journal, delivered, published, runs, active, pump, crashes>>

(* maintain_runtime closes an attempt after its drain, which background policy *)
(* may have turned away: what has not run by then is cancelled.                *)
CloseAttempt(a) ==
    /\ a \in attempts
    /\ pump.step = "idle"
    /\ attempts' = attempts \ {a}
    /\ state' = [state EXCEPT ![a] = IF @ \in {"Queued", "Admitted", "Waiting"}
                                     THEN "Cancelled" ELSE @]
    /\ UNCHANGED <<journal, delivered, published, runs, active, pump, crashes>>

(* Mutant: only interrupted records are reconciled.                            *)
ReconcilableRunning == {a \in Actions : state[a] = "Running"}

Reconcilable == {a \in Actions : state[a] \in {"Running", "Waiting"}}

(* A drain begins; with a turn active the reconciliation is skipped.           *)
BeginDrain ==
    /\ pump.step = "idle"
    /\ pump' = IF active THEN At("select", {}) ELSE At("reconcile", Reconcilable)
    /\ UNCHANGED <<state, journal, delivered, published, runs, active, attempts, crashes>>

(* A running record whose input reached the history can be closed with a       *)
(* failure final; without that entry there is nothing to close.                *)
finalize_interrupted_action(a) == state[a] = "Running" /\ journal[a] \in {"ingress", "obliged"}

(* One record at a time; without any final it is left as it is.                *)
reconcile_action_finalizations ==
    /\ pump.step = "reconcile"
    /\ \/ /\ pump.todo = {}
          /\ pump' = At("select", {})
          /\ UNCHANGED journal
       \/ \E a \in pump.todo :
            /\ journal' = [journal EXCEPT ![a] = IF finalize_interrupted_action(a)
                                                 THEN "finalized" ELSE @]
            /\ pump' = IF journal'[a] = "finalized"
                       THEN On("deliver", a, pump.todo \ {a}, "reconcile")
                       ELSE At("reconcile", pump.todo \ {a})
    /\ UNCHANGED <<state, delivered, published, runs, active, attempts, crashes>>

-------------------------------------------------------------------------------
(* The admission loop.                                                         *)

(* select_next expires what is overdue and then admits one queued action.      *)
SelectNext ==
    /\ pump.step = "select"
    /\ \E overdue \in SUBSET {a \in Deadlined : state[a] \in {"Queued", "Waiting"}} :
         LET kept == [a \in Actions |-> IF a \in overdue THEN "Expired" ELSE state[a]]
         IN  \/ \E a \in Actions :
                  /\ kept[a] = "Queued"
                  /\ state' = [kept EXCEPT ![a] = "Admitted"]
                  /\ pump' = On("admitted", a, {}, "select")
             \/ /\ \A a \in Actions : kept[a] # "Queued"
                /\ state' = kept
                /\ pump' = Idle
    /\ UNCHANGED <<journal, delivered, published, runs, active, attempts, crashes>>

(* mark_running refuses while another turn of the session is running, and the  *)
(* drain returns that error.                                                   *)
MarkRunning ==
    /\ pump.step = "admitted"
    /\ \/ /\ \A b \in Actions : state[b] # "Running"
          /\ state' = [state EXCEPT ![pump.action] = "Running"]
          /\ pump' = [pump EXCEPT !.step = "prepare"]
       \/ /\ \E b \in Actions : state[b] = "Running"
          /\ pump' = Idle
          /\ UNCHANGED state
    /\ UNCHANGED <<journal, delivered, published, runs, active, attempts, crashes>>

(* An error of action_text or run_turn fails the action and ends the drain.    *)
FailAction == /\ state' = [state EXCEPT ![pump.action] = "Failed"]
              /\ pump' = Idle

(* run_turn up to the durable input: route, tools and resource lease come      *)
(* first and may fail, as does a turn that is already active.                  *)
AppendIngress ==
    /\ pump.step = "prepare"
    /\ \/ /\ FailAction
          /\ UNCHANGED <<journal, active>>
       \/ /\ ~active
          /\ active' = TRUE
          /\ journal' = [journal EXCEPT ![pump.action] = "ingress"]
          /\ pump' = [pump EXCEPT !.step = "accept"]
          /\ UNCHANGED state
       \/ /\ SessionFaults
          /\ ~active
          /\ active' = TRUE
          /\ FailAction
          /\ UNCHANGED journal
    /\ UNCHANGED <<delivered, published, runs, attempts, crashes>>

(* The obligation is recorded and the model is started.                        *)
AcceptTurn ==
    /\ pump.step = "accept"
    /\ \/ /\ journal' = [journal EXCEPT ![pump.action] = "obliged"]
          /\ runs' = [runs EXCEPT ![pump.action] = More(@)]
          /\ pump' = [pump EXCEPT !.step = "turn"]
          /\ UNCHANGED <<state, active>>
       \/ /\ FailAction
          /\ active' = FALSE
          /\ UNCHANGED <<journal, runs>>
    /\ UNCHANGED <<delivered, published, attempts, crashes>>

(* The model ends and its outcome, good or bad, is appended as one final; the  *)
(* history may refuse it, or fail to be read back and leave the turn active.   *)
ModelTurn ==
    /\ pump.step = "turn"
    /\ \/ /\ journal' = [journal EXCEPT ![pump.action] = "finalized"]
          /\ active' = FALSE
          /\ pump' = [pump EXCEPT !.step = "finish"]
          /\ UNCHANGED state
       \/ /\ FailAction
          /\ active' = FALSE
          /\ UNCHANGED journal
       \/ /\ SessionFaults
          /\ FailAction
          /\ UNCHANGED <<journal, active>>
    /\ UNCHANGED <<delivered, published, runs, attempts, crashes>>

(* run_turn's closing snapshot, which may fail after the final is durable, and *)
(* the look-up of the final, whose error ends the drain.                       *)
FinishTurn ==
    /\ pump.step = "finish"
    /\ \/ /\ pump' = [pump EXCEPT !.step = "deliver"]
          /\ UNCHANGED state
       \/ /\ SessionFaults
          /\ FailAction
       \/ /\ SessionFaults
          /\ pump' = Idle
          /\ UNCHANGED state
    /\ UNCHANGED <<journal, delivered, published, runs, active, attempts, crashes>>

-------------------------------------------------------------------------------
(* Handing over the final, in both loops.                                      *)

(* The outbox is keyed by the action, so a repeated enqueue changes nothing.   *)
EnqueueDelivered ==
    /\ pump.step = "deliver"
    /\ delivered' = [delivered EXCEPT ![pump.action] = TRUE]
    /\ pump' = [pump EXCEPT !.step = IF IsChild THEN "publish" ELSE "settle"]
    /\ UNCHANGED <<state, journal, published, runs, active, attempts, crashes>>

EnqueueRefused ==
    /\ pump.step = "deliver"
    /\ pump' = [pump EXCEPT !.step = "settle", !.delivery = "Err"]
    /\ UNCHANGED <<state, journal, delivered, published, runs, active, attempts, crashes>>

(* The message and the parent's action are written before set_waiting can fail.*)
publish_child_result ==
    /\ pump.step = "publish"
    /\ \/ /\ published' = [published EXCEPT ![pump.action] = More(@)]
          /\ \E r \in {"Ok", "Err"} : pump' = [pump EXCEPT !.step = "settle", !.delivery = r]
       \/ /\ pump' = [pump EXCEPT !.step = "settle", !.delivery = "Err"]
          /\ UNCHANGED published
    /\ UNCHANGED <<state, journal, delivered, runs, active, attempts, crashes>>

(* Mutant: the action completes although its answer was not handed over.       *)
SettledAnyway == "Completed"

Settled == IF pump.delivery = "Ok" THEN "Completed" ELSE "Waiting"

Resume == At(pump.origin, pump.todo)

Settle ==
    /\ pump.step = "settle"
    /\ state' = [state EXCEPT ![pump.action] = Settled]
    /\ pump' = Resume
    /\ UNCHANGED <<journal, delivered, published, runs, active, attempts, crashes>>

Crash ==
    /\ pump.step # "down"
    /\ crashes < MaxCrashes
    /\ crashes' = crashes + 1
    /\ pump' = At("down", {})
    /\ active' = FALSE
    /\ attempts' = {}
    /\ UNCHANGED <<state, journal, delivered, published, runs>>

-------------------------------------------------------------------------------
PumpStep == \/ recover_unfinished_turn_obligations
            \/ BeginDrain
            \/ reconcile_action_finalizations
            \/ SelectNext
            \/ MarkRunning
            \/ AppendIngress
            \/ AcceptTurn
            \/ ModelTurn
            \/ FinishTurn
            \/ EnqueueDelivered
            \/ EnqueueRefused
            \/ publish_child_result
            \/ Settle

Next == \/ PumpStep
        \/ \E a \in Actions : Submit(a) \/ CloseAttempt(a)
        \/ Crash

Spec == Init /\ [][Next]_vars

(* The worker is restarted and keeps draining, and a delivery that is tried    *)
(* over and over is accepted in the end.                                       *)
Accepted == publish_child_result /\ pump'.delivery = "Ok"

FairSpec == /\ Spec
            /\ WF_vars(PumpStep)
            /\ \A a \in Actions : /\ SF_vars(EnqueueDelivered /\ pump.action = a)
                                  /\ SF_vars(Accepted /\ pump.action = a)

-------------------------------------------------------------------------------
(* An action is Completed only when its final is in the session history and    *)
(* has been handed to the delivery outbox and, for a child, to the parent.     *)
CompletedMeansHandedOver ==
    \A a \in Actions : state[a] = "Completed" =>
        journal[a] = "finalized" /\ delivered[a] /\ (IsChild => published[a] > 0)

(* However often the worker crashes, the model is run at most once for an      *)
(* action: an interrupted turn is closed, never repeated.                      *)
NoBlindRerun == \A a \in Actions : runs[a] <= 1

(* An answer that could not be handed over is offered again until it is: a     *)
(* Waiting action ends Completed, unless its deadline or its schedule ends it, *)
(* or a failed turn leaves the session active for good.                        *)
WaitingResolves ==
    []<>(pump.step = "idle" /\ ~active) => \A a \in Actions :
        state[a] = "Waiting" ~> (\/ state[a] = "Completed"
                                 \/ a \in Deadlined /\ state[a] = "Expired"
                                 \/ a \in Scheduled /\ state[a] = "Cancelled")

(* "correct reconciliation ... and no phantom running state": an action that   *)
(* was taken up does not stay Admitted or Running for ever.                    *)
TakenUpResolves ==
    \A a \in Actions : state[a] \in {"Admitted", "Running"}
                         ~> state[a] \notin {"Admitted", "Running"}

===============================================================================
