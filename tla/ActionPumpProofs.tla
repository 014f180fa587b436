--------------------------- MODULE ActionPumpProofs ---------------------------
(* The two safety promises of the pump, for any number of actions and crashes. *)
EXTENDS ActionPump, TLAPS

(* What the pump knows of the action in its hand, by the step it is at.        *)
InHand == LET a == pump.action IN
    /\ pump.step = "admitted" => state[a] = "Admitted"
    /\ pump.step = "prepare" => state[a] = "Running" /\ journal[a] = "none" /\ runs[a] = 0
    /\ pump.step = "accept" => state[a] = "Running" /\ runs[a] = 0
    /\ pump.step = "turn" => state[a] = "Running"
    /\ pump.step \in {"finish", "deliver", "publish", "settle"} => journal[a] = "finalized"
    /\ pump.step \in {"deliver", "publish", "settle"} => state[a] # "Absent"
    /\ pump.step = "publish" => delivered[a]
    /\ pump.step = "settle" /\ pump.delivery = "Ok" => delivered[a] /\ (IsChild => published[a] > 0)

(* No turn of an action starts before the action is running.                   *)
Untouched == \A a \in Actions : state[a] \in {"Absent", "Queued", "Admitted"} =>
                                    journal[a] = "none" /\ runs[a] = 0

PumpInv == TypeOK /\ InHand /\ Untouched /\ CompletedMeansHandedOver /\ NoBlindRerun

USE PumpConstants
USE DEF States, Journals, Steps, Pump, Resting, At, On, Idle, PumpInv, TypeOK

LEMMA InitPump == Init => PumpInv
  <1> SUFFICES ASSUME Init PROVE PumpInv
    OBVIOUS
  <1>1. TypeOK
    <2>1. active \in BOOLEAN
      BY DEF Init
    <2>2. delivered \in [Actions -> BOOLEAN]
      BY DEF Init
    <2> QED
      BY <2>1, <2>2 DEF Init
  <1>2. InHand /\ Untouched /\ CompletedMeansHandedOver /\ NoBlindRerun
    BY DEF Init, InHand, Untouched, CompletedMeansHandedOver, NoBlindRerun
  <1> QED
    BY <1>1, <1>2

LEMMA NextPump == PumpInv /\ [Next]_vars => PumpInv'
  <1> SUFFICES ASSUME PumpInv, [Next]_vars PROVE PumpInv'
    OBVIOUS
  <1> USE DEF InHand, Untouched, CompletedMeansHandedOver, NoBlindRerun
  <1>1. CASE UNCHANGED vars
    BY <1>1 DEF vars
  <1>2. CASE recover_unfinished_turn_obligations
    <2> USE <1>2 DEF recover_unfinished_turn_obligations
    <2>1. TypeOK'
      OBVIOUS
    <2>2. InHand'
      OBVIOUS
    <2>3. Untouched' /\ CompletedMeansHandedOver' /\ NoBlindRerun'
      OBVIOUS
    <2> QED
      BY <2>1, <2>2, <2>3
  <1>3. CASE BeginDrain
    <2> USE <1>3 DEF BeginDrain, Reconcilable
    <2>1. TypeOK'
      OBVIOUS
    <2>2. InHand'
      OBVIOUS
    <2>3. Untouched' /\ CompletedMeansHandedOver' /\ NoBlindRerun'
      OBVIOUS
    <2> QED
      BY <2>1, <2>2, <2>3
  <1>4. CASE reconcile_action_finalizations
    <2> USE <1>4 DEF reconcile_action_finalizations, finalize_interrupted_action
    <2>1. TypeOK'
      OBVIOUS
    <2>2. InHand'
      OBVIOUS
    <2>3. Untouched' /\ CompletedMeansHandedOver' /\ NoBlindRerun'
      OBVIOUS
    <2> QED
      BY <2>1, <2>2, <2>3
  <1>5. CASE SelectNext
    <2> USE <1>5 DEF SelectNext
    <2>1. PICK overdue \in SUBSET {a \in Deadlined : state[a] \in {"Queued", "Waiting"}} :
            LET kept == [a \in Actions |-> IF a \in overdue THEN "Expired" ELSE state[a]]
            IN  \/ \E a \in Actions : /\ kept[a] = "Queued"
                                      /\ state' = [kept EXCEPT ![a] = "Admitted"]
                                      /\ pump' = On("admitted", a, {}, "select")
                \/ state' = kept /\ pump' = Idle
      OBVIOUS
    <2> DEFINE kept == [a \in Actions |-> IF a \in overdue THEN "Expired" ELSE state[a]]
    <2>2. kept \in [Actions -> States] /\ \A a \in Actions : kept[a] # state[a] => kept[a] = "Expired"
      OBVIOUS
    <2> HIDE DEF kept
    <2>3. CASE state' = kept /\ pump' = Idle
      BY <2>2, <2>3
    <2>4. ASSUME NEW a \in Actions, kept[a] = "Queued", state' = [kept EXCEPT ![a] = "Admitted"],
                 pump' = On("admitted", a, {}, "select")
          PROVE  PumpInv'
      <3>1. TypeOK' /\ InHand'
        BY <2>2, <2>4
      <3>2. Untouched' /\ CompletedMeansHandedOver' /\ NoBlindRerun'
        BY <2>2, <2>4
      <3> QED
        BY <3>1, <3>2
    <2> QED
      BY <2>1, <2>3, <2>4 DEF kept
  <1>6. CASE MarkRunning
    <2> USE <1>6 DEF MarkRunning
    <2>1. TypeOK'
      OBVIOUS
    <2>2. InHand'
      OBVIOUS
    <2>3. Untouched' /\ CompletedMeansHandedOver' /\ NoBlindRerun'
      OBVIOUS
    <2> QED
      BY <2>1, <2>2, <2>3
  <1>7. CASE AppendIngress
    <2> USE <1>7 DEF AppendIngress, FailAction
    <2>1. TypeOK'
      <3>1. active' \in BOOLEAN
        OBVIOUS
      <3>2. state' \in [Actions -> States] /\ journal' \in [Actions -> Journals]
        OBVIOUS
      <3>3. runs' \in [Actions -> 0 .. 2] /\ pump' \in Pump
        OBVIOUS
      <3>4. (pump.action = NoAction <=> pump.step \in Resting)'
        OBVIOUS
      <3> QED
        BY <3>1, <3>2, <3>3, <3>4
    <2>2. InHand'
      OBVIOUS
    <2>3. Untouched' /\ CompletedMeansHandedOver' /\ NoBlindRerun'
      OBVIOUS
    <2> QED
      BY <2>1, <2>2, <2>3
  <1>8. CASE AcceptTurn
    <2> USE <1>8 DEF AcceptTurn, FailAction, More
    <2>1. TypeOK'
      <3>1. active' \in BOOLEAN
        OBVIOUS
      <3>2. state' \in [Actions -> States] /\ journal' \in [Actions -> Journals]
        OBVIOUS
      <3>3. runs' \in [Actions -> 0 .. 2] /\ pump' \in Pump
        OBVIOUS
      <3>4. (pump.action = NoAction <=> pump.step \in Resting)'
        OBVIOUS
      <3> QED
        BY <3>1, <3>2, <3>3, <3>4
    <2>2. InHand'
      OBVIOUS
    <2>3. Untouched' /\ CompletedMeansHandedOver' /\ NoBlindRerun'
      OBVIOUS
    <2> QED
      BY <2>1, <2>2, <2>3
  <1>9. CASE ModelTurn
    <2> USE <1>9 DEF ModelTurn, FailAction
    <2>1. TypeOK'
      <3>1. active' \in BOOLEAN
        OBVIOUS
      <3>2. state' \in [Actions -> States] /\ journal' \in [Actions -> Journals]
        OBVIOUS
      <3>3. runs' \in [Actions -> 0 .. 2] /\ pump' \in Pump
        OBVIOUS
      <3>4. (pump.action = NoAction <=> pump.step \in Resting)'
        OBVIOUS
      <3> QED
        BY <3>1, <3>2, <3>3, <3>4
    <2>2. InHand'
      OBVIOUS
    <2>3. Untouched' /\ CompletedMeansHandedOver' /\ NoBlindRerun'
      OBVIOUS
    <2> QED
      BY <2>1, <2>2, <2>3
  <1>10. CASE FinishTurn
    <2> USE <1>10 DEF FinishTurn, FailAction
    <2>1. TypeOK'
      OBVIOUS
    <2>2. InHand'
      OBVIOUS
    <2>3. Untouched' /\ CompletedMeansHandedOver' /\ NoBlindRerun'
      OBVIOUS
    <2> QED
      BY <2>1, <2>2, <2>3
  <1>11. CASE EnqueueDelivered
    <2> USE <1>11 DEF EnqueueDelivered
    <2>1. TypeOK'
      OBVIOUS
    <2>2. InHand'
      OBVIOUS
    <2>3. Untouched' /\ CompletedMeansHandedOver' /\ NoBlindRerun'
      OBVIOUS
    <2> QED
      BY <2>1, <2>2, <2>3
  <1>12. CASE EnqueueRefused
    <2> USE <1>12 DEF EnqueueRefused
    <2>1. TypeOK'
      OBVIOUS
    <2>2. InHand'
      OBVIOUS
    <2>3. Untouched' /\ CompletedMeansHandedOver' /\ NoBlindRerun'
      OBVIOUS
    <2> QED
      BY <2>1, <2>2, <2>3
  <1>13. CASE publish_child_result
    <2>1. pump.action \in Actions /\ pump.step = "publish"
      BY <1>13 DEF publish_child_result
    <2>2. More(published[pump.action]) \in 1 .. 2
      BY <2>1 DEF More
    <2>3. ASSUME NEW r \in {"Ok", "Err"}, pump' = [pump EXCEPT !.step = "settle", !.delivery = r],
                 published' = [published EXCEPT ![pump.action] = More(published[pump.action])]
          PROVE  PumpInv'
      <3> HIDE DEF More
      <3>1. published' \in [Actions -> 0 .. 2] /\ published'[pump.action] > 0
        BY <2>1, <2>2, <2>3
      <3>2. \A a \in Actions : published[a] > 0 => published'[a] > 0
        BY <2>1, <2>2, <2>3
      <3>3. /\ pump' \in Pump
            /\ pump'.action = pump.action /\ pump'.step = "settle"
        BY <2>3
      <3> QED
        BY <2>1, <3>1, <3>2, <3>3, <1>13 DEF publish_child_result
    <2>4. CASE UNCHANGED published /\ pump' = [pump EXCEPT !.step = "settle", !.delivery = "Err"]
      BY <2>1, <2>4, <1>13 DEF publish_child_result
    <2> QED
      BY <2>3, <2>4, <1>13 DEF publish_child_result
  <1>14. CASE Settle
    <2> USE <1>14 DEF Settle, Settled, Resume
    <2>1. TypeOK'
      OBVIOUS
    <2>2. InHand'
      OBVIOUS
    <2>3. Untouched' /\ CompletedMeansHandedOver' /\ NoBlindRerun'
      OBVIOUS
    <2> QED
      BY <2>1, <2>2, <2>3
  <1>15. CASE Crash
    <2> USE <1>15 DEF Crash
    <2>1. TypeOK'
      <3>1. active' \in BOOLEAN
        OBVIOUS
      <3>2. state' \in [Actions -> States] /\ journal' \in [Actions -> Journals]
        OBVIOUS
      <3>3. runs' \in [Actions -> 0 .. 2] /\ pump' \in Pump
        OBVIOUS
      <3>4. (pump.action = NoAction <=> pump.step \in Resting)'
        OBVIOUS
      <3> QED
        BY <3>1, <3>2, <3>3, <3>4
    <2>2. InHand'
      OBVIOUS
    <2>3. Untouched' /\ CompletedMeansHandedOver' /\ NoBlindRerun'
      OBVIOUS
    <2> QED
      BY <2>1, <2>2, <2>3
  <1>16. ASSUME NEW a \in Actions, Submit(a) PROVE PumpInv'
    BY <1>16 DEF Submit
  <1>17. ASSUME NEW a \in Actions, CloseAttempt(a) PROVE PumpInv'
    BY <1>17 DEF CloseAttempt
  <1> QED
    BY <1>1, <1>2, <1>3, <1>4, <1>5, <1>6, <1>7, <1>8, <1>9, <1>10, <1>11, <1>12, <1>13, <1>14, <1>15, <1>16, <1>17 DEF Next, PumpStep

(* PumpInv is an invariant of the pump under crashes and refused deliveries.   *)
THEOREM PumpInvariant == Spec => []PumpInv
  BY InitPump, NextPump, PTL DEF Spec

(* Every reachable state of the pump is well typed: TypeOK.                    *)
THEOREM PumpTypeCorrect == Spec => []TypeOK
  <1>1. PumpInv => TypeOK
    OBVIOUS
  <1> QED
    BY PumpInvariant, <1>1, PTL

(* A Completed action has had its final handed to the outbox and the parent:   *)
(* CompletedMeansHandedOver.                                                   *)
THEOREM CompletionIsHandedOver == Spec => []CompletedMeansHandedOver
  <1>1. PumpInv => CompletedMeansHandedOver
    OBVIOUS
  <1> QED
    BY PumpInvariant, <1>1, PTL

(* The model runs at most once for an action, whatever crashes: NoBlindRerun.  *)
THEOREM ModelRunsOnce == Spec => []NoBlindRerun
  <1>1. PumpInv => NoBlindRerun
    OBVIOUS
  <1> QED
    BY PumpInvariant, <1>1, PTL

===============================================================================
