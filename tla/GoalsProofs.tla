----------------------------- MODULE GoalsProofs -----------------------------
(***************************************************************************)
(* A goal ends without continuations, has one at a time and stays within   *)
(* its terms, for any number of continuations, limits and calls.           *)
(***************************************************************************)
EXTENDS Goals, TLAPS

(* The terminal transition in progress has every open continuation on its  *)
(* list, and a paused goal does not resume into a terminal state.          *)
EndingHasAll == ending # NotEnding => ending.next \in Final /\ Live \subseteq ending.todo

ResumesAlive == goal.resume_state \in Final => goal.resume_state = NoState

GoalInv ==
  TypeOK /\ EndedIsQuiet /\ OneContinuation /\ WithinTerms /\ EndingHasAll /\ ResumesAlive

LEMMA FinalIsLast == \A from, next : allows(from, next) => from \notin Final
  BY DEF allows, Final

LEMMA GoalInitially == Init => GoalInv
  <1> SUFFICES ASSUME Init PROVE GoalInv
    OBVIOUS
  <1>1. Live = {}
    BY DEF Init, Live
  <1>2. TypeOK
    <2>1. goal \in GoalRecord
      BY DEF Init, GoalRecord, GoalStates, Options
    <2> QED
      BY <2>1 DEF Init, TypeOK, NotEnding
  <1>3. EndedIsQuiet /\ OneContinuation /\ EndingHasAll
    BY <1>1 DEF Init, EndedIsQuiet, OneContinuation, EndingHasAll
  <1>4. WithinTerms
    BY DEF Init, WithinTerms
  <1>5. ResumesAlive
    BY DEF Init, ResumesAlive
  <1> QED
    BY <1>2, <1>3, <1>4, <1>5 DEF GoalInv

(* A step that leaves the continuations and the transition alone.          *)
LEMMA GoalOnly ==
  ASSUME GoalInv, UNCHANGED <<conts, ending>>, TypeOK', WithinTerms', ResumesAlive',
         goal'.state \in Final => goal.state \in Final
  PROVE  GoalInv'
  <1>1. Live' = Live
    BY DEF Live
  <1> QED
    BY <1>1 DEF GoalInv, EndedIsQuiet, OneContinuation, EndingHasAll, NotEnding

LEMMA GoalNext == GoalInv /\ [Next]_goalVars => GoalInv'
  <1> SUFFICES ASSUME GoalInv, [Next]_goalVars PROVE GoalInv'
    OBVIOUS
  <1> USE DEF GoalInv
  <1>1. CASE UNCHANGED goalVars
    BY <1>1 DEF goalVars, TypeOK, EndedIsQuiet, OneContinuation, WithinTerms, EndingHasAll,
                ResumesAlive, Live, NotEnding
  <1>2. ASSUME NEW l \in 1 .. MaxLimit, NEW c \in Options, edit(l, c) PROVE GoalInv'
    <2>1. TypeOK'
      <3>1. goal' \in GoalRecord
        BY <1>2 DEF edit, TypeOK, GoalRecord, GoalStates, Options
      <3> QED
        BY <1>2, <3>1 DEF edit, Enter, TypeOK
    <2>2. WithinTerms'
      BY <1>2 DEF edit, Enter, TypeOK, GoalRecord, WithinTerms
    <2>3. ResumesAlive' /\ (goal'.state \in Final => goal.state \in Final)
      BY <1>2 DEF edit, Enter, TypeOK, GoalRecord, ResumesAlive, Final
    <2> QED
      BY <1>2, <2>1, <2>2, <2>3, GoalOnly DEF edit
  <1>3. ASSUME NEW next \in GoalStates, transition(next) PROVE GoalInv'
    <2>1. TypeOK'
      <3>1. goal' \in GoalRecord
        BY <1>3 DEF transition, TypeOK, GoalRecord, GoalStates, Options
      <3> QED
        BY <1>3, <3>1 DEF transition, Enter, TypeOK
    <2>2. WithinTerms'
      BY <1>3 DEF transition, Enter, TypeOK, GoalRecord, WithinTerms
    <2>3. ResumesAlive' /\ (goal'.state \in Final => goal.state \in Final)
      BY <1>3 DEF transition, Enter, TypeOK, GoalRecord, ResumesAlive, Final
    <2> QED
      BY <1>3, <2>1, <2>2, <2>3, GoalOnly DEF transition
  <1>4. ASSUME NEW next \in GoalStates, BeginEnd(next) PROVE GoalInv'
    BY <1>4 DEF BeginEnd, Enter, TypeOK, EndedIsQuiet, OneContinuation, WithinTerms,
                EndingHasAll, ResumesAlive, Live
  <1>5. ASSUME NEW d \in 0 .. MaxLimit, record_usage(d) PROVE GoalInv'
    <2> DEFINE used == IF goal.usage + d > goal.limit THEN goal.limit ELSE goal.usage + d
    <2>1. used \in Nat /\ used <= goal.limit
      BY DEF TypeOK, GoalRecord
    <2> HIDE DEF used
    <2>2. goal' = [goal EXCEPT !.usage = used,
                     !.state = IF used >= goal.limit THEN "Blocked" ELSE @]
      BY <1>5 DEF record_usage, used
    <2>3. TypeOK'
      <3>1. goal' \in GoalRecord
        BY <2>1, <2>2 DEF TypeOK, GoalRecord, GoalStates
      <3> QED
        BY <1>5, <3>1 DEF record_usage, Enter, TypeOK
    <2>4. WithinTerms'
      BY <2>1, <2>2 DEF TypeOK, GoalRecord, WithinTerms
    <2>5. ResumesAlive' /\ (goal'.state \in Final => goal.state \in Final)
      BY <2>2 DEF TypeOK, GoalRecord, ResumesAlive, Final
    <2> QED
      BY <1>5, <2>3, <2>4, <2>5, GoalOnly DEF record_usage
  <1>6. CASE pause
    <2>1. TypeOK'
      <3>1. goal' \in GoalRecord
        BY <1>6 DEF pause, TypeOK, GoalRecord, GoalStates, Options
      <3> QED
        BY <1>6, <3>1 DEF pause, Enter, TypeOK
    <2>2. WithinTerms'
      BY <1>6 DEF pause, Enter, TypeOK, GoalRecord, WithinTerms
    <2>3. ResumesAlive' /\ (goal'.state \in Final => goal.state \in Final)
      BY <1>6, FinalIsLast DEF pause, Enter, TypeOK, GoalRecord, ResumesAlive, Final
    <2> QED
      BY <1>6, <2>1, <2>2, <2>3, GoalOnly DEF pause
  <1>7. CASE resume
    <2>1. TypeOK'
      <3>1. goal' \in GoalRecord
        BY <1>7 DEF resume, ResumeState, TypeOK, GoalRecord, GoalStates, Options
      <3> QED
        BY <1>7, <3>1 DEF resume, ResumeState, Enter, TypeOK
    <2>2. WithinTerms'
      BY <1>7 DEF resume, ResumeState, Enter, TypeOK, GoalRecord, WithinTerms
    <2>3. ResumesAlive' /\ (goal'.state \in Final => goal.state \in Final)
      BY <1>7 DEF resume, ResumeState, Enter, TypeOK, GoalRecord, ResumesAlive, Final
    <2> QED
      BY <1>7, <2>1, <2>2, <2>3, GoalOnly DEF resume, ResumeState
  <1>8. CASE block
    <2>1. TypeOK'
      <3>1. goal' \in GoalRecord
        BY <1>8 DEF block, TypeOK, GoalRecord, GoalStates, Options
      <3> QED
        BY <1>8, <3>1 DEF block, Enter, TypeOK
    <2>2. WithinTerms'
      BY <1>8 DEF block, Enter, TypeOK, GoalRecord, WithinTerms
    <2>3. ResumesAlive' /\ (goal'.state \in Final => goal.state \in Final)
      BY <1>8 DEF block, Enter, TypeOK, GoalRecord, ResumesAlive, Final
    <2> QED
      BY <1>8, <2>1, <2>2, <2>3, GoalOnly DEF block
  <1>9. CASE archive
    <2>1. TypeOK'
      <3>1. goal' \in GoalRecord
        BY <1>9 DEF archive, TypeOK, GoalRecord, GoalStates, Options
      <3> QED
        BY <1>9, <3>1 DEF archive, Enter, TypeOK
    <2>2. WithinTerms'
      BY <1>9 DEF archive, Enter, TypeOK, GoalRecord, WithinTerms
    <2>3. ResumesAlive' /\ (goal'.state \in Final => goal.state \in Final)
      BY <1>9 DEF archive, Enter, TypeOK, GoalRecord, ResumesAlive, Final
    <2> QED
      BY <1>9, <2>1, <2>2, <2>3, GoalOnly DEF archive
  <1>10. ASSUME NEW a \in Actions, enqueue_continuation(a) PROVE GoalInv'
    <2>1. CASE UNCHANGED goal
      <3>1. goal.state = "Running" /\ ending = NotEnding /\ ending' = NotEnding
        BY <1>10 DEF enqueue_continuation, Enter
      <3>2. TypeOK'
        BY <1>10, <2>1 DEF enqueue_continuation, Enter, TypeOK
      <3>3. OneContinuation'
        BY <1>10 DEF enqueue_continuation, TypeOK, OneContinuation, Live
      <3> QED
        BY <2>1, <3>1, <3>2, <3>3
        DEF WithinTerms, ResumesAlive, EndedIsQuiet, EndingHasAll, NotEnding, Final
    <2>2. ASSUME NEW used \in {goal.usage, goal.limit},
                 goal' = [goal EXCEPT !.state = "Blocked", !.usage = used],
                 UNCHANGED conts
          PROVE  GoalInv'
      <3>1. used \in Nat /\ used <= goal.limit
        BY DEF TypeOK, GoalRecord, WithinTerms
      <3>2. TypeOK'
        <4>1. goal' \in GoalRecord
          BY <2>2, <3>1 DEF TypeOK, GoalRecord, GoalStates
        <4> QED
          BY <1>10, <2>2, <4>1 DEF enqueue_continuation, Enter, TypeOK
      <3>3. WithinTerms' /\ ResumesAlive' /\ goal'.state \notin Final
        BY <2>2, <3>1 DEF TypeOK, GoalRecord, WithinTerms, ResumesAlive, Final
      <3> QED
        BY <1>10, <2>2, <3>2, <3>3, GoalOnly DEF enqueue_continuation
    <2> QED
      BY <1>10, <2>1, <2>2 DEF enqueue_continuation
  <1>11. ASSUME NEW a \in Actions, cancel_continuations(a) PROVE GoalInv'
    BY <1>11 DEF cancel_continuations, TypeOK, EndedIsQuiet, OneContinuation, WithinTerms,
                 EndingHasAll, ResumesAlive, Live, NotEnding
  <1>12. ASSUME NEW a \in Actions, TakeUp(a) \/ Finish(a) PROVE GoalInv'
    BY <1>12 DEF TakeUp, Finish, TypeOK, EndedIsQuiet, OneContinuation, WithinTerms,
                 EndingHasAll, ResumesAlive, Live, NotEnding
  <1>13. CASE transition_stored
    <2>1. TypeOK'
      <3>1. goal' \in GoalRecord
        BY <1>13 DEF transition_stored, TypeOK, GoalRecord, EndingHasAll, Final, GoalStates
      <3> QED
        BY <1>13, <3>1 DEF transition_stored, TypeOK, NotEnding
    <2>2. Live' = Live /\ Live = {} /\ ending' = NotEnding
      BY <1>13 DEF transition_stored, Live, EndingHasAll
    <2>3. WithinTerms' /\ ResumesAlive'
      BY <1>13 DEF transition_stored, TypeOK, GoalRecord, WithinTerms, ResumesAlive, EndingHasAll, Final
    <2> QED
      BY <2>1, <2>2, <2>3 DEF EndedIsQuiet, OneContinuation, EndingHasAll, NotEnding
  <1>14. CASE Crash
    BY <1>14 DEF Crash, TypeOK, EndedIsQuiet, OneContinuation, WithinTerms, EndingHasAll,
                 ResumesAlive, Live, NotEnding
  <1> QED
    BY <1>1, <1>2, <1>3, <1>4, <1>5, <1>6, <1>7, <1>8, <1>9, <1>10, <1>11, <1>12, <1>13, <1>14
    DEF Next

(* Every reachable state satisfies the inductive invariant.                *)
THEOREM GoalInvariant == Spec => []GoalInv
  BY GoalInitially, GoalNext, PTL DEF Spec

(* Wherever cancel_continuations is refused or cut, a goal that ended has  *)
(* no continuation left to run.                                            *)
THEOREM GoalEndsQuietly == Spec => []EndedIsQuiet
  <1>1. GoalInv => EndedIsQuiet
    BY DEF GoalInv
  <1> QED
    BY <1>1, GoalInvariant, PTL

(* enqueue_continuation never has two continuations of a goal open.        *)
THEOREM GoalContinuesOnce == Spec => []OneContinuation
  <1>1. GoalInv => OneContinuation
    BY DEF GoalInv
  <1> QED
    BY <1>1, GoalInvariant, PTL

(* A goal waits only for a named condition and never uses more than its    *)
(* limit, whatever is edited, paused, resumed and recorded.                *)
THEOREM GoalKeepsTerms == Spec => []WithinTerms
  <1>1. GoalInv => WithinTerms
    BY DEF GoalInv
  <1> QED
    BY <1>1, GoalInvariant, PTL
=============================================================================
