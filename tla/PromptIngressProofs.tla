------------------------ MODULE PromptIngressProofs ------------------------
(***************************************************************************)
(* Proofs about PromptIngress, for any set of prompts and any number of    *)
(* faults.                                                                 *)
(*                                                                         *)
(* The properties are not inductive: that the journal gets one final needs *)
(* to know that a turn in progress has none (InTurn), and that a result    *)
(* which settles a prompt stands for an answer needs to know whose request *)
(* the executor is working on (Attended) and what an Ok result says        *)
(* (Answering).                                                            *)
(***************************************************************************)
EXTENDS PromptIngress, TLAPS

\* A turn that was started has no final yet, and is a direct prompt's.
InTurn ==
  exec.step \in {"Ingress", "Accepted", "Model"}
    => exec.p \notin Routed /\ finals[exec.p] = 0

\* What the daemon waits for is what the executor works on.
Attended ==
  daemon.step = "Stream" /\ worker = "Up"
    => exec.for = "Daemon" /\ exec.p = daemon.p

\* An Ok result, or a drain on its way to one, stands for a final or a queued
\* action, unless nobody waits for it.
Answering ==
  exec.step = "Drain" \/ (exec.step = "Ok" /\ exec.for = "Daemon")
    => exec.p \in inbox \/ finals[exec.p] > 0

\* A dead worker executes nothing.
DeadIsIdle ==
  worker = "Down" => exec = NoWork

PromptInv ==
  /\ TypeOK
  /\ OneEntryOneFinal
  /\ CompletedAfterTerminal
  /\ InTurn
  /\ Attended
  /\ Answering
  /\ DeadIsIdle

\* One more entry in a count of journal entries.
LEMMA CountUp ==
  ASSUME NEW S, NEW f \in [S -> Nat], NEW x \in S
  PROVE  [f EXCEPT ![x] = @ + 1] \in [S -> Nat]
OBVIOUS

USE PromptAssumption
USE DEF PromptInv, TypeOK, RecordsOK, RequestsOK, JournalOK, OneEntryOneFinal,
        CompletedAfterTerminal, HasTerminal, InTurn, Attended, Answering, DeadIsIdle, Idle, NoWork, DaemonSteps,
        ExecSteps, journal

\* A submitted prompt is recorded before anything else happens.
LEMMA SubmitPromptStep ==
  ASSUME PromptInv, NEW p \in Prompts, SubmitPrompt(p)
  PROVE  PromptInv'
<1>1. RecordsOK'
  <2>1. record' \in [Prompts -> {"None", "Accepted", "Completed"}]
    BY DEF SubmitPrompt
  <2>2. ready' \subseteq Prompts /\ inbox' \subseteq Routed
    BY DEF SubmitPrompt
  <2>3. QED
    BY <2>1, <2>2
<1>2. RequestsOK'
  BY DEF SubmitPrompt, At
<1>3. JournalOK'
  BY DEF SubmitPrompt, At
<1>4. OneEntryOneFinal' /\ CompletedAfterTerminal'
  BY <1>1, <1>2, <1>3 DEF SubmitPrompt, At
<1>5. InTurn' /\ Attended' /\ Answering' /\ DeadIsIdle'
  BY <1>1, <1>2, <1>3 DEF SubmitPrompt, At
<1>6. QED
  BY <1>1, <1>2, <1>3, <1>4, <1>5

\* Resumption starts a dispatch.
LEMMA ResumeOnePromptStep ==
  ASSUME PromptInv, NEW p \in Prompts, resume_one_prompt(p)
  PROVE  PromptInv'
<1>1. RecordsOK'
  BY DEF resume_one_prompt, At
<1>2. RequestsOK'
  BY DEF resume_one_prompt, At
<1>3. JournalOK'
  BY DEF resume_one_prompt, At
<1>4. OneEntryOneFinal' /\ CompletedAfterTerminal'
  BY <1>1, <1>2, <1>3 DEF resume_one_prompt, At
<1>5. InTurn' /\ Attended' /\ Answering' /\ DeadIsIdle'
  BY <1>1, <1>2, <1>3 DEF resume_one_prompt, At
<1>6. QED
  BY <1>1, <1>2, <1>3, <1>4, <1>5

\* Time makes a deferred prompt due.
LEMMA BackoffElapsesStep ==
  ASSUME PromptInv, NEW p \in Prompts, BackoffElapses(p)
  PROVE  PromptInv'
<1>1. RecordsOK'
  BY DEF BackoffElapses
<1>2. RequestsOK'
  BY DEF BackoffElapses
<1>3. JournalOK'
  BY DEF BackoffElapses
<1>4. OneEntryOneFinal' /\ CompletedAfterTerminal'
  BY <1>1, <1>2, <1>3 DEF BackoffElapses
<1>5. InTurn' /\ Attended' /\ Answering' /\ DeadIsIdle'
  BY <1>1, <1>2, <1>3 DEF BackoffElapses
<1>6. QED
  BY <1>1, <1>2, <1>3, <1>4, <1>5

\* The pump gives a queued prompt its first final.
LEMMA PumpAnswersStep ==
  ASSUME PromptInv, NEW p \in Prompts, PumpAnswers(p)
  PROVE  PromptInv'
<1>1. RecordsOK'
  BY DEF PumpAnswers
<1>2. RequestsOK'
  BY DEF PumpAnswers
<1>3. JournalOK'
  BY DEF PumpAnswers
<1>4. OneEntryOneFinal' /\ CompletedAfterTerminal'
  BY <1>1, <1>2, <1>3 DEF PumpAnswers
<1>5. InTurn' /\ Attended' /\ Answering' /\ DeadIsIdle'
  BY <1>1, <1>2, <1>3 DEF PumpAnswers
<1>6. QED
  BY <1>1, <1>2, <1>3, <1>4, <1>5

\* Recovery finalizes an obligation that has no final, with the executor idle.
LEMMA ActivateSessionStep ==
  ASSUME PromptInv, activate_session
  PROVE  PromptInv'
<1>1. RecordsOK'
  BY DEF activate_session
<1>2. RequestsOK'
  BY DEF activate_session, At
<1>3. JournalOK'
  <2>1. CASE finals' = finals
    BY <2>1 DEF activate_session
  <2>2. CASE finals' # finals
    <3>1. PICK i \in Unfinished : finals' = [finals EXCEPT ![accepted[i]] = @ + 1]
      BY <2>2 DEF activate_session, recover_unfinished_turn_obligations
    <3>2. accepted[i] \in Prompts /\ finals \in [Prompts -> Nat]
      BY <3>1 DEF Unfinished
    <3> HIDE DEF PromptInv
    <3>3. finals' \in [Prompts -> Nat]
      BY <3>1, <3>2, CountUp
    <3> USE DEF PromptInv
    <3>4. QED
      BY <3>3 DEF activate_session
  <2>3. QED
    BY <2>1, <2>2
<1>4. OneEntryOneFinal' /\ CompletedAfterTerminal'
  <2>1. CASE finals' = finals
    BY <2>1 DEF activate_session
  <2>2. CASE finals' # finals
    <3>1. PICK i \in Unfinished : finals' = [finals EXCEPT ![accepted[i]] = @ + 1]
      BY <2>2 DEF activate_session, recover_unfinished_turn_obligations
    <3>2. accepted[i] \in Prompts /\ finals[accepted[i]] = 0
      BY <3>1 DEF Unfinished
    <3>3. OneEntryOneFinal'
      BY <3>1, <3>2 DEF activate_session
    <3>4. CompletedAfterTerminal'
      BY <3>1, <3>2 DEF activate_session
    <3>5. QED
      BY <3>3, <3>4
  <2>3. QED
    BY <2>1, <2>2
<1>5. InTurn' /\ Attended' /\ Answering' /\ DeadIsIdle'
  <2>1. exec' = NoWork /\ daemon'.step = "Send" /\ worker' = "Up"
    BY DEF activate_session, At
  <2>2. QED
    BY <2>1
<1>6. QED
  BY <1>1, <1>2, <1>3, <1>4, <1>5

\* A refused activation leaves the journal alone.
LEMMA ActivationRefusedStep ==
  ASSUME PromptInv, ActivationRefused
  PROVE  PromptInv'
<1>1. RecordsOK'
  BY DEF ActivationRefused, defer_prompt, StaleAnswer, Work
<1>2. RequestsOK'
  BY DEF ActivationRefused, defer_prompt, StaleAnswer, Work
<1>3. JournalOK'
  BY DEF ActivationRefused, defer_prompt, StaleAnswer, Work
<1>4. OneEntryOneFinal' /\ CompletedAfterTerminal'
  BY <1>1, <1>2, <1>3 DEF ActivationRefused, defer_prompt, StaleAnswer, Work
<1>5. InTurn' /\ Attended' /\ Answering' /\ DeadIsIdle'
  BY <1>1, <1>2, <1>3 DEF ActivationRefused, defer_prompt, StaleAnswer, Work
<1>6. QED
  BY <1>1, <1>2, <1>3, <1>4, <1>5

\* A failed activation defers the prompt.
LEMMA ActivationFailsStep ==
  ASSUME PromptInv, ActivationFails
  PROVE  PromptInv'
<1>1. RecordsOK'
  BY DEF ActivationFails, defer_prompt, Fault
<1>2. RequestsOK'
  BY DEF ActivationFails, defer_prompt, Fault
<1>3. JournalOK'
  BY DEF ActivationFails, defer_prompt, Fault
<1>4. OneEntryOneFinal' /\ CompletedAfterTerminal'
  BY <1>1, <1>2, <1>3 DEF ActivationFails, defer_prompt, Fault
<1>5. InTurn' /\ Attended' /\ Answering' /\ DeadIsIdle'
  BY <1>1, <1>2, <1>3 DEF ActivationFails, defer_prompt, Fault
<1>6. QED
  BY <1>1, <1>2, <1>3, <1>4, <1>5

\* The executor takes up the request the daemon waits for.
LEMMA ExecuteStreamingStep ==
  ASSUME PromptInv, execute_streaming
  PROVE  PromptInv'
<1>1. RecordsOK'
  BY DEF execute_streaming, At, Work
<1>2. RequestsOK'
  BY DEF execute_streaming, At, Work
<1>3. JournalOK'
  BY DEF execute_streaming, At, Work
<1>4. OneEntryOneFinal' /\ CompletedAfterTerminal'
  BY <1>1, <1>2, <1>3 DEF execute_streaming, At, Work
<1>5. InTurn' /\ Attended' /\ Answering' /\ DeadIsIdle'
  BY <1>1, <1>2, <1>3 DEF execute_streaming, At, Work
<1>6. QED
  BY <1>1, <1>2, <1>3, <1>4, <1>5

\* The result that settles a prompt stands for its answer.
LEMMA ReceiveOkStep ==
  ASSUME PromptInv, ReceiveOk
  PROVE  PromptInv'
<1>1. RecordsOK'
  BY DEF ReceiveOk, complete_prompt, Fault
<1>2. RequestsOK'
  BY DEF ReceiveOk, complete_prompt, Fault
<1>3. JournalOK'
  BY DEF ReceiveOk, complete_prompt, Fault
<1>4. OneEntryOneFinal' /\ CompletedAfterTerminal'
  BY <1>1, <1>2, <1>3 DEF ReceiveOk, complete_prompt, Fault
<1>5. InTurn' /\ Attended' /\ Answering' /\ DeadIsIdle'
  BY <1>1, <1>2, <1>3 DEF ReceiveOk, complete_prompt, Fault
<1>6. QED
  BY <1>1, <1>2, <1>3, <1>4, <1>5

\* A failed result leads to a snapshot.
LEMMA ReceiveFailedStep ==
  ASSUME PromptInv, ReceiveFailed
  PROVE  PromptInv'
<1>1. RecordsOK'
  BY DEF ReceiveFailed, At
<1>2. RequestsOK'
  BY DEF ReceiveFailed, At
<1>3. JournalOK'
  BY DEF ReceiveFailed, At
<1>4. OneEntryOneFinal' /\ CompletedAfterTerminal'
  BY <1>1, <1>2, <1>3 DEF ReceiveFailed, At
<1>5. InTurn' /\ Attended' /\ Answering' /\ DeadIsIdle'
  BY <1>1, <1>2, <1>3 DEF ReceiveFailed, At
<1>6. QED
  BY <1>1, <1>2, <1>3, <1>4, <1>5

\* Only a terminal turn in the snapshot settles the prompt.
LEMMA PublishSnapshotStep ==
  ASSUME PromptInv, PublishSnapshot
  PROVE  PromptInv'
<1>1. RecordsOK'
  BY DEF PublishSnapshot, complete_prompt, defer_prompt, SettledBySnapshot, Fault
<1>2. RequestsOK'
  BY DEF PublishSnapshot, complete_prompt, defer_prompt, SettledBySnapshot, Fault
<1>3. JournalOK'
  BY DEF PublishSnapshot, complete_prompt, defer_prompt, SettledBySnapshot, Fault
<1>4. OneEntryOneFinal' /\ CompletedAfterTerminal'
  BY <1>1, <1>2, <1>3 DEF PublishSnapshot, complete_prompt, defer_prompt, SettledBySnapshot, Fault
<1>5. InTurn' /\ Attended' /\ Answering' /\ DeadIsIdle'
  BY <1>1, <1>2, <1>3 DEF PublishSnapshot, complete_prompt, defer_prompt, SettledBySnapshot, Fault
<1>6. QED
  BY <1>1, <1>2, <1>3, <1>4, <1>5

\* A lost worker defers the prompt.
LEMMA WorkerLostStep ==
  ASSUME PromptInv, WorkerLost
  PROVE  PromptInv'
<1>1. RecordsOK'
  BY DEF WorkerLost, defer_prompt
<1>2. RequestsOK'
  BY DEF WorkerLost, defer_prompt
<1>3. JournalOK'
  BY DEF WorkerLost, defer_prompt
<1>4. OneEntryOneFinal' /\ CompletedAfterTerminal'
  BY <1>1, <1>2, <1>3 DEF WorkerLost, defer_prompt
<1>5. InTurn' /\ Attended' /\ Answering' /\ DeadIsIdle'
  BY <1>1, <1>2, <1>3 DEF WorkerLost, defer_prompt
<1>6. QED
  BY <1>1, <1>2, <1>3, <1>4, <1>5

\* After a broken connection nobody waits for the request.
LEMMA ConnectionFailsStep ==
  ASSUME PromptInv, ConnectionFails
  PROVE  PromptInv'
<1>1. RecordsOK'
  BY DEF ConnectionFails, defer_prompt, Abandoned, Fault
<1>2. RequestsOK'
  BY DEF ConnectionFails, defer_prompt, Abandoned, Fault
<1>3. JournalOK'
  BY DEF ConnectionFails, defer_prompt, Abandoned, Fault
<1>4. OneEntryOneFinal' /\ CompletedAfterTerminal'
  BY <1>1, <1>2, <1>3 DEF ConnectionFails, defer_prompt, Abandoned, Fault
<1>5. InTurn' /\ Attended' /\ Answering' /\ DeadIsIdle'
  BY <1>1, <1>2, <1>3 DEF ConnectionFails, defer_prompt, Abandoned, Fault
<1>6. QED
  BY <1>1, <1>2, <1>3, <1>4, <1>5

\* After a daemon crash nobody waits for the request.
LEMMA DaemonCrashStep ==
  ASSUME PromptInv, DaemonCrash
  PROVE  PromptInv'
<1>1. RecordsOK'
  BY DEF DaemonCrash, Abandoned, Fault
<1>2. RequestsOK'
  BY DEF DaemonCrash, Abandoned, Fault
<1>3. JournalOK'
  BY DEF DaemonCrash, Abandoned, Fault
<1>4. OneEntryOneFinal' /\ CompletedAfterTerminal'
  BY <1>1, <1>2, <1>3 DEF DaemonCrash, Abandoned, Fault
<1>5. InTurn' /\ Attended' /\ Answering' /\ DeadIsIdle'
  BY <1>1, <1>2, <1>3 DEF DaemonCrash, Abandoned, Fault
<1>6. QED
  BY <1>1, <1>2, <1>3, <1>4, <1>5

\* Monitoring drops a result nobody waits for.
LEMMA MonitorStep ==
  ASSUME PromptInv, monitor
  PROVE  PromptInv'
<1>1. RecordsOK'
  BY DEF monitor, StaleAnswer
<1>2. RequestsOK'
  BY DEF monitor, StaleAnswer
<1>3. JournalOK'
  BY DEF monitor, StaleAnswer
<1>4. OneEntryOneFinal' /\ CompletedAfterTerminal'
  BY <1>1, <1>2, <1>3 DEF monitor, StaleAnswer
<1>5. InTurn' /\ Attended' /\ Answering' /\ DeadIsIdle'
  BY <1>1, <1>2, <1>3 DEF monitor, StaleAnswer
<1>6. QED
  BY <1>1, <1>2, <1>3, <1>4, <1>5

\* A refusal writes nothing.
LEMMA RefuseStep ==
  ASSUME PromptInv, Refuse
  PROVE  PromptInv'
<1>1. RecordsOK'
  BY DEF Refuse, Answer, Fault
<1>2. RequestsOK'
  BY DEF Refuse, Answer, Fault
<1>3. JournalOK'
  BY DEF Refuse, Answer, Fault
<1>4. OneEntryOneFinal' /\ CompletedAfterTerminal'
  BY <1>1, <1>2, <1>3 DEF Refuse, Answer, Fault
<1>5. InTurn' /\ Attended' /\ Answering' /\ DeadIsIdle'
  BY <1>1, <1>2, <1>3 DEF Refuse, Answer, Fault
<1>6. QED
  BY <1>1, <1>2, <1>3, <1>4, <1>5

\* A prompt that has its final is answered from the journal.
LEMMA ReturnFinalStep ==
  ASSUME PromptInv, ReturnFinal
  PROVE  PromptInv'
<1>1. RecordsOK'
  BY DEF ReturnFinal, Answer, AlreadyFinal
<1>2. RequestsOK'
  BY DEF ReturnFinal, Answer, AlreadyFinal
<1>3. JournalOK'
  BY DEF ReturnFinal, Answer, AlreadyFinal
<1>4. OneEntryOneFinal' /\ CompletedAfterTerminal'
  BY <1>1, <1>2, <1>3 DEF ReturnFinal, Answer, AlreadyFinal
<1>5. InTurn' /\ Attended' /\ Answering' /\ DeadIsIdle'
  BY <1>1, <1>2, <1>3 DEF ReturnFinal, Answer, AlreadyFinal
<1>6. QED
  BY <1>1, <1>2, <1>3, <1>4, <1>5

\* A second turn of the session is refused.
LEMMA TurnActiveStep ==
  ASSUME PromptInv, TurnActive
  PROVE  PromptInv'
<1>1. RecordsOK'
  BY DEF TurnActive, Answer, AlreadyFinal
<1>2. RequestsOK'
  BY DEF TurnActive, Answer, AlreadyFinal
<1>3. JournalOK'
  BY DEF TurnActive, Answer, AlreadyFinal
<1>4. OneEntryOneFinal' /\ CompletedAfterTerminal'
  BY <1>1, <1>2, <1>3 DEF TurnActive, Answer, AlreadyFinal
<1>5. InTurn' /\ Attended' /\ Answering' /\ DeadIsIdle'
  BY <1>1, <1>2, <1>3 DEF TurnActive, Answer, AlreadyFinal
<1>6. QED
  BY <1>1, <1>2, <1>3, <1>4, <1>5

\* The user entry is appended once.
LEMMA AppendIngressStep ==
  ASSUME PromptInv, AppendIngress
  PROVE  PromptInv'
<1>1. RecordsOK'
  BY DEF AppendIngress, AlreadyFinal, existing_ingress
<1>2. RequestsOK'
  BY DEF AppendIngress, AlreadyFinal, existing_ingress
<1>3. JournalOK'
  BY DEF AppendIngress, AlreadyFinal, existing_ingress
<1>4. OneEntryOneFinal' /\ CompletedAfterTerminal'
  BY <1>1, <1>2, <1>3 DEF AppendIngress, AlreadyFinal, existing_ingress
<1>5. InTurn' /\ Attended' /\ Answering' /\ DeadIsIdle'
  BY <1>1, <1>2, <1>3 DEF AppendIngress, AlreadyFinal, existing_ingress
<1>6. QED
  BY <1>1, <1>2, <1>3, <1>4, <1>5

\* The obligation is recorded once.
LEMMA AcceptTurnStep ==
  ASSUME PromptInv, AcceptTurn
  PROVE  PromptInv'
<1>1. RecordsOK'
  BY DEF AcceptTurn
<1>2. RequestsOK'
  BY DEF AcceptTurn
<1>3. JournalOK'
  BY DEF AcceptTurn
<1>4. OneEntryOneFinal' /\ CompletedAfterTerminal'
  BY <1>1, <1>2, <1>3 DEF AcceptTurn
<1>5. InTurn' /\ Attended' /\ Answering' /\ DeadIsIdle'
  BY <1>1, <1>2, <1>3 DEF AcceptTurn
<1>6. QED
  BY <1>1, <1>2, <1>3, <1>4, <1>5

\* The model starts on a turn without a final.
LEMMA RunModelStep ==
  ASSUME PromptInv, RunModel
  PROVE  PromptInv'
<1>1. RecordsOK'
  BY DEF RunModel
<1>2. RequestsOK'
  BY DEF RunModel
<1>3. JournalOK'
  BY DEF RunModel
<1>4. OneEntryOneFinal' /\ CompletedAfterTerminal'
  BY <1>1, <1>2, <1>3 DEF RunModel
<1>5. InTurn' /\ Attended' /\ Answering' /\ DeadIsIdle'
  BY <1>1, <1>2, <1>3 DEF RunModel
<1>6. QED
  BY <1>1, <1>2, <1>3, <1>4, <1>5

\* The final of a turn in progress is its first.
LEMMA FinalizeTurnStep ==
  ASSUME PromptInv, FinalizeTurn
  PROVE  PromptInv'
<1>1. RecordsOK'
  BY DEF FinalizeTurn, Answer, Fault
<1>2. RequestsOK'
  BY DEF FinalizeTurn, Answer, Fault
<1>3. JournalOK'
  BY DEF FinalizeTurn, Answer, Fault
<1>4. OneEntryOneFinal' /\ CompletedAfterTerminal'
  BY <1>1, <1>2, <1>3 DEF FinalizeTurn, Answer, Fault
<1>5. InTurn' /\ Attended' /\ Answering' /\ DeadIsIdle'
  BY <1>1, <1>2, <1>3 DEF FinalizeTurn, Answer, Fault
<1>6. QED
  BY <1>1, <1>2, <1>3, <1>4, <1>5

\* A turn that cannot look for its user entry writes nothing.
LEMMA HistoryUnreadableStep ==
  ASSUME PromptInv, HistoryUnreadable
  PROVE  PromptInv'
<1>1. RecordsOK'
  BY DEF HistoryUnreadable, Answer, Fault
<1>2. RequestsOK'
  BY DEF HistoryUnreadable, Answer, Fault
<1>3. JournalOK'
  BY DEF HistoryUnreadable, Answer, Fault
<1>4. OneEntryOneFinal' /\ CompletedAfterTerminal'
  BY <1>1, <1>2, <1>3 DEF HistoryUnreadable, Answer, Fault
<1>5. InTurn' /\ Attended' /\ Answering' /\ DeadIsIdle'
  BY <1>1, <1>2, <1>3 DEF HistoryUnreadable, Answer, Fault
<1>6. QED
  BY <1>1, <1>2, <1>3, <1>4, <1>5

\* A failed turn leaves no trace beyond what it wrote.
LEMMA TurnFailsStep ==
  ASSUME PromptInv, TurnFails
  PROVE  PromptInv'
<1>1. RecordsOK'
  BY DEF TurnFails, Answer, Fault
<1>2. RequestsOK'
  BY DEF TurnFails, Answer, Fault
<1>3. JournalOK'
  BY DEF TurnFails, Answer, Fault
<1>4. OneEntryOneFinal' /\ CompletedAfterTerminal'
  BY <1>1, <1>2, <1>3 DEF TurnFails, Answer, Fault
<1>5. InTurn' /\ Attended' /\ Answering' /\ DeadIsIdle'
  BY <1>1, <1>2, <1>3 DEF TurnFails, Answer, Fault
<1>6. QED
  BY <1>1, <1>2, <1>3, <1>4, <1>5

\* A routed prompt is queued, or has its final.
LEMMA SubmitActionStep ==
  ASSUME PromptInv, SubmitAction
  PROVE  PromptInv'
<1>1. RecordsOK'
  BY DEF SubmitAction, AlreadyFinal
<1>2. RequestsOK'
  BY DEF SubmitAction, AlreadyFinal
<1>3. JournalOK'
  BY DEF SubmitAction, AlreadyFinal
<1>4. OneEntryOneFinal' /\ CompletedAfterTerminal'
  BY <1>1, <1>2, <1>3 DEF SubmitAction, AlreadyFinal
<1>5. InTurn' /\ Attended' /\ Answering' /\ DeadIsIdle'
  BY <1>1, <1>2, <1>3 DEF SubmitAction, AlreadyFinal
<1>6. QED
  BY <1>1, <1>2, <1>3, <1>4, <1>5

\* A drained request answers for a queued prompt.
LEMMA DrainDoneStep ==
  ASSUME PromptInv, DrainDone
  PROVE  PromptInv'
<1>1. RecordsOK'
  BY DEF DrainDone, Answer
<1>2. RequestsOK'
  BY DEF DrainDone, Answer
<1>3. JournalOK'
  BY DEF DrainDone, Answer
<1>4. OneEntryOneFinal' /\ CompletedAfterTerminal'
  BY <1>1, <1>2, <1>3 DEF DrainDone, Answer
<1>5. InTurn' /\ Attended' /\ Answering' /\ DeadIsIdle'
  BY <1>1, <1>2, <1>3 DEF DrainDone, Answer
<1>6. QED
  BY <1>1, <1>2, <1>3, <1>4, <1>5

\* A crash empties the executor.
LEMMA WorkerCrashStep ==
  ASSUME PromptInv, WorkerCrash
  PROVE  PromptInv'
<1>1. RecordsOK'
  BY DEF WorkerCrash, Fault
<1>2. RequestsOK'
  BY DEF WorkerCrash, Fault
<1>3. JournalOK'
  BY DEF WorkerCrash, Fault
<1>4. OneEntryOneFinal' /\ CompletedAfterTerminal'
  BY <1>1, <1>2, <1>3 DEF WorkerCrash, Fault
<1>5. InTurn' /\ Attended' /\ Answering' /\ DeadIsIdle'
  BY <1>1, <1>2, <1>3 DEF WorkerCrash, Fault
<1>6. QED
  BY <1>1, <1>2, <1>3, <1>4, <1>5

\* Every step of the daemon and the worker keeps the invariant.
LEMMA NextStep ==
  ASSUME PromptInv, [Next]_vars
  PROVE  PromptInv'
<1>1. ASSUME NEW p \in Prompts, SubmitPrompt(p) PROVE PromptInv'
  BY <1>1, SubmitPromptStep
<1>2. ASSUME NEW p \in Prompts, resume_one_prompt(p) PROVE PromptInv'
  BY <1>2, ResumeOnePromptStep
<1>3. ASSUME NEW p \in Prompts, BackoffElapses(p) PROVE PromptInv'
  BY <1>3, BackoffElapsesStep
<1>4. ASSUME NEW p \in Prompts, PumpAnswers(p) PROVE PromptInv'
  BY <1>4, PumpAnswersStep
<1>5. CASE activate_session
  BY <1>5, ActivateSessionStep
<1>6. CASE ActivationRefused
  BY <1>6, ActivationRefusedStep
<1>7. CASE ActivationFails
  BY <1>7, ActivationFailsStep
<1>8. CASE execute_streaming
  BY <1>8, ExecuteStreamingStep
<1>9. CASE ReceiveOk
  BY <1>9, ReceiveOkStep
<1>10. CASE ReceiveFailed
  BY <1>10, ReceiveFailedStep
<1>11. CASE PublishSnapshot
  BY <1>11, PublishSnapshotStep
<1>12. CASE WorkerLost
  BY <1>12, WorkerLostStep
<1>13. CASE ConnectionFails
  BY <1>13, ConnectionFailsStep
<1>14. CASE DaemonCrash
  BY <1>14, DaemonCrashStep
<1>15. CASE monitor
  BY <1>15, MonitorStep
<1>16. CASE Refuse
  BY <1>16, RefuseStep
<1>17. CASE ReturnFinal
  BY <1>17, ReturnFinalStep
<1>18. CASE TurnActive
  BY <1>18, TurnActiveStep
<1>19. CASE AppendIngress
  BY <1>19, AppendIngressStep
<1>20. CASE AcceptTurn
  BY <1>20, AcceptTurnStep
<1>21. CASE RunModel
  BY <1>21, RunModelStep
<1>22. CASE FinalizeTurn
  BY <1>22, FinalizeTurnStep
<1>23. CASE TurnFails
  BY <1>23, TurnFailsStep
<1>24. CASE SubmitAction
  BY <1>24, SubmitActionStep
<1>25. CASE DrainDone
  BY <1>25, DrainDoneStep
<1>26. CASE WorkerCrash
  BY <1>26, WorkerCrashStep
<1>27. CASE HistoryUnreadable
  BY <1>27, HistoryUnreadableStep
<1>28. CASE UNCHANGED vars
  BY <1>28 DEF vars
<1>29. QED
  BY <1>1, <1>2, <1>3, <1>4, <1>5, <1>6, <1>7, <1>8, <1>9, <1>10, <1>11,
     <1>12, <1>13, <1>14, <1>15, <1>16, <1>17, <1>18, <1>19, <1>20, <1>21,
     <1>22, <1>23, <1>24, <1>25, <1>26, <1>27, <1>28 DEF Next, Dispatch, Turn

\* The inductive invariant: what the journal holds for a turn in progress,
\* and what a result the daemon waits for stands for.
THEOREM PromptInvariant == Spec => []PromptInv
<1>1. Init => PromptInv
  <2> SUFFICES ASSUME Init PROVE PromptInv
    OBVIOUS
  <2>2. RecordsOK /\ RequestsOK
    BY DEF Init
  <2>3. JournalOK
    BY DEF Init
  <2>4. OneEntryOneFinal /\ CompletedAfterTerminal
    BY DEF Init
  <2>5. InTurn /\ Attended /\ Answering /\ DeadIsIdle
    BY DEF Init
  <2>6. QED
    BY <2>2, <2>3, <2>4, <2>5
<1>2. PromptInv /\ [Next]_vars => PromptInv'
  BY NextStep
<1>3. QED
  BY <1>1, <1>2, PTL DEF Spec

HIDE DEF PromptInv, TypeOK, OneEntryOneFinal, CompletedAfterTerminal

\* Type correctness of records, dispatch, executor and journal.
THEOREM PromptTypeCorrect == Spec => []TypeOK
<1>1. PromptInv => TypeOK
  BY DEF PromptInv
<1>2. QED
  BY <1>1, PromptInvariant, PTL

\* Whatever is retried, abandoned or recovered, a prompt gets at most one user
\* entry and one final (run_turn, recover_unfinished_turn_obligations).
THEOREM PromptsEnterOnce == Spec => []OneEntryOneFinal
<1>1. PromptInv => OneEntryOneFinal
  BY DEF PromptInv
<1>2. QED
  BY <1>1, PromptInvariant, PTL

\* A prompt is settled only when it is queued or the session has a terminal
\* turn (dispatch_accepted_prompt).
THEOREM PromptsSettleAfterTerminal == Spec => []CompletedAfterTerminal
<1>1. PromptInv => CompletedAfterTerminal
  BY DEF PromptInv
<1>2. QED
  BY <1>1, PromptInvariant, PTL
=============================================================================
