--------------------------- MODULE PromptIngress ---------------------------
(***************************************************************************)
(* Durable prompt ingress: the daemon's PromptIngress records              *)
(* (crates/daemon-core), the private request channel to the worker that    *)
(* owns the session (crates/supervisor, crates/worker-runtime) and the     *)
(* worker's turn for an accepted prompt (crates/local-runtime, with the    *)
(* journal of crates/session-store), for the prompts of one session.       *)
(*                                                                         *)
(* The daemon serves prompts and maintenance under one mutex, so it has at *)
(* most one dispatch in hand.  The worker has one executor and at most one *)
(* active request; it outlives a lost connection and a dead daemon, and    *)
(* its result is then stale for whoever connects next.  A direct prompt    *)
(* runs its turn in the request; a prompt in Routed carries a reply route  *)
(* and is queued in the action inbox, whose pump is module ActionPump.     *)
(***************************************************************************)
EXTENDS Naturals, Sequences

CONSTANTS Prompts,        \* the stable command identities of one session
          NoPrompt,       \* no prompt in hand
          Routed,         \* the prompts that carry a reply route
          SessionFaults,  \* whether a journal write or read may fail
          MaxFaults       \* bound on crashes, breaks, refusals and failures

ASSUME PromptAssumption ==
  /\ NoPrompt \notin Prompts
  /\ Routed \subseteq Prompts
  /\ SessionFaults \in BOOLEAN
  /\ MaxFaults \in Nat

VARIABLES record,   \* PromptIngressState of each command
          ready,    \* the prompts whose next_attempt_at is not in the future
          daemon,   \* the dispatch in hand: its step and its prompt
          worker,   \* whether the worker process runs
          exec,     \* the worker's active request: step, prompt and who waits
          held,     \* the session's entry in active_cancellations
          inbox,    \* the prompts submitted to the action inbox
          users,    \* user entries in the journal that name the prompt
          accepted, \* turn obligations in the journal, in order
          finals,   \* terminal finals in the journal of the prompt's action
          runs,     \* hand-overs to the model since the journal last failed the turn
          faults    \* faults so far

journal == <<users, accepted, finals>>
vars == <<record, ready, daemon, worker, exec, held, inbox, journal, runs, faults>>

Idle == [step |-> "Idle", p |-> NoPrompt]
NoWork == [step |-> "Idle", p |-> NoPrompt, for |-> "Nobody"]
At(step, p) == [step |-> step, p |-> p]
Work(step, p, for) == [step |-> step, p |-> p, for |-> for]

DaemonSteps == {"Idle", "Activate", "Send", "Stream", "Snapshot"}
ExecSteps == {"Idle", "Start", "Drain", "Ingress", "Accepted", "Model", "Ok", "Failed"}

\* SessionSnapshot.terminal: some turn of the session's history is terminal.
HasTerminal == \E q \in Prompts : finals[q] > 0

Init ==
  /\ record = [p \in Prompts |-> "None"]
  /\ ready = {}
  /\ daemon = Idle
  /\ worker = "Down"
  /\ exec = NoWork
  /\ held = "Free"
  /\ inbox = {}
  /\ users = [p \in Prompts |-> 0]
  /\ accepted = <<>>
  /\ finals = [p \in Prompts |-> 0]
  /\ runs = [p \in Prompts |-> 0]
  /\ faults = 0

Fault ==
  /\ faults < MaxFaults
  /\ faults' = faults + 1

----------------------------------------------------------------------------
(* The daemon. *)

\* run_prompt with accept_prompt: the record is durable before dispatch, and
\* a repeated command finds it.  A repeat of a completed command is answered
\* from the record and changes nothing.
SubmitPrompt(p) ==
  /\ daemon = Idle
  /\ record[p] # "Completed"
  /\ IF record[p] = "None"
       THEN /\ record' = [record EXCEPT ![p] = "Accepted"]
            /\ ready' = ready \cup {p}
       ELSE UNCHANGED <<record, ready>>
  /\ daemon' = At("Activate", p)
  /\ UNCHANGED <<worker, exec, held, inbox, journal, runs, faults>>

\* resume_one_prompt: maintenance picks up an accepted prompt that is due.
resume_one_prompt(p) ==
  /\ daemon = Idle
  /\ record[p] = "Accepted"
  /\ p \in ready
  /\ daemon' = At("Activate", p)
  /\ UNCHANGED <<record, ready, worker, exec, held, inbox, journal, runs, faults>>

\* The back-off of a deferred prompt runs out.
BackoffElapses(p) ==
  /\ record[p] = "Accepted"
  /\ p \notin ready
  /\ ready' = ready \cup {p}
  /\ UNCHANGED <<record, daemon, worker, exec, held, inbox, journal, runs, faults>>

\* complete_prompt; its result is ignored, so a failed write leaves the
\* record Accepted and due.
complete_prompt(p) ==
  /\ daemon' = Idle
  /\ ready' = ready
  /\ \/ /\ record' = [record EXCEPT ![p] = "Completed"]
        /\ faults' = faults
     \/ /\ Fault
        /\ record' = record

\* defer_prompt: later by the back-off, or at once when its write failed.
defer_prompt(p) ==
  /\ daemon' = Idle
  /\ record' = record
  /\ ready' \in {ready, ready \ {p}}

\* activate_session finds the worker, or restarts it.  A starting worker
\* finalizes the last unfinished obligation of the session before it serves
\* (recover_unfinished_turn_obligations).
Unfinished == {i \in DOMAIN accepted : finals[accepted[i]] = 0}

\* Mutant: a starting worker serves without looking at the journal.
recover_nothing ==
  finals' = finals

recover_unfinished_turn_obligations ==
  \/ /\ Unfinished = {}
     /\ finals' = finals
  \/ \E i \in Unfinished :
       /\ \A j \in Unfinished : j <= i
       /\ finals' = [finals EXCEPT ![accepted[i]] = @ + 1]

\* The daemon reads the session's snapshot over the private channel before it
\* dispatches (ensure_event_hub).  The worker forwards a finished result
\* before it reads a request, so a result nobody waits for any more reaches
\* the daemon first: a mismatch, and the request runs unattended.  While a
\* request is active the next one is refused.
StaleAnswer == exec.step \in {"Ok", "Failed"} /\ exec.for = "Nobody"

activate_session ==
  /\ daemon.step = "Activate"
  /\ \/ /\ worker = "Up"
        /\ exec = NoWork
        /\ UNCHANGED <<worker, finals>>
     \/ /\ worker = "Down"
        /\ worker' = "Up"
        /\ recover_unfinished_turn_obligations
  /\ daemon' = At("Send", daemon.p)
  /\ UNCHANGED <<record, ready, exec, held, inbox, users, accepted, runs, faults>>

ActivationRefused ==
  /\ daemon.step = "Activate"
  /\ worker = "Up"
  /\ exec # NoWork
  /\ exec' = IF StaleAnswer THEN Work("Ok", exec.p, "Nobody") ELSE exec
  /\ defer_prompt(daemon.p)
  /\ UNCHANGED <<worker, held, inbox, journal, runs, faults>>

\* The worker cannot be started, or does not become ready in time.
ActivationFails ==
  /\ daemon.step = "Activate"
  /\ Fault
  /\ defer_prompt(daemon.p)
  /\ UNCHANGED <<worker, exec, held, inbox, journal, runs>>

\* execute_streaming sends RunAcceptedPrompt and service_control takes it up.
execute_streaming ==
  /\ daemon.step = "Send"
  /\ worker = "Up"
  /\ exec' = Work("Start", daemon.p, "Daemon")
  /\ daemon' = At("Stream", daemon.p)
  /\ UNCHANGED <<record, ready, worker, held, inbox, journal, runs, faults>>

\* The result for the request in hand.  A snapshot settles the prompt,
\* whatever it says; a failure makes the daemon ask for a snapshot.
ReceiveOk ==
  /\ daemon.step = "Stream"
  /\ exec.step = "Ok"
  /\ exec' = NoWork
  /\ complete_prompt(daemon.p)
  /\ UNCHANGED <<worker, held, inbox, journal, runs>>

ReceiveFailed ==
  /\ daemon.step = "Stream"
  /\ exec.step = "Failed"
  /\ exec' = NoWork
  /\ daemon' = At("Snapshot", daemon.p)
  /\ UNCHANGED <<record, ready, worker, held, inbox, journal, runs, faults>>

\* Mutant: any snapshot settles a failed prompt.
SettledByAnySnapshot == TRUE

\* After a failure the prompt is settled when the session's snapshot shows a
\* terminal turn, and deferred otherwise.
SettledBySnapshot == HasTerminal

PublishSnapshot ==
  /\ daemon.step = "Snapshot"
  /\ worker = "Up"
  /\ \/ /\ SettledBySnapshot
        /\ complete_prompt(daemon.p)
     \/ /\ ~SettledBySnapshot
        /\ defer_prompt(daemon.p)
        /\ faults' = faults
  /\ UNCHANGED <<worker, exec, held, inbox, journal, runs>>

\* The worker is gone: the request in hand ends in an error.
WorkerLost ==
  /\ daemon.step \in {"Send", "Stream", "Snapshot"}
  /\ worker = "Down"
  /\ defer_prompt(daemon.p)
  /\ UNCHANGED <<worker, exec, held, inbox, journal, runs, faults>>

\* The private connection fails, or the daemon dies, with the worker alive;
\* the worker carries on and nobody waits for its result.
Abandoned == IF exec = NoWork THEN exec ELSE [exec EXCEPT !.for = "Nobody"]

ConnectionFails ==
  /\ daemon.step \in {"Send", "Stream", "Snapshot"}
  /\ worker = "Up"
  /\ Fault
  /\ exec' = Abandoned
  /\ defer_prompt(daemon.p)
  /\ UNCHANGED <<worker, held, inbox, journal, runs>>

DaemonCrash ==
  /\ daemon # Idle
  /\ Fault
  /\ exec' = Abandoned
  /\ daemon' = Idle
  /\ UNCHANGED <<record, ready, worker, held, inbox, journal, runs>>

\* Mutant: results nobody waits for stay in the channel.
monitor_keeps ==
  /\ daemon = Idle
  /\ StaleAnswer
  /\ UNCHANGED vars

\* Supervisor::monitor reads a result nobody waits for and drops it.
monitor ==
  /\ daemon = Idle
  /\ StaleAnswer
  /\ exec' = NoWork
  /\ UNCHANGED <<record, ready, daemon, worker, held, inbox, journal, runs, faults>>

----------------------------------------------------------------------------
(* The worker. *)

\* The request ends: its result waits to be forwarded.
Answer(how) == exec' = [exec EXCEPT !.step = how]

\* run_turn refuses before it writes anything: no model route, no session
\* writer, no turn lease.  For a routed prompt the inbox refuses the action
\* or the drain fails.
Refuse ==
  /\ exec.step \in {"Start", "Drain"}
  /\ Fault
  /\ Answer("Failed")
  /\ UNCHANGED <<record, ready, daemon, worker, held, inbox, journal, runs>>

\* The action already has its final: the turn is not run again.
AlreadyFinal(p) == finals[p] > 0

ReturnFinal ==
  /\ exec.step = "Start"
  /\ exec.p \notin Routed
  /\ AlreadyFinal(exec.p)
  /\ Answer("Ok")
  /\ UNCHANGED <<record, ready, daemon, worker, held, inbox, journal, runs, faults>>

\* "a turn is already active for this session"
TurnActive ==
  /\ exec.step = "Start"
  /\ exec.p \notin Routed
  /\ ~AlreadyFinal(exec.p)
  /\ held = "Held"
  /\ Answer("Failed")
  /\ UNCHANGED <<record, ready, daemon, worker, held, inbox, journal, runs, faults>>

\* Mutant: every attempt appends its user entry.
existing_ingress_unread(p) == FALSE

\* The user entry that names this action, if an earlier attempt wrote it.
existing_ingress(p) == users[p] > 0

AppendIngress ==
  /\ exec.step = "Start"
  /\ exec.p \notin Routed
  /\ ~AlreadyFinal(exec.p)
  /\ held = "Free"
  /\ held' = "Held"
  /\ users' = IF existing_ingress(exec.p)
                THEN users
                ELSE [users EXCEPT ![exec.p] = @ + 1]
  /\ exec' = [exec EXCEPT !.step = "Ingress"]
  /\ UNCHANGED <<record, ready, daemon, worker, inbox, accepted, finals, runs, faults>>

\* accept_turn returns the obligation an earlier attempt recorded.
AcceptTurn ==
  /\ exec.step = "Ingress"
  /\ accepted' = IF \E i \in DOMAIN accepted : accepted[i] = exec.p
                   THEN accepted
                   ELSE Append(accepted, exec.p)
  /\ exec' = [exec EXCEPT !.step = "Accepted"]
  /\ UNCHANGED <<record, ready, daemon, worker, held, inbox, users, finals, runs, faults>>

RunModel ==
  /\ exec.step = "Accepted"
  /\ runs' = [runs EXCEPT ![exec.p] = @ + 1]
  /\ exec' = [exec EXCEPT !.step = "Model"]
  /\ UNCHANGED <<record, ready, daemon, worker, held, inbox, journal, faults>>

\* append_finalized_turn commits the final: the model's, or after the request
\* could not be built the local failure final (finalize_accepted_failure).
\* The turn lease ends with it.  The snapshot that follows may still fail.
FinalizeTurn ==
  /\ exec.step \in {"Accepted", "Model"}
  /\ finals' = [finals EXCEPT ![exec.p] = @ + 1]
  /\ held' = "Free"
  /\ \/ /\ Answer("Ok")
        /\ faults' = faults
     \/ /\ Fault
        /\ Answer("Failed")
  /\ UNCHANGED <<record, ready, daemon, worker, inbox, users, accepted, runs>>

\* The journal cannot be read for an earlier user entry, or is read back for
\* the request and the final: the error returns past the turn lease.  When
\* the obligation or the model's final cannot be written, the lease is ended.
HistoryUnreadable ==
  /\ SessionFaults
  /\ exec.step = "Start"
  /\ exec.p \notin Routed
  /\ ~AlreadyFinal(exec.p)
  /\ held = "Free"
  /\ Fault
  /\ Answer("Failed")
  /\ held' = "Held"
  /\ UNCHANGED <<record, ready, daemon, worker, inbox, journal, runs>>

TurnFails ==
  /\ SessionFaults
  /\ Fault
  /\ Answer("Failed")
  /\ \/ exec.step \in {"Ingress", "Model"} /\ held' = "Free"
     \/ exec.step \in {"Accepted", "Model"} /\ held' = "Held"
  /\ runs' = [runs EXCEPT ![exec.p] = 0]
  /\ UNCHANGED <<record, ready, daemon, worker, inbox, journal>>

\* A routed prompt becomes an inbox action once, and is drained.
SubmitAction ==
  /\ exec.step = "Start"
  /\ exec.p \in Routed
  /\ inbox' = IF AlreadyFinal(exec.p) THEN inbox ELSE inbox \cup {exec.p}
  /\ exec' = [exec EXCEPT !.step = "Drain"]
  /\ UNCHANGED <<record, ready, daemon, worker, held, journal, runs, faults>>

\* The pump may leave the action for later; the snapshot is returned anyway.
DrainDone ==
  /\ exec.step = "Drain"
  /\ Answer("Ok")
  /\ UNCHANGED <<record, ready, daemon, worker, held, inbox, journal, runs, faults>>

\* The pump answers a queued prompt (module ActionPump): user entry and final.
PumpAnswers(p) ==
  /\ worker = "Up"
  /\ p \in inbox
  /\ exec.step \in {"Idle", "Drain"}
  /\ held = "Free"
  /\ finals[p] = 0
  /\ users' = [users EXCEPT ![p] = 1]
  /\ finals' = [finals EXCEPT ![p] = 1]
  /\ UNCHANGED <<record, ready, daemon, worker, exec, held, inbox, accepted, runs, faults>>

WorkerCrash ==
  /\ worker = "Up"
  /\ Fault
  /\ worker' = "Down"
  /\ exec' = NoWork
  /\ held' = "Free"
  /\ UNCHANGED <<record, ready, daemon, inbox, journal, runs>>

Turn == \/ ReturnFinal \/ TurnActive \/ AppendIngress \/ AcceptTurn \/ RunModel
        \/ FinalizeTurn \/ SubmitAction \/ DrainDone

Dispatch == \/ activate_session \/ ActivationRefused \/ execute_streaming
            \/ ReceiveOk \/ ReceiveFailed \/ PublishSnapshot \/ WorkerLost

Next ==
  \/ \E p \in Prompts : \/ SubmitPrompt(p) \/ resume_one_prompt(p)
                        \/ BackoffElapses(p) \/ PumpAnswers(p)
  \/ Dispatch \/ monitor
  \/ Turn
  \/ ActivationFails \/ ConnectionFails \/ DaemonCrash
  \/ Refuse \/ HistoryUnreadable \/ TurnFails \/ WorkerCrash

Spec == Init /\ [][Next]_vars

(* The daemon finishes the dispatch in hand, the executor finishes what it   *)
(* started, time passes and the pump drains.  Maintenance, which monitors    *)
(* workers and resumes one due prompt, recurs between client commands: it is *)
(* enabled only while no dispatch is in hand, hence strong fairness.         *)
FairSpec ==
  /\ Spec
  /\ WF_vars(Dispatch)
  /\ WF_vars(Turn)
  /\ SF_vars(monitor)
  /\ \A p \in Prompts : /\ SF_vars(resume_one_prompt(p))
                        /\ WF_vars(BackoffElapses(p))
                        /\ WF_vars(PumpAnswers(p))
----------------------------------------------------------------------------
(* Properties *)

RecordsOK ==
  /\ record \in [Prompts -> {"None", "Accepted", "Completed"}]
  /\ ready \subseteq Prompts
  /\ inbox \subseteq Routed

RequestsOK ==
  /\ daemon \in [step : DaemonSteps, p : Prompts \cup {NoPrompt}]
  /\ (daemon.step = "Idle") <=> (daemon.p = NoPrompt)
  /\ exec \in [step : ExecSteps, p : Prompts \cup {NoPrompt}, for : {"Daemon", "Nobody"}]
  /\ (exec.step = "Idle") <=> (exec.p = NoPrompt)
  /\ worker \in {"Up", "Down"}
  /\ held \in {"Free", "Held"}

JournalOK ==
  /\ users \in [Prompts -> Nat]
  /\ accepted \in Seq(Prompts)
  /\ finals \in [Prompts -> Nat]
  /\ runs \in [Prompts -> Nat]
  /\ faults \in 0..MaxFaults

\* Every variable keeps the shape the code gives it: a record is Accepted or
\* Completed once it exists, and a request in hand names its prompt.
TypeOK == RecordsOK /\ RequestsOK /\ JournalOK

\* However often a prompt is submitted, dispatched, abandoned and recovered,
\* the journal holds at most one user entry and one terminal final for it
\* (run_turn's lookups by action identity, recovery at worker start).
OneEntryOneFinal ==
  \A p \in Prompts : users[p] <= 1 /\ finals[p] <= 1

\* A prompt is marked completed only when it is queued in the inbox or the
\* session shows a terminal turn: in a session without history no prompt is
\* dropped by a failed dispatch (the terminal check of
\* dispatch_accepted_prompt).
CompletedAfterTerminal ==
  \A p \in Prompts : record[p] = "Completed" => p \in inbox \/ HasTerminal

\* Unless the journal failed its turn, no crash, break or retry hands an
\* accepted prompt to the model a second time: its effects are not replayed
\* (recover_unfinished_turn_obligations before the first dispatch).
ModelRunsOnce ==
  \A p \in Prompts : runs[p] <= 1

\* Every admitted prompt is eventually settled, without the client sending it
\* again, whatever crashed in between (resume_one_prompt, defer_prompt), unless
\* a failed turn leaves the session's active_cancellations entry for good.
AcceptedSettles ==
  []<>(held = "Free") =>
    \A p \in Prompts : record[p] = "Accepted" ~> record[p] = "Completed"

\* A completed prompt has its own final or is queued to get one.  The code
\* violates it: the terminal turn it settles for may be an earlier prompt's.
CompletedIsAnswered ==
  \A p \in Prompts : record[p] = "Completed" => p \in inbox \/ finals[p] > 0
=============================================================================
