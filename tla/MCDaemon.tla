------------------------------ MODULE MCDaemon ------------------------------
(***************************************************************************)
(* Instances of the daemon's two paths for a prompt: the durable ingress   *)
(* that brings it to the worker, and the event stream that brings the      *)
(* answer to the clients.  `part' names the one whose steps are explored;  *)
(* the other stays as it is.                                               *)
(***************************************************************************)
EXTENDS PromptIngress

CONSTANTS
  p1, p2, c1, c2,      \* prompts and clients
  NoHub, NoView, NoTurn, NoClient, NoCursor, NoSnapshot

VARIABLES
  part,
  hub, generation, text, turn, admitted, ledger,                         \* the stream,
  view, wire, line, unanswered, link, issued, adrift, breaks             \* its clients

(* A direct and a routed prompt.                                           *)
TwoPrompts == {p1, p2}
OneRouted == {p2}

(* Two clients, either of which submits the prompt, and one fault: two     *)
(* deltas share a place of a queue of three, and the replay is shorter     *)
(* than a turn.  Overlap has two prompts of one delta and no fault.        *)
E == INSTANCE EventStream WITH
       worker <- generation, journal <- text, accepted <- admitted, faults <- breaks,
       Clients <- {c1, c2}, Prompts <- {p1}, ReplayCapacity <- 2, QueueCapacity <- 3,
       MaxDeltas <- 2, MaxGeneration <- 2, MaxFaults <- 1

Overlap == INSTANCE EventStream WITH
       worker <- generation, journal <- text, accepted <- admitted, faults <- breaks,
       Clients <- {c1, c2}, Prompts <- {p1, p2}, ReplayCapacity <- 2, QueueCapacity <- 3,
       MaxDeltas <- 1, MaxGeneration <- 1, MaxFaults <- 0

ingressVars == <<record, ready, daemon, worker, exec, held, inbox, users, accepted,
                 finals, runs, faults>>
streamVars == <<hub, generation, text, turn, admitted, ledger, view, wire, line,
                unanswered, link, issued, adrift, breaks>>
allVars == <<part, ingressVars, streamVars>>

DaemonInit ==
  /\ part \in {"ingress", "stream", "overlap"}
  /\ Init /\ E!Init

Ingress == part = "ingress" /\ Next /\ UNCHANGED <<part, streamVars>>
Streaming == part = "stream" /\ E!Next /\ UNCHANGED <<part, ingressVars>>
Overlapping == part = "overlap" /\ Overlap!Next /\ UNCHANGED <<part, ingressVars>>

DaemonNext == Ingress \/ Streaming \/ Overlapping

(* The fairness of each part, as its module states it, while it is the one *)
(* explored.  What only one property needs is stated with the property.    *)
IngressFairness ==
  /\ SF_ingressVars(part = "ingress" /\ monitor)
  /\ \A p \in Prompts : /\ SF_ingressVars(part = "ingress" /\ resume_one_prompt(p))
                        /\ WF_ingressVars(part = "ingress" /\ BackoffElapses(p))
                        /\ WF_ingressVars(part = "ingress" /\ PumpAnswers(p))

StreamFairness ==
  /\ WF_streamVars(part # "ingress" /\ E!Run)
  /\ \A c \in {c1, c2} : /\ WF_streamVars(part # "ingress" /\ E!Serve(c))
                         /\ WF_streamVars(part # "ingress" /\ E!Follow(c))

DaemonSpec ==
  /\ DaemonInit /\ [][DaemonNext]_allVars
  /\ WF_ingressVars(part = "ingress" /\ Dispatch)
  /\ WF_ingressVars(part = "ingress" /\ Turn)
-----------------------------------------------------------------------------
(* Every prompt accepted into the durable ingress is answered or given up  *)
(* in the end (resume_one_prompt, prompt_recovery).                        *)
AcceptedIsSettled == IngressFairness => AcceptedSettles

(* A client's view is the session as it was after the event its cursor     *)
(* names (EventHub::recover, ProjectionReducer::apply_event).              *)
ViewMatchesStream == E!ViewMatchesStream

(* An attached client gets up to date (drain_client_events).  The clients  *)
(* are interchangeable, so it is enough to watch one.                      *)
CatchesUp == StreamFairness => E!CatchesUp(c1)

(* An answer the daemon has given reaches the client that asked            *)
(* (CommandLedger, recover_connection).                                    *)
AnswerIsSeen == StreamFairness => E!AnswerIsSeen(c1, p1)
=============================================================================
