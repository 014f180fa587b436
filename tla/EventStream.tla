---------------------------- MODULE EventStream ----------------------------
(***************************************************************************)
(* The stream of events by which the daemon keeps its clients' views of a  *)
(* session up to date.  One hub per root numbers the events, keeps the     *)
(* last few for replay and a bounded queue for every attached client       *)
(* (daemon-core/src/events.rs).  A client's reducer takes in the next      *)
(* event and nothing else (ui-model), and attaches again with the cursor   *)
(* of its view when it sees a gap (agent-tui).                             *)
(*                                                                         *)
(* A client is told of an event along two paths: through its queue, which  *)
(* its connection drains when no command arrives for a while, and, if the  *)
(* event belongs to its own prompt, at once.  The paths overtake each      *)
(* other, connections break with messages in them, the worker comes back   *)
(* under another generation and the daemon itself restarts.                *)
(*                                                                         *)
(* The text of a session is a sequence of pieces: <<p, n>> is the n-th     *)
(* delta of the answer to prompt p, <<p, 0>> the answer as committed.      *)
(***************************************************************************)
EXTENDS Integers, Sequences, FiniteSets, SequencesExt

CONSTANTS
  Clients, Prompts,
  ReplayCapacity,      \* DaemonOptions::replay_capacity
  QueueCapacity,       \* DaemonOptions::client_queue_capacity
  MaxDeltas,           \* bound: deltas of a turn
  MaxGeneration,       \* bound: generations of the worker
  MaxFaults,           \* bound: lost connections, failed turns, restarts
  NoHub, NoView, NoTurn, NoClient, NoCursor, NoSnapshot

VARIABLES
  hub,        \* the EventHub of the root, NoHub until a command needs it
  worker,     \* the generation of the worker that serves the root
  journal,    \* the committed text, which the worker keeps on disk
  turn,       \* the prompt being run; the daemon's lock is held meanwhile
  accepted,   \* prompts in the durable ingress
  ledger,     \* CommandLedger: results of commands not yet known to be read
  view,       \* a client's reducer: generation, sequence and text
  wire,       \* what a connection carries to the client
  line,       \* and the commands it carries to the daemon
  unanswered, \* commands a client sent and has no result of, in order
  link,       \* "up", "down", or "back": reconnected, commands not resent
  issued,     \* commands a client has issued
  adrift,     \* history: views whose cursor does not belong to the stream
  faults

vars == <<hub, worker, journal, turn, accepted, ledger, view, wire, line,
          unanswered, link, issued, adrift, faults>>
daemonVars == <<hub, worker, journal, turn, accepted>>
clientVars == <<view, unanswered, link, issued, adrift>>
-----------------------------------------------------------------------------
(* Events and the hub.  A hub's `past' is history: past[n + 1] is the text *)
(* after event n.                                                          *)
Note == [kind |-> "note", text |-> <<>>]
Delta(p, n) == [kind |-> "delta", text |-> <<<<p, n>>>>]
Replacement(text) == [kind |-> "snapshot", text |-> text]

(* What an event does to the text of a snapshot.                           *)
apply_event(text, e) ==
  CASE e.kind = "delta"    -> text \o e.text
    [] e.kind = "snapshot" -> e.text
    [] OTHER               -> text

(* The reducer has the rules of the hub in a function of its own.          *)
apply_event_payload(text, e) == apply_event(text, e)

SameMessage(d, e) == d.kind = "delta" /\ e.kind = "delta" /\ d.text[1][1] = e.text[1][1]

(* Mutant: the text is joined, the sequence is not moved on.               *)
coalesce_unstamped(queue, x) ==
  Append(Front(queue), [Last(queue) EXCEPT !.event.text = @ \o x.event.text])

coalesce_delta(queue, x) ==
  Append(Front(queue), [Last(queue) EXCEPT !.last = x.last, !.event.text = @ \o x.event.text])

Coalesces(queue, x) == queue # <<>> /\ SameMessage(Last(queue).event, x.event)

NewHub ==
  [generation |-> worker, sequence |-> 0, text |-> journal, replay |-> <<>>,
   queue |-> [c \in {} |-> <<>>], past |-> <<journal>>]

(* activate_session: the hub of the worker's generation, its clients gone  *)
(* if it is not the one they attached to.                                  *)
ensure_event_hub(h) == IF h # NoHub /\ h.generation = worker THEN h ELSE NewHub

(* A queue that is full and cannot take the event in costs the client its  *)
(* place.                                                                  *)
publish(h, e) ==
  LET n    == h.sequence + 1
      x    == [generation |-> h.generation, first |-> n, last |-> n, event |-> e]
      kept == {c \in DOMAIN h.queue :
                 Coalesces(h.queue[c], x) \/ Len(h.queue[c]) < QueueCapacity}
      text == apply_event(h.text, e)
      all  == Append(h.replay, x)
  IN [h EXCEPT !.sequence = n, !.text = text, !.past = Append(@, text),
               !.replay = IF Len(all) > ReplayCapacity THEN Tail(all) ELSE all,
               !.queue  = [c \in kept |-> IF Coalesces(@[c], x)
                                            THEN coalesce_delta(@[c], x)
                                            ELSE Append(@[c], x)]]

Snapshot(h) == [generation |-> h.generation, sequence |-> h.sequence, text |-> h.text]

Retained(h, cursor) ==
  /\ cursor # NoCursor
  /\ cursor.generation = h.generation
  /\ cursor.sequence <= h.sequence
  /\ \/ cursor.sequence = h.sequence
     \/ h.replay # <<>> /\ cursor.sequence + 1 >= Head(h.replay).last

recover(h, cursor) ==
  IF Retained(h, cursor)
    THEN [snapshot |-> NoSnapshot,
          events |-> SelectSeq(h.replay, LAMBDA x : x.last > cursor.sequence)]
    ELSE [snapshot |-> Snapshot(h), events |-> <<>>]
-----------------------------------------------------------------------------
(* The wires.                                                              *)
Event(x) == [kind |-> "event", event |-> x]
Result(id, s) == [kind |-> "result", id |-> id, snapshot |-> s]
Events(xs) == [i \in DOMAIN xs |-> Event(xs[i])]

Attach(id, cursor) == [id |-> id, op |-> "attach", cursor |-> cursor]
Submit(id, p) == [id |-> id, op |-> "prompt", prompt |-> p]

Cursor(v) ==
  IF v = NoView THEN NoCursor ELSE [generation |-> v.generation, sequence |-> v.sequence]

Record(c, id, s) == [k \in DOMAIN ledger \cup {<<c, id>>} |-> IF k = <<c, id>> THEN s ELSE ledger[k]]

(* Every client has the session open and its first attach on the way.      *)
Init ==
  /\ hub = NoHub /\ worker = 1 /\ journal = <<>> /\ turn = NoTurn
  /\ accepted = {}
  /\ ledger = [k \in {} |-> NoSnapshot]
  /\ view = [c \in Clients |-> NoView]
  /\ wire = [c \in Clients |-> <<>>]
  /\ line = [c \in Clients |-> <<Attach(1, NoCursor)>>]
  /\ unanswered = line
  /\ link = [c \in Clients |-> "up"]
  /\ issued = [c \in Clients |-> 1]
  /\ adrift = {}
  /\ faults = 0
-----------------------------------------------------------------------------
(* The daemon.  Each step holds its lock; a turn holds it from its start   *)
(* to its end.                                                             *)
Arrived(c, op) == turn = NoTurn /\ line[c] # <<>> /\ Head(line[c]).op = op

Known(c) == <<c, Head(line[c]).id>> \in DOMAIN ledger

(* A command whose result is in the ledger is not run again, and of what   *)
(* it sent the first time only the result is repeated.                     *)
Repeat(c) ==
  /\ turn = NoTurn /\ line[c] # <<>> /\ Known(c)
  /\ LET id == Head(line[c]).id
     IN  wire' = [wire EXCEPT ![c] = Append(@, Result(id, ledger[<<c, id>>]))]
  /\ line' = [line EXCEPT ![c] = Tail(@)]
  /\ UNCHANGED <<daemonVars, ledger, clientVars, faults>>

activate_and_attach(c) ==
  /\ Arrived(c, "attach") /\ ~Known(c)
  /\ LET k == Head(line[c])
         h == ensure_event_hub(hub)
         r == recover(h, k.cursor)
     IN /\ hub' = [h EXCEPT !.queue = [d \in DOMAIN @ \cup {c} |-> IF d = c THEN <<>> ELSE @[d]]]
        /\ wire' = [wire EXCEPT ![c] = @ \o Events(r.events) \o <<Result(k.id, r.snapshot)>>]
        /\ ledger' = Record(c, k.id, r.snapshot)
  /\ line' = [line EXCEPT ![c] = Tail(@)]
  /\ UNCHANGED <<worker, journal, turn, accepted, clientVars, faults>>

Answered(p) == <<p, 0>> \in Range(journal)

(* The acceptance is published on the hub as it is, before the session is  *)
(* activated; a prompt that was completed before is only acknowledged.     *)
run_prompt(c) ==
  /\ Arrived(c, "prompt") /\ ~Known(c)
  /\ LET k    == Head(line[c])
         told == IF hub = NoHub THEN hub ELSE publish(hub, Note)
         sent == IF hub = NoHub THEN <<>> ELSE <<Event(Last(told.replay))>>
     IN /\ accepted' = accepted \cup {k.prompt}
        /\ \/ /\ Answered(k.prompt)
              /\ hub' = told
              /\ wire' = [wire EXCEPT ![c] = @ \o sent \o <<Result(k.id, NoSnapshot)>>]
              /\ ledger' = Record(c, k.id, NoSnapshot)
              /\ UNCHANGED turn
           \/ /\ ~Answered(k.prompt)
              /\ hub' = ensure_event_hub(told)
              /\ wire' = [wire EXCEPT ![c] = @ \o sent]
              /\ turn' = [prompt |-> k.prompt, client |-> c, id |-> k.id,
                          deltas |-> 0, streams |-> TRUE]
              /\ UNCHANGED ledger
  /\ line' = [line EXCEPT ![c] = Tail(@)]
  /\ UNCHANGED <<worker, journal, clientVars, faults>>

(* maintain: an accepted prompt without an answer is run with its events   *)
(* discarded, except for what the hub makes of them.                       *)
resume_one_prompt ==
  /\ turn = NoTurn
  /\ \E p \in accepted :
       /\ ~Answered(p)
       /\ turn' = [prompt |-> p, client |-> NoClient, id |-> 0, deltas |-> 0, streams |-> FALSE]
  /\ hub' = ensure_event_hub(hub)
  /\ UNCHANGED <<worker, journal, accepted, ledger, wire, line, clientVars, faults>>

(* What the turn sends to its client, while its connection lasts.          *)
Stream(msgs) ==
  wire' = IF turn.streams THEN [wire EXCEPT ![turn.client] = @ \o msgs] ELSE wire

Settle(s) ==
  /\ ledger' = IF turn.client = NoClient THEN ledger ELSE Record(turn.client, turn.id, s)
  /\ turn' = NoTurn

StreamDelta ==
  /\ turn # NoTurn /\ turn.deltas < MaxDeltas
  /\ hub' = publish(hub, Delta(turn.prompt, turn.deltas + 1))
  /\ Stream(<<Event(Last(hub'.replay))>>)
  /\ turn' = [turn EXCEPT !.deltas = @ + 1]
  /\ UNCHANGED <<worker, journal, accepted, ledger, line, clientVars, faults>>

(* The end of a turn: the worker's snapshot replaces the text, the         *)
(* terminal event follows, and the result carries the hub's snapshot.      *)
Conclude(h, text) ==
  LET replaced == publish(h, Replacement(text))
      ended    == publish(replaced, Note)
  IN /\ hub' = ended
     /\ journal' = text
     /\ Stream(<<Event(Last(replaced.replay)), Event(Last(ended.replay)),
                 Result(turn.id, Snapshot(ended))>>)
     /\ Settle(Snapshot(ended))
     /\ UNCHANGED <<worker, accepted, line, clientVars>>

FinishTurn ==
  /\ turn # NoTurn
  /\ Conclude(hub, Append(journal, <<turn.prompt, 0>>))
  /\ UNCHANGED faults

(* RuntimeResponse::Failed with a terminal state: the snapshot is          *)
(* published twice, and only the second time streamed to the client.       *)
FinishFailed ==
  /\ turn # NoTurn /\ faults < MaxFaults
  /\ LET text == Append(journal, <<turn.prompt, 0>>)
     IN  Conclude(publish(hub, Replacement(text)), text)
  /\ faults' = faults + 1

(* The turn breaks off, with its worker or without; the prompt stays       *)
(* accepted.                                                               *)
defer_prompt ==
  /\ turn # NoTurn /\ faults < MaxFaults
  /\ Stream(<<Result(turn.id, NoSnapshot)>>)
  /\ Settle(NoSnapshot)
  /\ worker' \in {worker, worker + 1} \cap 1..MaxGeneration
  /\ faults' = faults + 1
  /\ UNCHANGED <<hub, journal, accepted, line, clientVars>>

(* The connection's receive timed out: no command is waiting.              *)
drain_client_events(c) ==
  /\ turn = NoTurn /\ link[c] # "down" /\ line[c] = <<>>
  /\ hub # NoHub /\ c \in DOMAIN hub.queue /\ hub.queue[c] # <<>>
  /\ wire' = [wire EXCEPT ![c] = @ \o Events(hub.queue[c])]
  /\ hub' = [hub EXCEPT !.queue[c] = <<>>]
  /\ UNCHANGED <<worker, journal, turn, accepted, ledger, line, clientVars, faults>>

(* The worker exits between turns; the next activation starts another.     *)
WorkerExits ==
  /\ turn = NoTurn /\ worker < MaxGeneration /\ faults < MaxFaults
  /\ worker' = worker + 1
  /\ faults' = faults + 1
  /\ UNCHANGED <<hub, journal, turn, accepted, ledger, wire, line, clientVars>>
(* The daemon stops, and another takes its place: hub and ledger are gone  *)
(* and every connection is closed.  The worker, which the next daemon      *)
(* adopts under the generation it has, may have ended the turn by itself.  *)
(* The next hub counts from zero, and a view of this generation keeps its  *)
(* cursor.                                                                 *)
DaemonRestarts ==
  /\ faults < MaxFaults
  /\ journal' \in {journal} \cup (IF turn = NoTurn THEN {} ELSE {Append(journal, <<turn.prompt, 0>>)})
  /\ hub' = NoHub /\ turn' = NoTurn
  /\ ledger' = [k \in {} |-> NoSnapshot]
  /\ link' = [c \in Clients |-> "down"]
  /\ wire' = [c \in Clients |-> <<>>]
  /\ line' = [c \in Clients |-> <<>>]
  /\ adrift' = adrift \cup {c \in Clients : view[c] # NoView}
  /\ faults' = faults + 1
  /\ UNCHANGED <<worker, accepted, view, unanswered, issued>>
-----------------------------------------------------------------------------
(* The client.                                                             *)
Outcome(v, x) ==
  CASE x.generation < v.generation -> "StaleGeneration"
    [] x.generation > v.generation -> "Gap"
    [] x.generation = v.generation /\ x.last <= v.sequence -> "Duplicate"
    [] x.generation = v.generation /\ x.last > v.sequence /\ x.first # v.sequence + 1 -> "Gap"
    [] OTHER -> "Applied"

(* Mutant: a snapshot replaces the view only when the generation is new.   *)
snapshot_of_new_generation(v, s) ==
  IF v # NoView /\ s.generation <= v.generation THEN {v} ELSE {s}

(* The views a snapshot may leave: at the same sequence the code compares  *)
(* the revisions, which are left out.                                      *)
apply_snapshot(v, s) ==
  CASE v = NoView -> {s}
    [] v # NoView /\ \/ s.generation < v.generation
                     \/ s.generation = v.generation /\ s.sequence < v.sequence -> {v}
    [] v # NoView /\ s.generation = v.generation /\ s.sequence = v.sequence -> {v, s}
    [] OTHER -> {s}

Issue(c, command) ==
  /\ line' = [line EXCEPT ![c] = Append(@, command)]
  /\ unanswered' = [unanswered EXCEPT ![c] = Append(@, command)]
  /\ issued' = [issued EXCEPT ![c] = @ + 1]

(* A gap makes the client attach again, with the cursor it has now.        *)
ReceiveEvent(c) ==
  /\ link[c] = "up" /\ wire[c] # <<>> /\ Head(wire[c]).kind = "event" /\ view[c] # NoView
  /\ LET x == Head(wire[c]).event
         o == Outcome(view[c], x)
     IN /\ view' = IF o = "Applied"
                     THEN [view EXCEPT ![c].sequence = x.last,
                                       ![c].text = apply_event_payload(@, x.event)]
                     ELSE view
        /\ adrift' = IF o = "Applied" /\ x.event.kind = "snapshot" THEN adrift \ {c} ELSE adrift
        /\ IF o = "Gap" THEN Issue(c, Attach(issued[c] + 1, Cursor(view[c])))
                        ELSE UNCHANGED <<line, unanswered, issued>>
  /\ wire' = [wire EXCEPT ![c] = Tail(@)]
  /\ UNCHANGED <<daemonVars, ledger, link, faults>>

(* Without a view only a snapshot counts.  The one inside the event is the *)
(* worker's own, whose sequence is zero.                                   *)
ReceiveFirst(c) ==
  /\ link[c] = "up" /\ wire[c] # <<>> /\ Head(wire[c]).kind = "event" /\ view[c] = NoView
  /\ LET x == Head(wire[c]).event
     IN IF x.event.kind = "snapshot"
          THEN /\ view' = [view EXCEPT ![c] = [generation |-> x.generation, sequence |-> 0,
                                               text |-> x.event.text]]
               /\ adrift' = adrift \cup {c}
          ELSE UNCHANGED <<view, adrift>>
  /\ wire' = [wire EXCEPT ![c] = Tail(@)]
  /\ UNCHANGED <<daemonVars, ledger, line, unanswered, issued, link, faults>>

(* The result of a command; the ledger's copy is not asked for again.      *)
ReceiveResult(c) ==
  /\ link[c] = "up" /\ wire[c] # <<>> /\ Head(wire[c]).kind = "result"
  /\ LET m == Head(wire[c])
     IN /\ unanswered' = [unanswered EXCEPT ![c] = SelectSeq(@, LAMBDA k : k.id # m.id)]
        /\ ledger' = [k \in DOMAIN ledger \ {<<c, m.id>>} |-> ledger[k]]
        /\ IF m.snapshot = NoSnapshot
             THEN UNCHANGED <<view, adrift>>
             ELSE \E v \in apply_snapshot(view[c], m.snapshot) :
                    /\ view' = [view EXCEPT ![c] = v]
                    /\ adrift' = IF v = m.snapshot THEN adrift \ {c} ELSE adrift
  /\ wire' = [wire EXCEPT ![c] = Tail(@)]
  /\ UNCHANGED <<daemonVars, line, issued, link, faults>>

Asked(c, p) == \E k \in Range(unanswered[c]) : k.op = "prompt" /\ k.prompt = p

submit_prompt(c, p) ==
  /\ link[c] = "up" /\ view[c] # NoView
  /\ p \notin accepted /\ \A d \in Clients : ~Asked(d, p)
  /\ Issue(c, Submit(issued[c] + 1, p))
  /\ UNCHANGED <<daemonVars, ledger, view, wire, link, adrift, faults>>

(* A connection breaks with whatever it carries; the hub keeps the         *)
(* client's queue, and a turn of the client runs on.                       *)
LoseConnection(c) ==
  /\ link[c] # "down" /\ faults < MaxFaults
  /\ link' = [link EXCEPT ![c] = "down"]
  /\ wire' = [wire EXCEPT ![c] = <<>>]
  /\ line' = [line EXCEPT ![c] = <<>>]
  /\ turn' = IF turn # NoTurn /\ turn.client = c THEN [turn EXCEPT !.streams = FALSE] ELSE turn
  /\ faults' = faults + 1
  /\ UNCHANGED <<hub, worker, journal, accepted, ledger, view, unanswered, issued, adrift>>

reconnect(c) ==
  /\ link[c] = "down"
  /\ link' = [link EXCEPT ![c] = "back"]
  /\ UNCHANGED <<daemonVars, ledger, view, wire, line, unanswered, issued, adrift, faults>>

(* Mutant: the hub is taken to know where the client is.                   *)
resume_without_attach(c) ==
  /\ link[c] = "back"
  /\ link' = [link EXCEPT ![c] = "up"]
  /\ line' = [line EXCEPT ![c] = unanswered[c]]
  /\ UNCHANGED <<daemonVars, ledger, view, wire, unanswered, issued, adrift, faults>>

(* recover_connection sends the commands without a result again, under the *)
(* identities they had; the application then attaches anew.                *)
resume_attached_session(c) ==
  /\ link[c] = "back"
  /\ link' = [link EXCEPT ![c] = "up"]
  /\ LET again == Attach(issued[c] + 1, Cursor(view[c]))
     IN /\ line' = [line EXCEPT ![c] = unanswered[c] \o <<again>>]
        /\ unanswered' = [unanswered EXCEPT ![c] = Append(@, again)]
  /\ issued' = [issued EXCEPT ![c] = @ + 1]
  /\ UNCHANGED <<daemonVars, ledger, view, wire, adrift, faults>>
-----------------------------------------------------------------------------
(* A pass of the connection's thread, and what the client does by itself.  *)
Serve(c) == Repeat(c) \/ activate_and_attach(c) \/ run_prompt(c) \/ drain_client_events(c)
Follow(c) ==
  \/ ReceiveEvent(c) \/ ReceiveFirst(c) \/ ReceiveResult(c)
  \/ reconnect(c) \/ resume_attached_session(c)
Run == resume_one_prompt \/ FinishTurn

Next ==
  \/ resume_one_prompt \/ StreamDelta \/ FinishTurn \/ FinishFailed \/ defer_prompt
  \/ WorkerExits \/ DaemonRestarts
  \/ \E c \in Clients :
       \/ Repeat(c) \/ activate_and_attach(c) \/ run_prompt(c) \/ drain_client_events(c)
       \/ ReceiveEvent(c) \/ ReceiveFirst(c) \/ ReceiveResult(c)
       \/ LoseConnection(c) \/ reconnect(c) \/ resume_attached_session(c)
       \/ \E p \in Prompts : submit_prompt(c, p)

Spec == Init /\ [][Next]_vars

(* Every connection has a thread of its own in the daemon, which gets the  *)
(* lock in turn; a turn ends; a client reads what arrives and reconnects.  *)
Fairness ==
  /\ WF_vars(Run)
  /\ \A c \in Clients : WF_vars(Serve(c)) /\ WF_vars(Follow(c))

FairSpec == Spec /\ Fairness
-----------------------------------------------------------------------------
(* A view is the session's text as it was after the event its cursor       *)
(* names: no event is missing in it, none is in it twice, whatever the     *)
(* path and the order in which they came (EventHub::recover,               *)
(* coalesce_delta, ProjectionReducer::apply_event).                        *)
ViewMatchesStream ==
  \A c \in Clients \ adrift :
    view[c] # NoView /\ hub # NoHub /\ view[c].generation = hub.generation =>
      /\ view[c].sequence <= hub.sequence
      /\ view[c].text = hub.past[view[c].sequence + 1]

Attached(c) == hub # NoHub /\ c \in DOMAIN hub.queue

UpToDate(c) ==
  /\ view[c] # NoView
  /\ view[c].generation = hub.generation /\ view[c].sequence = hub.sequence

(* A client that the hub counts as attached gets up to date, unless it is  *)
(* removed as too slow or its cursor was of another stream                 *)
(* (drain_client_events, apply_wire_message).                              *)
CatchesUp(c) == Attached(c) ~> (~Attached(c) \/ UpToDate(c) \/ c \in adrift)

Shows(v, p) == v # NoView /\ <<p, 0>> \in Range(v.text)

(* An answer the daemon has given a command reaches the view of the client *)
(* that asked, although the connection may break before it is read         *)
(* (CommandLedger, recover_connection).                                    *)
AnswerIsSeen(c, p) ==
  (\E k \in DOMAIN ledger : k[1] = c /\ ledger[k] # NoSnapshot /\ Shows(ledger[k], p))
    ~> (c \in adrift \/ Shows(view[c], p))
=============================================================================
