------------------------------ MODULE Children ------------------------------
(***************************************************************************)
(* Durable children of a session tree (crates/subagents) in the worker     *)
(* that owns the tree: their records, the session and the actor snapshot   *)
(* each has on disk, their messages, and the actors in memory.  The        *)
(* coordinator runs one call at a time; a call with several durable writes *)
(* is a chain of steps between which the worker may die.                   *)
(*                                                                         *)
(* Time is left out: any child may be overdue, any orphan past its grace   *)
(* and any settled child past its retention whenever that is asked.        *)
(***************************************************************************)
EXTENDS Integers, FiniteSets

CONSTANTS
  Ids,             \* child identities, each with its session
  Root,            \* the root session of the tree
  MaxDepth,        \* ChildLimits::max_depth
  MaxDirect,       \* ChildLimits::max_direct_children
  MaxDescendants,  \* ChildLimits::max_descendants
  MaxMessages,     \* ChildLimits::max_messages
  MaxCrashes,      \* bound on crashes
  Absent           \* no record, or no child in hand

TreeSessions == Ids \cup {Root}
Statuses == {"Starting", "Running", "Waiting", "Complete", "Failed", "Cancelled",
             "Orphaned", "Archived"}
Terminal == {"Complete", "Failed", "Cancelled", "Archived"}

ChildRecord ==
  [parent : TreeSessions, depth : Nat, status : Statuses,
   cancellation : {"Propagate", "DetachAsOrphan"},
   retention : {"Retain", "ArchiveAfter", "DeleteAfter"}]

VARIABLES
  children,    \* children[c]: the record of child c
  sessions,    \* sessions[c]: its session in the session store
  snapshots,   \* children with a runtime snapshot on disk
  messages,    \* messages[c]: how many messages are stored for it
  runtimes,    \* children with an actor in memory
  op,          \* the call in progress
  up,          \* the worker is running
  crashes      \* crashes so far

childVars == <<children, sessions, snapshots, messages, runtimes, op, up, crashes>>

(* A call: its next step, the child and the sessions still to visit, and    *)
(* whether it is a pass of apply_retention.                                 *)
Idle == [kind |-> "idle", c |-> Absent, todo |-> {}, retention |-> FALSE]

Stored == {c \in Ids : children[c] # Absent}
Active == {c \in Stored : children[c].status \notin Terminal}

Init ==
  /\ children = [c \in Ids |-> Absent]
  /\ sessions = [c \in Ids |-> "none"]
  /\ snapshots = {}
  /\ messages = [c \in Ids |-> 0]
  /\ runtimes = {}
  /\ op = Idle
  /\ up = TRUE
  /\ crashes = 0
-----------------------------------------------------------------------------
Enter == up /\ op = Idle

SetStatus(c, status) == children' = [children EXCEPT ![c].status = status]

stop_runtime(set) == runtimes' = runtimes \ set

(* resolve_authority: an active child of the tree, or a registered root.    *)
HasAuthority(s) == s = Root \/ s \in Active

DepthBelow(s) == 1 + IF s \in Stored THEN children[s].depth ELSE 0

Direct(s) == {c \in Stored : children[c].parent = s /\ children[c].status # "Archived"}

(* create stores the record as Starting ...                                 *)
create(c, parent, cancellation, retention) ==
  /\ Enter
  /\ children[c] = Absent /\ sessions[c] = "none"
  /\ HasAuthority(parent)
  /\ DepthBelow(parent) <= MaxDepth
  /\ Cardinality(Direct(parent)) < MaxDirect
  /\ Cardinality(Stored) < MaxDescendants
  /\ children' = [children EXCEPT ![c] =
       [parent |-> parent, depth |-> DepthBelow(parent), status |-> "Starting",
        cancellation |-> cancellation, retention |-> retention]]
  /\ op' = [Idle EXCEPT !.kind = "session", !.c = c]
  /\ UNCHANGED <<sessions, snapshots, messages, runtimes, up, crashes>>

(* ... then creates the session, spawns the actor with its first snapshot,  *)
(* and stores Running, or Failed when one of the two did not work.          *)
CreateSession ==
  /\ op.kind = "session"
  /\ \/ /\ sessions' = [sessions EXCEPT ![op.c] = "open"]
        /\ op' = [op EXCEPT !.kind = "spawn"]
     \/ op' = [op EXCEPT !.kind = "startup failed"] /\ UNCHANGED sessions
  /\ UNCHANGED <<children, snapshots, messages, runtimes, up, crashes>>

Spawn ==
  /\ op.kind = "spawn"
  /\ \/ /\ snapshots' = snapshots \cup {op.c}
        /\ runtimes' = runtimes \cup {op.c}
        /\ op' = [op EXCEPT !.kind = "started"]
     \/ /\ op' = [op EXCEPT !.kind = "startup failed"]
        /\ snapshots' \in {snapshots, snapshots \cup {op.c}}
        /\ UNCHANGED runtimes
  /\ UNCHANGED <<children, sessions, messages, up, crashes>>

Started ==
  /\ op.kind \in {"started", "startup failed"}
  /\ SetStatus(op.c, IF op.kind = "started" THEN "Running" ELSE "Failed")
  /\ op' = Idle
  /\ UNCHANGED <<sessions, snapshots, messages, runtimes, up, crashes>>

set_waiting(c, waiting) ==
  /\ Enter
  /\ c \in Stored /\ children[c].status \in {"Running", "Waiting"}
  /\ SetStatus(c, IF waiting THEN "Waiting" ELSE "Running")
  /\ UNCHANGED <<sessions, snapshots, messages, runtimes, op, up, crashes>>

send_message(c) ==
  /\ Enter
  /\ c \in Active
  /\ messages[c] < MaxMessages
  /\ messages' = [messages EXCEPT ![c] = @ + 1]
  /\ UNCHANGED <<children, sessions, snapshots, runtimes, op, up, crashes>>

(* finish and cancel                                                        *)
finish(c, status) ==
  /\ Enter
  /\ status \in {"Complete", "Failed", "Cancelled"}
  /\ c \in Active
  /\ stop_runtime({c})
  /\ SetStatus(c, status)
  /\ UNCHANGED <<sessions, snapshots, messages, op, up, crashes>>

(* Mutant: the actors of settled children go on.                            *)
SettleRecords(set, status) ==
  /\ Enter
  /\ children' = [c \in Ids |-> IF c \in set THEN [children[c] EXCEPT !.status = status]
                                ELSE children[c]]
  /\ UNCHANGED <<sessions, snapshots, messages, runtimes, op, up, crashes>>

(* reap_orphans and enforce_liveness settle children one by one; a death in *)
(* the middle leaves the rest as they were.                                 *)
SettleAll(set, status) ==
  /\ Enter
  /\ stop_runtime(set)
  /\ children' = [c \in Ids |-> IF c \in set THEN [children[c] EXCEPT !.status = status]
                                ELSE children[c]]
  /\ UNCHANGED <<sessions, snapshots, messages, op, up, crashes>>

reap_orphans(set) ==
  /\ set \subseteq {c \in Active : children[c].status = "Orphaned"}
  /\ SettleAll(set, "Cancelled")

enforce_liveness(set) ==
  /\ set \subseteq Active
  /\ SettleAll(set, "Failed")
-----------------------------------------------------------------------------
(* parent_unavailable visits the children below a session that is gone, and *)
(* those below each child it cancels.                                       *)
parent_unavailable(s) ==
  /\ Enter
  /\ op' = [Idle EXCEPT !.kind = "unavailable", !.todo = {s}]
  /\ UNCHANGED <<children, sessions, snapshots, messages, runtimes, up, crashes>>

Below == {c \in Active : /\ children[c].parent \in op.todo
                         /\ children[c].status # "Orphaned"}

Visit(c) ==
  /\ op.kind = "unavailable"
  /\ c \in Below
  /\ IF children[c].cancellation = "Propagate"
     THEN /\ stop_runtime({c})
          /\ SetStatus(c, "Cancelled")
          /\ op' = [op EXCEPT !.todo = @ \cup {c}]
     ELSE /\ SetStatus(c, "Orphaned")
          /\ UNCHANGED <<runtimes, op>>
  /\ UNCHANGED <<sessions, snapshots, messages, up, crashes>>

EndVisit ==
  /\ op.kind = "unavailable"
  /\ Below = {}
  /\ op' = Idle
  /\ UNCHANGED <<children, sessions, snapshots, messages, runtimes, up, crashes>>

(* Mutant: adoption at any depth.                                           *)
adopt_any(c, parent) ==
  /\ Enter
  /\ c \in Stored /\ children[c].status = "Orphaned"
  /\ HasAuthority(parent)
  /\ children' = [children EXCEPT ![c].parent = parent, ![c].depth = DepthBelow(parent),
                                  ![c].status = "Running"]
  /\ UNCHANGED <<sessions, snapshots, messages, runtimes, op, up, crashes>>

adopt(c, parent) ==
  /\ Enter
  /\ c \in Stored /\ children[c].status = "Orphaned"
  /\ HasAuthority(parent)
  /\ DepthBelow(parent) <= MaxDepth
  /\ children' = [children EXCEPT ![c].parent = parent, ![c].depth = DepthBelow(parent),
                                  ![c].status = "Running"]
  /\ UNCHANGED <<sessions, snapshots, messages, runtimes, op, up, crashes>>
-----------------------------------------------------------------------------
(* archive: the session first, then the record.  The session store refuses  *)
(* a session that is not there or is archived already.                      *)
Done(c) ==      \* a pass of apply_retention goes on with the next child
  IF op.retention THEN [Idle EXCEPT !.kind = "retention", !.todo = op.todo \ {c},
                                    !.retention = TRUE]
  ELSE Idle

archive(c) ==
  /\ Enter
  /\ c \in Stored /\ children[c].status \in Terminal \ {"Archived"}
  /\ op' = [Idle EXCEPT !.kind = "archive", !.c = c]
  /\ UNCHANGED <<children, sessions, snapshots, messages, runtimes, up, crashes>>

ArchiveSession ==
  /\ op.kind = "archive"
  /\ IF sessions[op.c] = "open"
     THEN /\ sessions' = [sessions EXCEPT ![op.c] = "archived"]
          /\ op' = [op EXCEPT !.kind = "archive record"]
     ELSE op' = Idle /\ UNCHANGED sessions
  /\ UNCHANGED <<children, snapshots, messages, runtimes, up, crashes>>

ArchiveRecord ==
  /\ op.kind = "archive record"
  /\ SetStatus(op.c, "Archived")
  /\ op' = IF op.retention /\ children[op.c].retention = "DeleteAfter"
           THEN [op EXCEPT !.kind = "delete"] ELSE Done(op.c)
  /\ UNCHANGED <<sessions, snapshots, messages, runtimes, up, crashes>>

(* delete: messages, session, snapshot, and the record last.                *)
delete(c) ==
  /\ Enter
  /\ c \in Stored /\ children[c].status = "Archived"
  /\ op' = [Idle EXCEPT !.kind = "delete", !.c = c]
  /\ UNCHANGED <<children, sessions, snapshots, messages, runtimes, up, crashes>>

DeleteMessages ==
  /\ op.kind = "delete"
  /\ messages' = [messages EXCEPT ![op.c] = 0]
  /\ op' = [op EXCEPT !.kind = "delete session"]
  /\ UNCHANGED <<children, sessions, snapshots, runtimes, up, crashes>>

DeleteSession ==
  /\ op.kind = "delete session"
  /\ IF sessions[op.c] = "archived"
     THEN /\ sessions' = [sessions EXCEPT ![op.c] = "gone"]
          /\ op' = [op EXCEPT !.kind = "delete snapshot"]
     ELSE op' = Idle /\ UNCHANGED sessions
  /\ UNCHANGED <<children, snapshots, messages, runtimes, up, crashes>>

DeleteSnapshot ==
  /\ op.kind = "delete snapshot"
  /\ snapshots' = snapshots \ {op.c}
  /\ op' = [op EXCEPT !.kind = "delete record"]
  /\ UNCHANGED <<children, sessions, messages, runtimes, up, crashes>>

DeleteRecord ==
  /\ op.kind = "delete record"
  /\ children' = [children EXCEPT ![op.c] = Absent]
  /\ op' = Done(op.c)
  /\ UNCHANGED <<sessions, snapshots, messages, runtimes, up, crashes>>

(* apply_retention takes the settled children that are due one after the    *)
(* other; the first refusal ends the pass.                                  *)
apply_retention(due) ==
  /\ Enter
  /\ due # {}
  /\ due \subseteq {c \in Stored \ Active : children[c].retention # "Retain"}
  /\ op' = [Idle EXCEPT !.kind = "retention", !.todo = due, !.retention = TRUE]
  /\ UNCHANGED <<children, sessions, snapshots, messages, runtimes, up, crashes>>

Retain ==
  /\ op.kind = "retention"
  /\ \/ op.todo = {} /\ op' = Idle
     \/ \E c \in op.todo :
          op' = IF children[c].status # "Archived" THEN [op EXCEPT !.kind = "archive", !.c = c]
                ELSE IF children[c].retention = "DeleteAfter"
                THEN [op EXCEPT !.kind = "delete", !.c = c]
                ELSE Done(c)
  /\ UNCHANGED <<children, sessions, snapshots, messages, runtimes, up, crashes>>
-----------------------------------------------------------------------------
Crash ==
  /\ up
  /\ crashes < MaxCrashes
  /\ crashes' = crashes + 1
  /\ up' = FALSE
  /\ op' = Idle
  /\ runtimes' = {}
  /\ UNCHANGED <<children, sessions, snapshots, messages>>

(* The runtime opens: recover_active starts an actor for every child that   *)
(* is not settled.  A missing snapshot is an error, and the runtime does    *)
(* not open.                                                                *)
recover_active ==
  /\ ~up
  /\ Active \subseteq snapshots
  /\ runtimes' = Active
  /\ up' = TRUE
  /\ UNCHANGED <<children, sessions, snapshots, messages, op, crashes>>

Continue ==
  \/ CreateSession \/ Spawn \/ Started \/ EndVisit \/ \E c \in Ids : Visit(c)
  \/ ArchiveSession \/ ArchiveRecord \/ DeleteMessages \/ DeleteSession
  \/ DeleteSnapshot \/ DeleteRecord \/ Retain

Caller ==
  \/ \E c \in Ids :
       \/ \E s \in TreeSessions, x \in {"Propagate", "DetachAsOrphan"},
            t \in {"Retain", "ArchiveAfter", "DeleteAfter"} : create(c, s, x, t)
       \/ \E waiting \in BOOLEAN : set_waiting(c, waiting)
       \/ \E status \in Terminal : finish(c, status)
       \/ \E s \in TreeSessions : adopt(c, s)
       \/ send_message(c) \/ archive(c) \/ delete(c)
  \/ \E set \in SUBSET Ids \ {{}} :
       reap_orphans(set) \/ enforce_liveness(set) \/ apply_retention(set)
  \/ \E s \in TreeSessions : parent_unavailable(s)

Next == Caller \/ Continue \/ Crash \/ recover_active

Spec == Init /\ [][Next]_childVars
-----------------------------------------------------------------------------
(* Every variable keeps its type.                                           *)
TypeOK ==
  /\ children \in [Ids -> ChildRecord \cup {Absent}]
  /\ sessions \in [Ids -> {"none", "open", "archived", "gone"}]
  /\ snapshots \subseteq Ids /\ runtimes \subseteq Ids
  /\ messages \in [Ids -> Nat]
  /\ op.c \in Ids \cup {Absent} /\ op.todo \subseteq TreeSessions

(* Between two calls a running worker has an actor for exactly the children *)
(* that are not settled: whatever settles a child stops its actor, and a    *)
(* restart brings back the others (stop_runtime, recover_active).           *)
ActorsFollowRecords == up /\ op = Idle => runtimes = Active

(* The record of a child is the first thing stored and the last removed, so *)
(* that wherever a call is cut nothing is left on disk that no record leads *)
(* to, and a child that got going has its session and its snapshot until it *)
(* is archived (create, archive, delete).  Only a child whose create was    *)
(* cut can keep recover_active from bringing the worker up.                 *)
RecordLeads ==
  \A c \in Ids :
    /\ children[c] = Absent => /\ sessions[c] \in {"none", "gone"}
                               /\ c \notin snapshots /\ messages[c] = 0
    /\ c \in Active /\ children[c].status # "Starting"
         => sessions[c] = "open" /\ c \in snapshots
    /\ c \in Stored /\ children[c].status = "Archived" => sessions[c] # "open"

(* Adoption included, no child is deeper than max_depth, and the tree never *)
(* holds more than max_descendants records (create, adopt).                 *)
WithinLimits ==
  /\ Cardinality(Stored) <= MaxDescendants
  /\ \A c \in Stored : children[c].depth <= MaxDepth
=============================================================================
