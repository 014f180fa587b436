---------------------------- MODULE MCScheduler ----------------------------
(* Instances of Scheduler: one recurring job that replays its missed runs,  *)
(* or runs once for them.                                                   *)
EXTENDS Scheduler, TLC

CONSTANTS j1

WorkerSymmetry == Permutations(Workers)

\* Edits and faults are explored apart from each other, and an edited job up
\* to its second attempt.
EditsOrFaults == edits = 0 \/ (faults = 0 /\ Cardinality(Ids) <= 2)

Recurring == [j \in Jobs |-> [kind |-> "Interval", every |-> 1, at |-> 0]]

RunOnce == [j \in Jobs |-> [kind |-> "RunOnce", max_runs |-> 1]]
Replay == [j \in Jobs |-> [kind |-> "ReplayBounded", max_runs |-> 2]]

(* The schedule arithmetic against its reading, on a grid of schedules and  *)
(* times: an interval recurs at its anchor and every period after it.       *)
Times == 0..9
Schedules == [kind : {"Once", "Interval"}, every : 1..3, at : 0..4, anchor : 0..4]

Occurrences(s) ==
  IF s.kind = "Once" THEN {s.at} ELSE {s.anchor + k * s.every : k \in 0..12}

IsLeast(u, set) == u \in set /\ \A v \in set : u <= v

(* initial_run is the first occurrence from t on, except that a one-time    *)
(* job in the past is due at once; next_after is the first one after t.     *)
ASSUME OccurrencesAreNext ==
  \A s \in Schedules, t \in Times :
    /\ IF s.kind = "Once" THEN initial_run(s, t) = s.at
       ELSE IsLeast(initial_run(s, t), {u \in Occurrences(s) : u >= t})
    /\ IF s.kind = "Once" THEN next_after(s, t) = Never
       ELSE IsLeast(next_after(s, t), {u \in Occurrences(s) : u > t})

(* due_decision runs the occurrence on time within the grace, and otherwise *)
(* none, the latest, or the first few of those between first and t.         *)
ASSUME DecisionsFollowPolicy ==
  \A s \in Schedules, t \in Times, n \in 0..3 : \A first \in Occurrences(s) :
    LET due   == {u \in Occurrences(s) : first <= u /\ u <= t}
        Run(kind) == due_decision(s, [kind |-> kind, max_runs |-> n], first, t)
    IN  first <= t =>
          /\ t - first <= Grace => \A kind \in {"Skip", "RunOnce", "ReplayBounded"} :
                                     Run(kind) = {first}
          /\ t - first > Grace =>
               /\ Run("Skip") = {}
               /\ Run("RunOnce") = {u \in due : \A v \in due : v <= u}
               /\ Run("ReplayBounded") \subseteq due
               /\ Cardinality(Run("ReplayBounded")) = IF Cardinality(due) < n
                                                        THEN Cardinality(due) ELSE n
               /\ \A u \in Run("ReplayBounded"), v \in due \ Run("ReplayBounded") : u < v
=============================================================================
