---------------------------- MODULE Settlement ----------------------------
(***************************************************************************)
(* What a durable hand-over promises.  An item is opened once, stays open  *)
(* while it is retried, claimed, held up or moved around, and is then      *)
(* settled once: it is handed over or it is withdrawn.  The outcome is     *)
(* final.  One step may settle several items.                              *)
(***************************************************************************)
CONSTANT Items

VARIABLE outcome

Outcomes == {"absent", "open", "handed over", "withdrawn"}

Moves == {<<"absent", "open">>, <<"open", "handed over">>, <<"open", "withdrawn">>}

Init == outcome = [i \in Items |-> "absent"]

Next ==
  /\ outcome' \in [Items -> Outcomes]
  /\ \A i \in Items : outcome'[i] # outcome[i] => <<outcome[i], outcome'[i]>> \in Moves

Spec == Init /\ [][Next]_outcome
=============================================================================
