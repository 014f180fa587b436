------------------------------ MODULE MCWaits ------------------------------
(* A commitment that is to wake at once and may expire later, two workers, *)
(* one call from outside, and one refusal or crash.                        *)
EXTENDS Waits

(* An armed wait belongs to a commitment or to the operation that is about  *)
(* to attach or cancel it, and every record has the fields of its kind      *)
(* (CommitmentService::begin_waiting).                                      *)
WaitsInOrder == TypeOK /\ ArmedHasOwner
=============================================================================
