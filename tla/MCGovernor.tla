---------------------------- MODULE MCGovernor ----------------------------
(* Two governors, and up to three requests in two trees below a root that  *)
(* has one slot and a queue of one.                                        *)
EXTENDS Governor

CONSTANTS root, t1, t2

MCPath == [r \in Requests |-> <<root, IF r = 2 THEN t2 ELSE t1>>]
MCCeiling == [a \in Accounts |-> IF a[1] = root THEN 1 ELSE 2]
MCQueueMax == [s \in Scopes |-> 1]
MCReserve == [s \in Scopes |-> 0]
=============================================================================
