--------------------------- MODULE DeliveryOutbox ---------------------------
(***************************************************************************)
(* The outbound delivery outbox (crates/delivery) with the gateways that   *)
(* claim items from it, send them to a platform and report back            *)
(* (apps/channel-gateway).                                                 *)
(*                                                                         *)
(* One process owns the outbox and its mutex makes each call atomic.  The  *)
(* clock is abstracted to what it decides: when a claim's lease lapses and *)
(* when a backoff is over may be any moment.  Items sorted by not_before   *)
(* are items in the order in which they came due, the sequence `due'.      *)
(***************************************************************************)
EXTENDS Integers, FiniteSets, Sequences

CONSTANTS
  Keys,          \* stable keys, one per delivery
  Gateways,      \* gateway processes
  Accounts,      \* channel accounts
  AccountOf,     \* the account of a key's route and the one a gateway serves
  Idempotent,    \* keys whose platform deduplicates on the key
  MaxPending,    \* config.max_pending
  MaxAttempts,   \* config.max_attempts
  NoItem,        \* nothing enqueued under a key
  NoClaim        \* a gateway with no claim in hand

States == {"Pending", "Claimed", "RetryScheduled",
           "Sent", "PermanentFailure", "Cancelled"}

(* A claim's random token is named by the attempt that drew it; 0 is none. *)
DeliveryItem ==
  [state : States, attempt_count : 0 .. MaxAttempts, claim_token : 0 .. MaxAttempts,
   lapsed : BOOLEAN, possible_duplicate : BOOLEAN]

(* What a gateway has in hand: the claim and how the send went.            *)
Claims ==
  [key : Keys, token : 1 .. MaxAttempts,
   outcome : {"unsent", "accepted", "retryable", "permanent"}]

ASSUME OutboxAssumption ==
  /\ IsFiniteSet(Keys)
  /\ Keys \cap Gateways = {}
  /\ AccountOf \in [Keys \cup Gateways -> Accounts]
  /\ Idempotent \subseteq Keys
  /\ MaxPending \in Nat \ {0} /\ MaxAttempts \in Nat \ {0}
  /\ NoItem \notin DeliveryItem /\ NoClaim \notin Claims

VARIABLES
  items,      \* the outbox: key -> item
  due,        \* claimable items whose not_before has passed, oldest first
  holding,    \* holding[g]: the claim gateway g works on
  accepted    \* accepted[k]: how many messages the platform shows for k

vars == <<items, due, holding, accepted>>

is_terminal(state) == state \in {"Sent", "PermanentFailure", "Cancelled"}

Stored == {k \in Keys : items[k] # NoItem}

Unsettled == {k \in Stored : ~is_terminal(items[k].state)}

Claimable(k) == k \in Stored /\ items[k].state \in {"Pending", "RetryScheduled"}

Position(q, k) == CHOOSE n \in 1 .. Len(q) : q[n] = k

(* A key is in the sequence once at most.                                  *)
Without(q, k) ==
  IF \E n \in 1 .. Len(q) : q[n] = k
    THEN SubSeq(q, 1, Position(q, k) - 1) \o SubSeq(q, Position(q, k) + 1, Len(q))
    ELSE q

IsDue(k) == \E n \in 1 .. Len(due) : due[n] = k
-----------------------------------------------------------------------------
Init ==
  /\ items = [k \in Keys |-> NoItem]
  /\ due = <<>>
  /\ holding = [g \in Gateways |-> NoClaim]
  /\ accepted = [k \in Keys |-> 0]

(* A replay of a stored key returns the stored item and changes nothing.   *)
enqueue(k) ==
  /\ k \notin Stored
  /\ Cardinality(Unsettled) < MaxPending
  /\ items' = [items EXCEPT ![k] =
       [state |-> "Pending", attempt_count |-> 0, claim_token |-> 0,
        lapsed |-> FALSE, possible_duplicate |-> FALSE]]
  /\ due' = Append(due, k)
  /\ UNCHANGED <<holding, accepted>>

(* Mutant: the claim keeps the attempt count, and so its old token.        *)
claim_again(k) ==
  [items[k] EXCEPT !.state = "Claimed", !.lapsed = FALSE,
                   !.claim_token = IF items[k].attempt_count = 0 THEN 1
                                   ELSE items[k].attempt_count,
                   !.attempt_count = IF @ = 0 THEN 1 ELSE @]

claim(k) ==
  [items[k] EXCEPT !.state = "Claimed", !.lapsed = FALSE,
                   !.claim_token = items[k].attempt_count + 1,
                   !.attempt_count = @ + 1]

(* The oldest due item of the gateway's account goes to the gateway.       *)
claim_next_for_account(g) ==
  /\ holding[g] = NoClaim
  /\ \E n \in 1 .. Len(due) :
       /\ AccountOf[due[n]] = AccountOf[g]
       /\ \A m \in 1 .. n - 1 : AccountOf[due[m]] # AccountOf[g]
       /\ items' = [items EXCEPT ![due[n]] = claim(due[n])]
       /\ holding' = [holding EXCEPT ![g] =
            [key |-> due[n], token |-> claim(due[n]).claim_token,
             outcome |-> "unsent"]]
       /\ due' = Without(due, due[n])
  /\ UNCHANGED accepted

(* adapter.send; a platform that honours the key shows one message only.   *)
Send(g) ==
  /\ holding[g] # NoClaim
  /\ holding[g].outcome = "unsent"
  /\ \/ /\ holding' = [holding EXCEPT ![g].outcome = "accepted"]
        /\ accepted' = [accepted EXCEPT ![holding[g].key] =
             IF holding[g].key \in Idempotent THEN 1 ELSE @ + 1]
     \/ /\ \E class \in {"retryable", "permanent"} :
             holding' = [holding EXCEPT ![g].outcome = class]
        /\ UNCHANGED accepted
  /\ UNCHANGED <<items, due>>

(* Mutant: any claim is taken for the current one.                         *)
verify_claim_any(c) == TRUE

verify_claim(c) ==
  /\ items[c.key].state = "Claimed"
  /\ items[c.key].claim_token = c.token

Released(k, state) ==
  [items[k] EXCEPT !.state = state, !.claim_token = 0, !.lapsed = FALSE]

(* A stale claim is refused, and the gateway drops it either way.          *)
acknowledge(g) ==
  /\ holding[g] # NoClaim
  /\ holding[g].outcome = "accepted"
  /\ items' = IF verify_claim(holding[g])
              THEN [items EXCEPT ![holding[g].key] = Released(holding[g].key, "Sent")]
              ELSE items
  /\ holding' = [holding EXCEPT ![g] = NoClaim]
  /\ UNCHANGED <<due, accepted>>

retryable(c) ==
  c.outcome = "retryable" /\ items[c.key].attempt_count < MaxAttempts

fail(g) ==
  /\ holding[g] # NoClaim
  /\ holding[g].outcome \in {"retryable", "permanent"}
  /\ items' = IF verify_claim(holding[g])
              THEN [items EXCEPT ![holding[g].key] =
                      Released(holding[g].key,
                               IF retryable(holding[g]) THEN "RetryScheduled"
                               ELSE "PermanentFailure")]
              ELSE items
  /\ holding' = [holding EXCEPT ![g] = NoClaim]
  /\ UNCHANGED <<due, accepted>>

Expired == {k \in Stored : items[k].state = "Claimed" /\ items[k].lapsed}

(* Mutant: an expired claim is retried as if nothing had been sent.        *)
recovered_silently(k) ==
  Released(k, IF items[k].attempt_count >= MaxAttempts
              THEN "PermanentFailure" ELSE "RetryScheduled")

recovered(k) ==
  [Released(k, IF items[k].attempt_count >= MaxAttempts
               THEN "PermanentFailure" ELSE "RetryScheduled")
   EXCEPT !.possible_duplicate = @ \/ k \notin Idempotent]

(* The loop over expired claims puts one item after the other: a process   *)
(* that stops inside it has recovered the part done.                       *)
RecoverSome(done) ==
  /\ done # {}
  /\ items' = [k \in Keys |-> IF k \in done THEN recovered(k) ELSE items[k]]
  /\ LET again == {k \in done : items[k].attempt_count < MaxAttempts}
     IN  \E q \in [1 .. Cardinality(again) -> again] :
           /\ \A i, j \in DOMAIN q : q[i] = q[j] => i = j
           /\ due' = due \o q
  /\ UNCHANGED <<holding, accepted>>

(* Mutant: claims in their last attempt are left alone.                    *)
recover_expired_retryable ==
  RecoverSome({k \in Expired : items[k].attempt_count < MaxAttempts})

recover_expired == RecoverSome(Expired)

CrashInRecovery == \E done \in SUBSET Expired : RecoverSome(done)

cancel(k) ==
  /\ k \in Unsettled
  /\ items' = [items EXCEPT ![k] = Released(k, "Cancelled")]
  /\ due' = Without(due, k)
  /\ UNCHANGED <<holding, accepted>>

(* A gateway stops, or gives up after a lost connection.                   *)
GatewayCrash(g) ==
  /\ holding[g] # NoClaim
  /\ holding' = [holding EXCEPT ![g] = NoClaim]
  /\ UNCHANGED <<items, due, accepted>>

LeaseLapses(k) ==
  /\ k \in Stored
  /\ items[k].state = "Claimed" /\ ~items[k].lapsed
  /\ items' = [items EXCEPT ![k].lapsed = TRUE]
  /\ UNCHANGED <<due, holding, accepted>>

BackoffElapses(k) ==
  /\ k \in Stored
  /\ items[k].state = "RetryScheduled" /\ ~IsDue(k)
  /\ due' = Append(due, k)
  /\ UNCHANGED <<items, holding, accepted>>

Next ==
  \/ \E k \in Keys : enqueue(k) \/ cancel(k) \/ LeaseLapses(k) \/ BackoffElapses(k)
  \/ \E g \in Gateways : \/ claim_next_for_account(g) \/ Send(g)
                         \/ acknowledge(g) \/ fail(g) \/ GatewayCrash(g)
  \/ recover_expired \/ CrashInRecovery

(* Time passes, maintenance runs again and again, and gateways poll.       *)
Fairness ==
  /\ \A k \in Keys : WF_vars(LeaseLapses(k)) /\ WF_vars(BackoffElapses(k))
  /\ \A g \in Gateways : /\ WF_vars(claim_next_for_account(g))
                         /\ WF_vars(Send(g) \/ acknowledge(g) \/ fail(g))
  /\ WF_vars(recover_expired)

Spec == Init /\ [][Next]_vars

FairSpec == Spec /\ Fairness
-----------------------------------------------------------------------------
(* Every variable keeps its type, and attempt_count its limit.             *)
TypeOK ==
  /\ items \in [Keys -> DeliveryItem \cup {NoItem}]
  /\ due \in Seq(Keys)
  /\ holding \in [Gateways -> Claims \cup {NoClaim}]
  /\ accepted \in [Keys -> 0 .. MaxAttempts]

(* recover_expired's promise that ambiguous sends are marked: a platform   *)
(* that does not deduplicate shows a message twice only when the item says *)
(* possible_duplicate, however claims lapse and gateways stop or go on.    *)
HonestDuplicates ==
  \A k \in Stored \ Idempotent : accepted[k] > 1 => items[k].possible_duplicate

(* At most one gateway holds a claim that acknowledge or fail would honour.*)
ExclusiveClaim ==
  \A g, h \in Gateways :
    /\ holding[g] # NoClaim /\ holding[h] # NoClaim
    /\ holding[g].key = holding[h].key
    /\ verify_claim(holding[g]) /\ verify_claim(holding[h])
    => g = h

(* A settled item is never reopened by the late report of a stale claim,   *)
(* by a recovery or by a cancellation.                                     *)
SettledStays ==
  [][\A k \in Stored : is_terminal(items[k].state) => items'[k] = items[k]]_vars

(* Every enqueued item is settled in the end, whatever gateways do: lapsed *)
(* claims are recovered and each one costs an attempt.                     *)
EventuallySettled ==
  \A k \in Keys : (k \in Stored) ~> (k \in Stored /\ is_terminal(items[k].state))
=============================================================================
