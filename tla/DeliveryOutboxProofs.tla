------------------------ MODULE DeliveryOutboxProofs ------------------------
(***************************************************************************)
(* Proofs about the outbound delivery outbox, for any number of keys,      *)
(* gateways and attempts.  ExclusiveClaim and HonestDuplicates are not     *)
(* inductive: the first needs that tokens name different attempts, the     *)
(* second that an item nobody marked was never in two gateways' hands and  *)
(* was not shown before its holder's own send.  OutboxInv adds both.       *)
(***************************************************************************)
EXTENDS DeliveryOutbox, FiniteSetTheorems, TLAPS

(* No key is in the sequence twice.                                        *)
NoRepeats(q) == \A i, j \in 1 .. Len(q) : q[i] = q[j] => i = j

(* Type correctness, without a bound on the messages shown.                *)
OutboxType ==
  /\ items \in [Keys -> DeliveryItem \cup {NoItem}]
  /\ due \in Seq(Keys)
  /\ holding \in [Gateways -> Claims \cup {NoClaim}]
  /\ accepted \in [Keys -> Nat]

(* What is due can be claimed, once, and has an attempt left.              *)
DueInOrder ==
  /\ NoRepeats(due)
  /\ \A n \in 1 .. Len(due) : Claimable(due[n])
  /\ \A k \in Keys : Claimable(k) => items[k].attempt_count < MaxAttempts

HoldsFor(g, k) == holding[g] # NoClaim /\ holding[g].key = k

(* A gateway's token was drawn by an attempt of its item that no other     *)
(* gateway's token was drawn by.                                           *)
TokensDiffer ==
  \A g \in Gateways, k \in Keys : HoldsFor(g, k) =>
    /\ k \in Stored
    /\ holding[g].token <= items[k].attempt_count
    /\ \A h \in Gateways : HoldsFor(h, k) /\ holding[h].token = holding[g].token => h = g

Unmarked(k) == k \in Stored \ Idempotent /\ ~items[k].possible_duplicate

(* An item that is not marked was never recovered: one gateway at most has *)
(* it in hand, and nothing was shown before that gateway's own send.       *)
NothingUnseen ==
  /\ \A k \in Keys \ Stored : accepted[k] = 0
  /\ \A k \in Keys : Unmarked(k) =>
       /\ accepted[k] <= 1
       /\ Claimable(k) => accepted[k] = 0 /\ \A g \in Gateways : ~HoldsFor(g, k)
       /\ \A g \in Gateways :
            HoldsFor(g, k) => /\ holding[g].outcome # "accepted" => accepted[k] = 0
                              /\ \A h \in Gateways : HoldsFor(h, k) => h = g

OutboxInv == OutboxType /\ DueInOrder /\ TokensDiffer /\ NothingUnseen

(* Length and entries of a concatenation.                                  *)
LEMMA ConcatFacts ==
  ASSUME NEW S, NEW s \in Seq(S), NEW t \in Seq(S)
  PROVE  /\ s \o t \in Seq(S)
         /\ Len(s \o t) = Len(s) + Len(t)
         /\ \A m \in 1 .. Len(s) + Len(t) :
              (s \o t)[m] = IF m <= Len(s) THEN s[m] ELSE t[m - Len(s)]
  OBVIOUS

(* Taking a key out of the due items leaves the others, each once.         *)
LEMMA WithoutFacts ==
  ASSUME NEW q \in Seq(Keys), NEW k \in Keys, NoRepeats(q)
  PROVE  /\ Without(q, k) \in Seq(Keys)
         /\ NoRepeats(Without(q, k))
         /\ \A m \in 1 .. Len(Without(q, k)) :
              /\ Without(q, k)[m] # k
              /\ \E i \in 1 .. Len(q) : Without(q, k)[m] = q[i]
  <1>1. CASE ~\E n \in 1 .. Len(q) : q[n] = k
    <2>1. Without(q, k) = q
      BY <1>1 DEF Without
    <2> QED
      BY <1>1, <2>1
  <1>2. CASE \E n \in 1 .. Len(q) : q[n] = k
    <2> DEFINE p == Position(q, k)
               w == SubSeq(q, 1, p - 1) \o SubSeq(q, p + 1, Len(q))
    <2>1. p \in 1 .. Len(q) /\ q[p] = k
      BY <1>2 DEF Position
    <2>2. Without(q, k) = w
      BY <1>2 DEF Without
    <2> HIDE DEF p
    <2>3. /\ w \in Seq(Keys) /\ Len(w) = Len(q) - 1
          /\ \A m \in 1 .. Len(w) : w[m] = IF m < p THEN q[m] ELSE q[m + 1]
      <3> DEFINE a == SubSeq(q, 1, p - 1)
                 b == SubSeq(q, p + 1, Len(q))
      <3>1. a \in Seq(Keys) /\ b \in Seq(Keys)
        BY <2>1
      <3>2. Len(a) = p - 1 /\ Len(b) = Len(q) - p
        BY <2>1
      <3>3. \A m \in 1 .. p - 1 : a[m] = q[m]
        BY <2>1
      <3>4. \A m \in 1 .. Len(q) - p : b[m] = q[p + m]
        BY <2>1
      <3>5. w = a \o b
        OBVIOUS
      <3> HIDE DEF a, b, w
      <3>6. w \in Seq(Keys) /\ Len(w) = Len(q) - 1
        <4>1. w \in Seq(Keys) /\ Len(w) = Len(a) + Len(b)
          BY <3>1, <3>5, ConcatFacts
        <4>2. Len(q) \in Nat /\ p \in Nat
          BY <2>1
        <4> QED
          BY <3>2, <4>1, <4>2
      <3>7. \A m \in 1 .. Len(w) : w[m] = IF m <= p - 1 THEN a[m] ELSE b[m - (p - 1)]
        BY <2>1, <3>1, <3>2, <3>5, <3>6, ConcatFacts
      <3>8. ASSUME NEW m \in 1 .. Len(w)
            PROVE  w[m] = IF m < p THEN q[m] ELSE q[m + 1]
        <4>1. CASE m < p
          BY <2>1, <3>3, <3>6, <3>7, <4>1
        <4>2. CASE ~(m < p)
          <5>1. m - (p - 1) \in 1 .. Len(q) - p /\ p + (m - (p - 1)) = m + 1
            BY <2>1, <3>6, <4>2
          <5>2. w[m] = b[m - (p - 1)]
            BY <2>1, <3>6, <3>7, <4>2
          <5> QED
            BY <3>4, <4>2, <5>1, <5>2
        <4> QED
          BY <4>1, <4>2
      <3> QED
        BY <3>6, <3>8
    <2> HIDE DEF w
    <2>4. \A m \in 1 .. Len(w) : w[m] # k /\ \E i \in 1 .. Len(q) : w[m] = q[i]
      <3> SUFFICES ASSUME NEW m \in 1 .. Len(w)
                   PROVE  w[m] # k /\ \E i \in 1 .. Len(q) : w[m] = q[i]
        OBVIOUS
      <3>1. m \in 1 .. Len(q) /\ m + 1 \in 1 .. Len(q)
        BY <2>3
      <3> QED
        BY <2>1, <2>3, <3>1 DEF NoRepeats
    <2>5. \A i, j \in 1 .. Len(w) : w[i] = w[j] => i = j
      <3> SUFFICES ASSUME NEW i \in 1 .. Len(w), NEW j \in 1 .. Len(w), w[i] = w[j]
                   PROVE  i = j
        OBVIOUS
      <3>1. {i, i + 1, j, j + 1} \subseteq 1 .. Len(q)
        BY <2>3
      <3> QED
        BY <2>1, <2>3, <3>1 DEF NoRepeats
    <2> QED
      BY <2>2, <2>3, <2>4, <2>5 DEF NoRepeats
  <1> QED
    BY <1>1, <1>2
-----------------------------------------------------------------------------
(* An empty outbox satisfies the invariant.                                *)
LEMMA OutboxInitially == Init => OutboxInv
  <1> SUFFICES ASSUME Init PROVE OutboxInv
    OBVIOUS
  <1>1. OutboxType
    BY DEF Init, OutboxType
  <1>2. Stored = {} /\ Len(due) = 0 /\ \A g \in Gateways, k \in Keys : ~HoldsFor(g, k)
    BY DEF Init, Stored, HoldsFor
  <1>3. DueInOrder
    BY <1>2 DEF DueInOrder, NoRepeats, Claimable
  <1>4. TokensDiffer /\ NothingUnseen
    BY <1>2 DEF Init, TokensDiffer, NothingUnseen, Unmarked
  <1> QED
    BY <1>1, <1>3, <1>4 DEF OutboxInv

(* A stored key has an item.                                               *)
LEMMA ItemShape ==
  ASSUME OutboxType, NEW k \in Stored
  PROVE  items[k] \in DeliveryItem /\ k \in Keys
  BY DEF OutboxType, Stored

(* enqueue: a new key was neither due, held nor shown.                     *)
LEMMA EnqueueKeeps ==
  ASSUME OutboxInv, NEW k \in Keys, enqueue(k)
  PROVE  OutboxInv'
  <1> DEFINE new == [state |-> "Pending", attempt_count |-> 0, claim_token |-> 0,
                     lapsed |-> FALSE, possible_duplicate |-> FALSE]
  <1>1. new \in DeliveryItem /\ new # NoItem
    <2>1. 0 \in 0 .. MaxAttempts
      BY OutboxAssumption
    <2>2. new \in DeliveryItem
      BY <2>1 DEF DeliveryItem, States
    <2> QED
      BY <2>2, OutboxAssumption
  <1>2. /\ k \notin Stored /\ items' = [items EXCEPT ![k] = new]
        /\ due' = Append(due, k) /\ UNCHANGED <<holding, accepted>>
    BY DEF enqueue
  <1>3. new.state = "Pending" /\ new.attempt_count = 0
    OBVIOUS
  <1> HIDE DEF new
  <1>4. OutboxType'
    BY <1>1, <1>2 DEF OutboxInv, OutboxType
  <1>5. /\ Stored' = Stored \cup {k} /\ items'[k] = new
        /\ \A x \in Keys \ {k} : items'[x] = items[x]
    BY <1>1, <1>2 DEF OutboxInv, OutboxType, Stored
  <1>6. /\ \A x \in Keys : Claimable(x)' <=> Claimable(x) \/ x = k
        /\ \A g \in Gateways : HoldsFor(g, k) <=> HoldsFor(g, k)'
    BY <1>2, <1>3, <1>5 DEF Claimable, HoldsFor
  <1>7. DueInOrder'
    <2>1. due \in Seq(Keys) /\ \A n \in 1 .. Len(due) : due[n] # k
      BY <1>2 DEF OutboxInv, OutboxType, DueInOrder, Claimable
    <2>2. NoRepeats(due')
      BY <1>2, <2>1 DEF OutboxInv, DueInOrder, NoRepeats
    <2>3. \A n \in 1 .. Len(due') : due'[n] \in Keys /\ (due'[n] = k \/ Claimable(due'[n]))
      BY <1>2, <2>1 DEF OutboxInv, DueInOrder
    <2>4. (\A n \in 1 .. Len(due) : Claimable(due[n]))'
      BY <1>6, <2>3 DEF Claimable
    <2>5. \A x \in Keys : Claimable(x)' => items'[x].attempt_count < MaxAttempts
      BY <1>3, <1>5, <1>6, OutboxAssumption DEF OutboxInv, DueInOrder
    <2> QED
      BY <2>2, <2>4, <2>5 DEF DueInOrder
  <1>8. TokensDiffer'
    BY <1>2, <1>5 DEF OutboxInv, TokensDiffer, HoldsFor
  <1>9. NothingUnseen'
    <2>1. accepted[k] = 0 /\ \A g \in Gateways : ~HoldsFor(g, k)
      BY <1>2 DEF OutboxInv, NothingUnseen, TokensDiffer
    <2>2. \A x \in Keys \ {k} : Unmarked(x)' <=> Unmarked(x)
      BY <1>5 DEF Unmarked
    <2> QED
      BY <1>2, <1>5, <1>6, <2>1, <2>2 DEF OutboxInv, NothingUnseen, HoldsFor
  <1> QED
    BY <1>4, <1>7, <1>8, <1>9 DEF OutboxInv

(* What clearing a claim (acknowledge, fail, cancel) leaves of an item.    *)
LEMMA ReleasedShape ==
  ASSUME OutboxType, NEW k \in Stored, NEW state \in States
  PROVE  /\ Released(k, state) \in DeliveryItem /\ Released(k, state) # NoItem
         /\ Released(k, state).state = state
         /\ Released(k, state).attempt_count = items[k].attempt_count
         /\ Released(k, state).possible_duplicate = items[k].possible_duplicate
  <1>1. items[k] \in DeliveryItem /\ 0 \in 0 .. MaxAttempts
    BY ItemShape, OutboxAssumption
  <1>2. Released(k, state) \in DeliveryItem
    BY <1>1 DEF Released, DeliveryItem
  <1> QED
    BY <1>1, <1>2, OutboxAssumption DEF Released, DeliveryItem

(* claim_next_for_account draws a token above every token in a             *)
(* gateway's hands.                                                        *)
LEMMA ClaimKeeps ==
  ASSUME OutboxInv, NEW g \in Gateways, claim_next_for_account(g)
  PROVE  OutboxInv'
  <1>1. PICK n \in 1 .. Len(due) :
          /\ items' = [items EXCEPT ![due[n]] = claim(due[n])]
          /\ holding' = [holding EXCEPT ![g] =
               [key |-> due[n], token |-> claim(due[n]).claim_token, outcome |-> "unsent"]]
          /\ due' = Without(due, due[n])
    BY DEF claim_next_for_account
  <1> DEFINE k == due[n]
             new == claim(k)
             mine == [key |-> k, token |-> new.claim_token, outcome |-> "unsent"]
  <1>2. k \in Keys /\ Claimable(k) /\ k \in Stored /\ items[k] \in DeliveryItem
    BY ItemShape DEF OutboxInv, OutboxType, DueInOrder, Claimable
  <1>3. items[k].attempt_count + 1 \in 1 .. MaxAttempts /\ items[k].attempt_count \in Nat
    BY <1>2, OutboxAssumption DEF OutboxInv, DueInOrder, DeliveryItem
  <1>4. /\ new \in DeliveryItem /\ new.state = "Claimed"
        /\ new.attempt_count = items[k].attempt_count + 1
        /\ new.claim_token = items[k].attempt_count + 1
        /\ new.possible_duplicate = items[k].possible_duplicate
    <2> HIDE DEF k
    <2>1. items[k].attempt_count + 1 \in 0 .. MaxAttempts
      BY <1>3
    <2>2. new = [items[k] EXCEPT !.state = "Claimed", !.lapsed = FALSE,
                   !.claim_token = items[k].attempt_count + 1,
                   !.attempt_count = items[k].attempt_count + 1]
      BY <1>2 DEF claim, DeliveryItem
    <2> QED
      BY <1>2, <2>1, <2>2 DEF DeliveryItem, States
  <1>5. mine \in Claims /\ mine # NoClaim
    <2>1. mine \in Claims
      BY <1>2, <1>3, <1>4 DEF Claims
    <2> QED
      BY <2>1, OutboxAssumption
  <1>6. /\ mine.key = k /\ mine.token = items[k].attempt_count + 1
        /\ mine.outcome = "unsent" /\ new # NoItem
    BY <1>4, OutboxAssumption
  <1>7. items' = [items EXCEPT ![k] = new] /\ holding' = [holding EXCEPT ![g] = mine]
    BY <1>1
  <1>8. due' = Without(due, k) /\ UNCHANGED accepted
    BY <1>1 DEF claim_next_for_account
  <1> HIDE DEF k, new, mine
  <1>9. /\ due' \in Seq(Keys) /\ NoRepeats(due')
        /\ \A m \in 1 .. Len(due') : due'[m] # k /\ \E i \in 1 .. Len(due) : due'[m] = due[i]
    <2>1. due \in Seq(Keys) /\ NoRepeats(due)
      BY DEF OutboxInv, OutboxType, DueInOrder
    <2> HIDE DEF NoRepeats
    <2>2. k \in Keys
      BY <1>2
    <2>3. /\ Without(due, k) \in Seq(Keys)
          /\ NoRepeats(Without(due, k))
          /\ \A m \in 1 .. Len(Without(due, k)) :
               /\ Without(due, k)[m] # k
               /\ \E i \in 1 .. Len(due) : Without(due, k)[m] = due[i]
      BY <2>1, <2>2, WithoutFacts
    <2> QED
      BY <1>8, <2>3
  <1>10. OutboxType'
    BY <1>4, <1>5, <1>7, <1>8, <1>9 DEF OutboxInv, OutboxType
  <1>11. /\ items'[k] = new /\ \A x \in Keys \ {k} : items'[x] = items[x]
         /\ holding'[g] = mine /\ \A h \in Gateways \ {g} : holding'[h] = holding[h]
    BY <1>2, <1>7 DEF OutboxInv, OutboxType
  <1>12. /\ Stored' = Stored
         /\ \A x \in Keys : Claimable(x)' <=> Claimable(x) /\ x # k
         /\ \A x \in Keys : Unmarked(x)' <=> Unmarked(x)
    <2>1. Stored' = Stored
      BY <1>2, <1>6, <1>11 DEF Stored
    <2> QED
      BY <1>2, <1>4, <1>11, <2>1 DEF Claimable, Unmarked
  <1>13. /\ \A x \in Keys : HoldsFor(g, x)' <=> x = k
         /\ \A h \in Gateways \ {g}, x \in Keys : HoldsFor(h, x)' <=> HoldsFor(h, x)
         /\ \A x \in Keys : ~HoldsFor(g, x)
    BY <1>5, <1>6, <1>11 DEF HoldsFor, claim_next_for_account
  <1>14. DueInOrder'
    <2>1. \A m \in 1 .. Len(due') : due'[m] \in Keys \ {k} /\ Claimable(due'[m])
      BY <1>9 DEF OutboxInv, OutboxType, DueInOrder
    <2>2. (\A m \in 1 .. Len(due) : Claimable(due[m]))'
      BY <1>12, <2>1 DEF Claimable
    <2>3. \A x \in Keys : Claimable(x)' => items'[x].attempt_count < MaxAttempts
      BY <1>11, <1>12 DEF OutboxInv, DueInOrder
    <2> QED
      BY <1>9, <2>2, <2>3 DEF DueInOrder
  <1>15. TokensDiffer'
    <2> SUFFICES ASSUME NEW h \in Gateways, NEW x \in Keys, HoldsFor(h, x)'
                 PROVE  /\ x \in Stored'
                        /\ holding'[h].token <= items'[x].attempt_count
                        /\ \A j \in Gateways :
                             HoldsFor(j, x)' /\ holding'[j].token = holding'[h].token => j = h
      BY DEF TokensDiffer
    <2>1. \A j \in Gateways \ {g} : HoldsFor(j, k) => holding[j].token <= items[k].attempt_count
                                                    /\ holding[j].token \in Int
      BY <1>2 DEF OutboxInv, TokensDiffer, OutboxType, HoldsFor, Claims
    <2>2. CASE h = g
      BY <1>2, <1>3, <1>4, <1>6, <1>11, <1>12, <1>13, <2>1, <2>2
    <2>3. CASE h # g /\ x = k
      BY <1>2, <1>3, <1>4, <1>6, <1>11, <1>12, <1>13, <2>1, <2>3 DEF OutboxInv, TokensDiffer
    <2>4. CASE h # g /\ x # k
      BY <1>11, <1>12, <1>13, <2>4 DEF OutboxInv, TokensDiffer
    <2> QED
      BY <2>2, <2>3, <2>4
  <1>16. NothingUnseen'
    BY <1>2, <1>6, <1>8, <1>11, <1>12, <1>13 DEF OutboxInv, NothingUnseen
  <1> QED
    BY <1>10, <1>14, <1>15, <1>16 DEF OutboxInv

(* adapter.send: the only gateway with an unmarked item shows it first.    *)
LEMMA SendKeeps ==
  ASSUME OutboxInv, NEW g \in Gateways, Send(g)
  PROVE  OutboxInv'
  <1> DEFINE k == holding[g].key
  <1>1. /\ holding[g] \in Claims /\ holding[g] # NoClaim /\ holding[g].outcome = "unsent"
        /\ UNCHANGED <<items, due>> /\ HoldsFor(g, k) /\ k \in Keys
    BY DEF Send, OutboxInv, OutboxType, HoldsFor, Claims
  <1>2. PICK o \in {"accepted", "retryable", "permanent"} :
          /\ holding' = [holding EXCEPT ![g].outcome = o]
          /\ o # "accepted" => UNCHANGED accepted
          /\ o = "accepted" =>
               accepted' = [accepted EXCEPT ![k] = IF k \in Idempotent THEN 1 ELSE @ + 1]
    BY DEF Send
  <1>3. /\ holding'[g].key = k /\ holding'[g].token = holding[g].token
        /\ holding'[g].outcome = o /\ holding'[g] \in Claims
        /\ holding' \in [Gateways -> Claims \cup {NoClaim}]
        /\ \A h \in Gateways \ {g} : holding'[h] = holding[h]
    BY <1>1, <1>2 DEF Claims, OutboxInv, OutboxType
  <1>4. /\ accepted' \in [Keys -> Nat] /\ \A x \in Keys \ {k} : accepted'[x] = accepted[x]
        /\ k \notin Idempotent => accepted'[k] = IF o = "accepted" THEN accepted[k] + 1 ELSE accepted[k]
    <2> HIDE DEF k
    <2>1. accepted \in [Keys -> Nat] /\ accepted[k] \in Nat
      BY <1>1 DEF OutboxInv, OutboxType
    <2> QED
      BY <1>1, <1>2, <2>1
  <1> HIDE DEF k
  <1>5. \A h \in Gateways, x \in Keys : HoldsFor(h, x)' <=> HoldsFor(h, x)
    BY <1>1, <1>3, OutboxAssumption DEF HoldsFor
  <1>6. /\ Stored' = Stored /\ \A x \in Keys : Claimable(x)' <=> Claimable(x)
        /\ \A x \in Keys : Unmarked(x)' <=> Unmarked(x)
    BY <1>1 DEF Stored, Claimable, Unmarked
  <1>7. OutboxType' /\ DueInOrder'
    BY <1>1, <1>3, <1>4, <1>6 DEF OutboxInv, OutboxType, DueInOrder, Claimable, Stored
  <1>8. TokensDiffer'
    BY <1>1, <1>3, <1>5, <1>6 DEF OutboxInv, TokensDiffer
  <1>9. NothingUnseen'
    <2>1. k \in Stored
      BY <1>1 DEF OutboxInv, TokensDiffer
    <2>2. Unmarked(k) => /\ accepted[k] = 0 /\ ~Claimable(k) /\ k \notin Idempotent
                         /\ \A h \in Gateways : HoldsFor(h, k) => h = g
      BY <1>1 DEF OutboxInv, NothingUnseen, Unmarked
    <2>3. \A x \in Keys \ Stored : accepted'[x] = 0
      BY <1>4, <2>1 DEF OutboxInv, NothingUnseen
    <2>4. ASSUME NEW x \in Keys, x # k, Unmarked(x)
          PROVE  /\ accepted'[x] <= 1
                 /\ Claimable(x) => accepted'[x] = 0 /\ \A h \in Gateways : ~HoldsFor(h, x)
                 /\ \A h \in Gateways :
                      HoldsFor(h, x) => /\ holding'[h].outcome # "accepted" => accepted'[x] = 0
                                        /\ \A j \in Gateways : HoldsFor(j, x) => j = h
      BY <1>1, <1>3, <1>4, <2>4 DEF OutboxInv, NothingUnseen, HoldsFor
    <2> QED
      BY <1>1, <1>3, <1>4, <1>5, <1>6, <2>2, <2>3, <2>4 DEF NothingUnseen
  <1> QED
    BY <1>7, <1>8, <1>9 DEF OutboxInv

(* acknowledge, fail and a gateway's stop end one claim; only a send       *)
(* that was not accepted makes the item claimable again.                   *)
LEMMA ReportKeeps ==
  ASSUME OutboxInv, NEW g \in Gateways, acknowledge(g) \/ fail(g) \/ GatewayCrash(g)
  PROVE  OutboxInv'
  <1>0. PICK k \in Keys : holding[g] # NoClaim /\ holding[g].key = k
    BY DEF acknowledge, fail, GatewayCrash, OutboxInv, OutboxType, Claims
  <1>1. /\ holding[g] \in Claims /\ HoldsFor(g, k) /\ k \in Keys /\ k \in Stored
        /\ holding' = [holding EXCEPT ![g] = NoClaim] /\ UNCHANGED <<due, accepted>>
    BY <1>0 DEF acknowledge, fail, GatewayCrash, OutboxInv, OutboxType, TokensDiffer, HoldsFor
  <1>2. \/ items' = items
        \/ \E s \in States \ {"Pending"} :
             /\ items[k].state = "Claimed" /\ items' = [items EXCEPT ![k] = Released(k, s)]
             /\ s = "RetryScheduled" => /\ holding[g].outcome = "retryable"
                                        /\ items[k].attempt_count < MaxAttempts
    BY <1>0 DEF acknowledge, fail, GatewayCrash, verify_claim, retryable, States
  <1>3. /\ items' \in [Keys -> DeliveryItem \cup {NoItem}] /\ Stored' = Stored
        /\ \A x \in Keys \ {k} : items'[x] = items[x]
        /\ items'[k].attempt_count = items[k].attempt_count
        /\ items'[k].possible_duplicate = items[k].possible_duplicate
        /\ Claimable(k) => items'[k] = items[k]
        /\ Claimable(k)' /\ ~Claimable(k) => /\ holding[g].outcome = "retryable"
                                             /\ items[k].attempt_count < MaxAttempts
    <2>1. CASE items' = items
      BY <2>1 DEF OutboxInv, OutboxType, Stored, Claimable
    <2>2. CASE \E s \in States \ {"Pending"} :
             /\ items[k].state = "Claimed" /\ items' = [items EXCEPT ![k] = Released(k, s)]
             /\ s = "RetryScheduled" => /\ holding[g].outcome = "retryable"
                                        /\ items[k].attempt_count < MaxAttempts
      <3>1. PICK s \in States \ {"Pending"} :
             /\ items[k].state = "Claimed" /\ items' = [items EXCEPT ![k] = Released(k, s)]
             /\ s = "RetryScheduled" => /\ holding[g].outcome = "retryable"
                                        /\ items[k].attempt_count < MaxAttempts
        BY <2>2
      <3> DEFINE new == Released(k, s)
      <3>2. /\ new \in DeliveryItem /\ new # NoItem /\ new.state = s
            /\ new.attempt_count = items[k].attempt_count
            /\ new.possible_duplicate = items[k].possible_duplicate
        BY <1>1, ReleasedShape DEF OutboxInv
      <3>3. items' = [items EXCEPT ![k] = new]
        BY <3>1
      <3> HIDE DEF new
      <3>4. /\ items' \in [Keys -> DeliveryItem \cup {NoItem}] /\ items'[k] = new
            /\ \A x \in Keys \ {k} : items'[x] = items[x]
        BY <1>1, <3>2, <3>3 DEF OutboxInv, OutboxType
      <3>5. Stored' = Stored
        BY <1>1, <3>2, <3>4 DEF Stored
      <3> QED
        BY <1>1, <3>1, <3>2, <3>4, <3>5 DEF Claimable
    <2> QED
      BY <1>2, <2>1, <2>2
  <1>4. /\ OutboxType' /\ \A x \in Keys : Claimable(x) => Claimable(x)'
        /\ \A x \in Keys \ {k} : Claimable(x)' => Claimable(x)
        /\ \A x \in Keys : Unmarked(x)' <=> Unmarked(x)
    BY <1>1, <1>3 DEF OutboxInv, OutboxType, Claimable, Unmarked
  <1>5. /\ \A x \in Keys : ~HoldsFor(g, x)'
        /\ \A h \in Gateways \ {g} : holding'[h] = holding[h]
        /\ \A h \in Gateways \ {g}, x \in Keys : HoldsFor(h, x)' <=> HoldsFor(h, x)
    BY <1>1 DEF OutboxInv, OutboxType, HoldsFor
  <1>6. DueInOrder'
    <2>1. \A n \in 1 .. Len(due') : due'[n] \in Keys /\ Claimable(due'[n])
      BY <1>1 DEF OutboxInv, OutboxType, DueInOrder
    <2>2. \A x \in Keys : Claimable(x)' => items'[x].attempt_count < MaxAttempts
      BY <1>3, <1>4 DEF OutboxInv, DueInOrder
    <2>3. (\A n \in 1 .. Len(due) : Claimable(due[n]))'
      BY <1>4, <2>1 DEF Claimable
    <2> QED
      BY <1>1, <2>2, <2>3 DEF OutboxInv, DueInOrder
  <1>7. TokensDiffer'
    BY <1>3, <1>5 DEF OutboxInv, TokensDiffer
  <1>8. NothingUnseen'
    <2>1. Unmarked(k) => /\ holding[g].outcome # "accepted" => accepted[k] = 0
                         /\ \A h \in Gateways : HoldsFor(h, k) => h = g
      BY <1>1 DEF OutboxInv, NothingUnseen
    <2> QED
      BY <1>1, <1>3, <1>4, <1>5, <2>1 DEF OutboxInv, NothingUnseen
  <1> QED
    BY <1>4, <1>6, <1>7, <1>8 DEF OutboxInv

(* cancel settles the item and takes it from the due ones.                 *)
LEMMA CancelKeeps ==
  ASSUME OutboxInv, NEW k \in Keys, cancel(k)
  PROVE  OutboxInv'
  <1> DEFINE new == Released(k, "Cancelled")
  <1>1. /\ k \in Stored /\ items' = [items EXCEPT ![k] = new]
        /\ due' = Without(due, k) /\ UNCHANGED <<holding, accepted>>
    BY DEF cancel, Unsettled
  <1>2. /\ new \in DeliveryItem /\ new # NoItem /\ new.state = "Cancelled"
        /\ new.attempt_count = items[k].attempt_count
        /\ new.possible_duplicate = items[k].possible_duplicate
    BY <1>1, ReleasedShape DEF OutboxInv, States
  <1> HIDE DEF new
  <1>3. /\ items' \in [Keys -> DeliveryItem \cup {NoItem}] /\ items'[k] = new
        /\ \A x \in Keys \ {k} : items'[x] = items[x]
    BY <1>1, <1>2 DEF OutboxInv, OutboxType
  <1>4. Stored' = Stored
    BY <1>1, <1>2, <1>3 DEF Stored
  <1>5. /\ \A x \in Keys : Claimable(x)' <=> Claimable(x) /\ x # k
        /\ \A x \in Keys : Unmarked(x)' <=> Unmarked(x)
        /\ \A g \in Gateways, x \in Keys : HoldsFor(g, x)' <=> HoldsFor(g, x)
    BY <1>1, <1>2, <1>3, <1>4 DEF Claimable, Unmarked, HoldsFor
  <1>6. due \in Seq(Keys) /\ NoRepeats(due)
    BY DEF OutboxInv, OutboxType, DueInOrder
  <1>7. /\ due' \in Seq(Keys) /\ NoRepeats(due')
        /\ \A m \in 1 .. Len(due') : due'[m] # k /\ \E i \in 1 .. Len(due) : due'[m] = due[i]
    <2>1. /\ Without(due, k) \in Seq(Keys)
          /\ NoRepeats(Without(due, k))
          /\ \A m \in 1 .. Len(Without(due, k)) :
               /\ Without(due, k)[m] # k
               /\ \E i \in 1 .. Len(due) : Without(due, k)[m] = due[i]
      BY <1>6, WithoutFacts
    <2> QED
      BY <1>1, <2>1
  <1>8. DueInOrder'
    <2>1. \A m \in 1 .. Len(due') : due'[m] \in Keys \ {k} /\ Claimable(due'[m])
      BY <1>7 DEF OutboxInv, OutboxType, DueInOrder
    <2>2. (\A m \in 1 .. Len(due) : Claimable(due[m]))'
      BY <1>5, <2>1 DEF Claimable
    <2> QED
      BY <1>3, <1>5, <1>7, <2>2 DEF OutboxInv, DueInOrder
  <1>9. OutboxType' /\ TokensDiffer' /\ NothingUnseen'
    BY <1>1, <1>2, <1>3, <1>4, <1>5, <1>7
       DEF OutboxInv, OutboxType, TokensDiffer, NothingUnseen
  <1> QED
    BY <1>8, <1>9 DEF OutboxInv

(* A claim's lease lapses: only the clock has moved.                       *)
LEMMA LapseKeeps ==
  ASSUME OutboxInv, NEW k \in Keys, LeaseLapses(k)
  PROVE  OutboxInv'
  <1> DEFINE new == [items[k] EXCEPT !.lapsed = TRUE]
  <1>1. /\ k \in Stored /\ items[k] \in DeliveryItem /\ items' = [items EXCEPT ![k] = new]
        /\ UNCHANGED <<due, holding, accepted>>
    BY ItemShape DEF LeaseLapses, OutboxInv
  <1>2. /\ new \in DeliveryItem /\ new # NoItem /\ new.state = items[k].state
        /\ new.attempt_count = items[k].attempt_count
        /\ new.possible_duplicate = items[k].possible_duplicate
    <2>1. new \in DeliveryItem
      BY <1>1 DEF DeliveryItem
    <2> QED
      BY <1>1, <2>1, OutboxAssumption DEF DeliveryItem
  <1> HIDE DEF new
  <1>3. /\ items' \in [Keys -> DeliveryItem \cup {NoItem}] /\ items'[k] = new
        /\ \A x \in Keys \ {k} : items'[x] = items[x]
    BY <1>1, <1>2 DEF OutboxInv, OutboxType
  <1>4. Stored' = Stored
    BY <1>1, <1>2, <1>3 DEF Stored
  <1>5. /\ \A x \in Keys : Claimable(x)' <=> Claimable(x)
        /\ \A x \in Keys : Unmarked(x)' <=> Unmarked(x)
        /\ \A g \in Gateways, x \in Keys : HoldsFor(g, x)' <=> HoldsFor(g, x)
    BY <1>1, <1>2, <1>3, <1>4 DEF Claimable, Unmarked, HoldsFor
  <1>6. DueInOrder'
    <2>1. \A n \in 1 .. Len(due') : due'[n] \in Keys /\ Claimable(due'[n])
      BY <1>1 DEF OutboxInv, OutboxType, DueInOrder
    <2>2. (\A n \in 1 .. Len(due) : Claimable(due[n]))'
      BY <1>5, <2>1 DEF Claimable
    <2> QED
      BY <1>1, <1>2, <1>3, <1>5, <2>2 DEF OutboxInv, DueInOrder
  <1>7. OutboxType' /\ TokensDiffer' /\ NothingUnseen'
    BY <1>1, <1>2, <1>3, <1>4, <1>5 DEF OutboxInv, OutboxType, TokensDiffer, NothingUnseen
  <1> QED
    BY <1>6, <1>7 DEF OutboxInv

(* A backoff is over: the item is due, and was not before.                 *)
LEMMA BackoffKeeps ==
  ASSUME OutboxInv, NEW k \in Keys, BackoffElapses(k)
  PROVE  OutboxInv'
  <1>1. /\ Claimable(k) /\ due' = Append(due, k) /\ UNCHANGED <<items, holding, accepted>>
        /\ \A n \in 1 .. Len(due) : due[n] # k
    BY DEF BackoffElapses, Claimable, IsDue
  <1>2. /\ Stored' = Stored /\ \A x \in Keys : Claimable(x)' <=> Claimable(x)
        /\ \A x \in Keys : Unmarked(x)' <=> Unmarked(x)
        /\ \A g \in Gateways, x \in Keys : HoldsFor(g, x)' <=> HoldsFor(g, x)
    BY <1>1 DEF Stored, Claimable, Unmarked, HoldsFor
  <1>3. DueInOrder'
    <2>1. due \in Seq(Keys)
      BY DEF OutboxInv, OutboxType
    <2>2. NoRepeats(due')
      BY <1>1, <2>1 DEF OutboxInv, DueInOrder, NoRepeats
    <2>3. \A n \in 1 .. Len(due') : due'[n] \in Keys /\ Claimable(due'[n])
      BY <1>1, <2>1 DEF OutboxInv, DueInOrder
    <2>4. (\A n \in 1 .. Len(due) : Claimable(due[n]))'
      BY <1>2, <2>3 DEF Claimable
    <2> QED
      BY <1>1, <1>2, <2>2, <2>4 DEF OutboxInv, DueInOrder
  <1>4. OutboxType' /\ TokensDiffer' /\ NothingUnseen'
    BY <1>1, <1>2 DEF OutboxInv, OutboxType, TokensDiffer, NothingUnseen
  <1> QED
    BY <1>3, <1>4 DEF OutboxInv

(* What recover_expired makes of an expired claim's item.                  *)
LEMMA RecoveredShape ==
  ASSUME OutboxType, NEW k \in Stored
  PROVE  /\ recovered(k) \in DeliveryItem /\ recovered(k) # NoItem
         /\ recovered(k).state = IF items[k].attempt_count < MaxAttempts
                                 THEN "RetryScheduled" ELSE "PermanentFailure"
         /\ recovered(k).attempt_count = items[k].attempt_count
         /\ k \notin Idempotent => recovered(k).possible_duplicate
  <1> DEFINE state == IF items[k].attempt_count >= MaxAttempts
                      THEN "PermanentFailure" ELSE "RetryScheduled"
             new == Released(k, state)
  <1>1. items[k].attempt_count \in Int /\ MaxAttempts \in Int
    BY ItemShape, OutboxAssumption DEF DeliveryItem
  <1>2. /\ state \in States
        /\ state = IF items[k].attempt_count < MaxAttempts
                   THEN "RetryScheduled" ELSE "PermanentFailure"
    BY <1>1 DEF States
  <1> HIDE DEF state
  <1>3. /\ new \in DeliveryItem /\ new.state = state
        /\ new.attempt_count = items[k].attempt_count
    BY <1>2, ReleasedShape
  <1>4. recovered(k) = [new EXCEPT !.possible_duplicate = @ \/ k \notin Idempotent]
    BY DEF recovered, state
  <1> HIDE DEF new
  <1>5. /\ recovered(k) \in DeliveryItem /\ recovered(k).state = state
        /\ recovered(k).attempt_count = items[k].attempt_count
        /\ k \notin Idempotent => recovered(k).possible_duplicate
    BY <1>3, <1>4 DEF DeliveryItem
  <1> QED
    BY <1>2, <1>5, OutboxAssumption

(* recover_expired, whole or stopped part way, marks each item it makes    *)
(* claimable again unless the platform deduplicates.                       *)
LEMMA RecoverKeeps ==
  ASSUME OutboxInv, NEW done \in SUBSET Expired, RecoverSome(done)
  PROVE  OutboxInv'
  <1> DEFINE again == {k \in done : items[k].attempt_count < MaxAttempts}
  <1>1. /\ items' = [k \in Keys |-> IF k \in done THEN recovered(k) ELSE items[k]]
        /\ UNCHANGED <<holding, accepted>>
    BY DEF RecoverSome
  <1>2. PICK q \in [1 .. Cardinality(again) -> again] :
          /\ \A i, j \in DOMAIN q : q[i] = q[j] => i = j
          /\ due' = due \o q
    BY DEF RecoverSome
  <1>3. done \subseteq Stored /\ Stored \subseteq Keys /\ \A k \in done : ~Claimable(k)
    BY DEF Expired, Claimable, Stored
  <1>4. /\ q \in Seq(Keys) /\ NoRepeats(q)
        /\ \A n \in 1 .. Len(q) : q[n] \in again
    <2>1. again \subseteq Keys
      BY <1>3
    <2>2. Cardinality(again) \in Nat
      BY <2>1, FS_Subset, FS_CardinalityType, OutboxAssumption
    <2> HIDE DEF again
    <2>3. q \in Seq(Keys) /\ Len(q) = Cardinality(again)
      BY <2>1, <2>2
    <2> QED
      BY <1>2, <2>3 DEF NoRepeats
  <1>5. \A k \in done :
          /\ items'[k] \in DeliveryItem /\ items'[k] # NoItem
          /\ items'[k].state = IF items[k].attempt_count < MaxAttempts
                               THEN "RetryScheduled" ELSE "PermanentFailure"
          /\ items'[k].attempt_count = items[k].attempt_count
          /\ k \notin Idempotent => items'[k].possible_duplicate
    BY <1>1, <1>3, RecoveredShape DEF OutboxInv
  <1>6. \A k \in Keys \ done : items'[k] = items[k]
    BY <1>1
  <1>7. Stored' = Stored
    BY <1>3, <1>5, <1>6 DEF Stored
  <1>8. /\ \A k \in Keys : Claimable(k)' <=> Claimable(k) \/ k \in again
        /\ \A k \in Keys : Unmarked(k)' <=> Unmarked(k) /\ k \notin done
        /\ \A g \in Gateways, k \in Keys : HoldsFor(g, k)' <=> HoldsFor(g, k)
    BY <1>1, <1>3, <1>5, <1>6, <1>7 DEF Claimable, Unmarked, HoldsFor
  <1>9. due \in Seq(Keys) /\ NoRepeats(due) /\ \A n \in 1 .. Len(due) : Claimable(due[n])
    BY DEF OutboxInv, OutboxType, DueInOrder
  <1>10. /\ due' \in Seq(Keys) /\ Len(due') = Len(due) + Len(q)
         /\ \A m \in 1 .. Len(due) + Len(q) :
              due'[m] = IF m <= Len(due) THEN due[m] ELSE q[m - Len(due)]
    BY <1>2, <1>4, <1>9, ConcatFacts
  <1>11. OutboxType'
    <2>1. items' \in [Keys -> DeliveryItem \cup {NoItem}]
      BY <1>1, <1>5, <1>6 DEF OutboxInv, OutboxType
    <2> QED
      BY <1>1, <1>10, <2>1 DEF OutboxInv, OutboxType
  <1>12. DueInOrder'
    <2>1. Len(due) \in Nat /\ Len(q) \in Nat
      BY <1>4, <1>9
    <2>2. \A m \in 1 .. Len(due') :
            \/ m \in 1 .. Len(due) /\ due'[m] = due[m]
            \/ m - Len(due) \in 1 .. Len(q) /\ m > Len(due) /\ due'[m] = q[m - Len(due)]
      BY <1>10, <2>1
    <2>3. \A n \in 1 .. Len(due), m \in 1 .. Len(q) : due[n] # q[m]
      BY <1>3, <1>4, <1>9
    <2>4. NoRepeats(due')
      <3> SUFFICES ASSUME NEW i \in 1 .. Len(due'), NEW j \in 1 .. Len(due'), due'[i] = due'[j]
                   PROVE  i = j
        BY DEF NoRepeats
      <3>1. CASE i \in 1 .. Len(due) /\ j \in 1 .. Len(due)
        <4>1. due[i] = due[j]
          BY <2>2, <3>1
        <4> QED
          BY <1>9, <3>1, <4>1 DEF NoRepeats
      <3>2. CASE i \notin 1 .. Len(due) /\ j \notin 1 .. Len(due)
        <4>1. /\ q[i - Len(due)] = q[j - Len(due)]
              /\ i - Len(due) \in 1 .. Len(q) /\ j - Len(due) \in 1 .. Len(q)
          BY <2>2, <3>2
        <4>2. i - Len(due) = j - Len(due)
          BY <1>4, <4>1 DEF NoRepeats
        <4>3. i \in Int /\ j \in Int
          OBVIOUS
        <4> QED
          BY <2>1, <4>2, <4>3
      <3> QED
        BY <2>2, <2>3, <3>1, <3>2
    <2>5. \A m \in 1 .. Len(due') : due'[m] \in Keys /\ (Claimable(due'[m]) \/ due'[m] \in again)
      BY <1>4, <1>9, <1>10, <2>2
    <2>6. (\A m \in 1 .. Len(due) : Claimable(due[m]))'
      BY <1>8, <2>5 DEF Claimable
    <2>7. \A k \in Keys : Claimable(k)' => items'[k].attempt_count < MaxAttempts
      BY <1>5, <1>6, <1>8 DEF OutboxInv, DueInOrder
    <2> QED
      BY <2>4, <2>6, <2>7 DEF DueInOrder
  <1>13. TokensDiffer'
    BY <1>1, <1>5, <1>6, <1>7, <1>8 DEF OutboxInv, TokensDiffer
  <1>14. NothingUnseen'
    BY <1>1, <1>7, <1>8 DEF OutboxInv, NothingUnseen
  <1> QED
    BY <1>11, <1>12, <1>13, <1>14 DEF OutboxInv

(* Every step of the outbox keeps the invariant.                           *)
LEMMA OutboxStep == OutboxInv /\ [Next]_vars => OutboxInv'
  <1> SUFFICES ASSUME OutboxInv, [Next]_vars PROVE OutboxInv'
    OBVIOUS
  <1>1. ASSUME NEW k \in Keys, enqueue(k) \/ cancel(k) \/ LeaseLapses(k) \/ BackoffElapses(k)
        PROVE  OutboxInv'
    BY <1>1, EnqueueKeeps, CancelKeeps, LapseKeeps, BackoffKeeps
  <1>2. ASSUME NEW g \in Gateways, \/ claim_next_for_account(g) \/ Send(g)
                                   \/ acknowledge(g) \/ fail(g) \/ GatewayCrash(g)
        PROVE  OutboxInv'
    BY <1>2, ClaimKeeps, SendKeeps, ReportKeeps
  <1>3. CASE recover_expired \/ CrashInRecovery
    <2>1. PICK done \in SUBSET Expired : RecoverSome(done)
      BY <1>3 DEF recover_expired, CrashInRecovery
    <2> QED
      BY <2>1, RecoverKeeps
  <1>4. CASE UNCHANGED vars
    BY <1>4 DEF vars, OutboxInv, OutboxType, DueInOrder, TokensDiffer, NothingUnseen,
                Claimable, Unmarked, HoldsFor, Stored
  <1> QED
    BY <1>1, <1>2, <1>3, <1>4 DEF Next

(* The invariant holds in every reachable state.                           *)
LEMMA OutboxAlways == Spec => []OutboxInv
  BY OutboxInitially, OutboxStep, PTL DEF Spec
-----------------------------------------------------------------------------
(* recover_expired marks every ambiguous send: a platform that does not    *)
(* deduplicate shows a message twice only when the item says so.           *)
THEOREM DuplicatesAreMarked == Spec => []HonestDuplicates
  <1>1. OutboxInv => HonestDuplicates
    BY DEF OutboxInv, OutboxType, NothingUnseen, Unmarked, HonestDuplicates, Stored
  <1> QED
    BY <1>1, OutboxAlways, PTL

(* verify_claim honours one gateway's claim of an item at most.            *)
THEOREM ClaimIsExclusive == Spec => []ExclusiveClaim
  <1>1. OutboxInv => ExclusiveClaim
    BY DEF OutboxInv, OutboxType, TokensDiffer, HoldsFor, Claims, verify_claim, ExclusiveClaim
  <1> QED
    BY <1>1, OutboxAlways, PTL

(* No late report, recovery or cancellation reopens a settled item.        *)
THEOREM SettledItemStays == Spec => SettledStays
  <1>1. OutboxInv /\ [Next]_vars =>
          [\A k \in Stored : is_terminal(items[k].state) => items'[k] = items[k]]_vars
    <2> SUFFICES ASSUME OutboxInv, Next, NEW k \in Stored, is_terminal(items[k].state)
                 PROVE  items'[k] = items[k]
      BY DEF vars
    <2>1. /\ k \in Keys /\ items \in [Keys -> DeliveryItem \cup {NoItem}]
          /\ items[k].state \notin {"Pending", "Claimed", "RetryScheduled"}
      BY DEF Stored, is_terminal, OutboxInv, OutboxType
    <2>2. ASSUME NEW x \in Keys, enqueue(x) \/ cancel(x) \/ LeaseLapses(x) \/ BackoffElapses(x)
          PROVE  items'[k] = items[k]
      BY <2>1, <2>2 DEF enqueue, cancel, LeaseLapses, BackoffElapses, Unsettled
    <2>3. ASSUME NEW g \in Gateways, \/ claim_next_for_account(g) \/ Send(g)
                                     \/ acknowledge(g) \/ fail(g) \/ GatewayCrash(g)
          PROVE  items'[k] = items[k]
      <3>1. \A n \in 1 .. Len(due) : due[n] # k
        BY <2>1 DEF OutboxInv, DueInOrder, Claimable
      <3> QED
        BY <2>1, <2>3, <3>1
           DEF claim_next_for_account, Send, acknowledge, fail, GatewayCrash, verify_claim
    <2>4. ASSUME recover_expired \/ CrashInRecovery
          PROVE  items'[k] = items[k]
      BY <2>1, <2>4 DEF recover_expired, CrashInRecovery, RecoverSome, Expired
    <2> QED
      BY <2>2, <2>3, <2>4 DEF Next
  <1> QED
    BY <1>1, OutboxAlways, PTL DEF Spec, SettledStays
=============================================================================
