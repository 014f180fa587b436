--------------------------- MODULE GovernorProofs ---------------------------
(***************************************************************************)
(* The accounts of the governor balance and its queues stay close to their *)
(* ceilings, for any number of processes, requests, scopes and retries.    *)
(***************************************************************************)
EXTENDS Governor, FiniteSetTheorems, TLAPS

(* A copy of the accounts is never ahead of the store, and where it is not *)
(* behind it agrees with it: equal revisions mean equal accounts.          *)
Coherent(table, acc) ==
  \A a \in Accounts :
    /\ table[a].revision <= acc[a].revision
    /\ table[a].revision = acc[a].revision => table[a].used = acc[a].used

Affordable(table, r, k) ==
  \A s \in ScopesOf(r) : table[<<s, k>>].used + 1 <= Ceiling[<<s, k>>]

Op == [kind : {"idle", "down", "submit", "grant", "delete", "release", "heartbeat",
               "usage", "schedule", "reclaim"},
       req : 0 .. MaxRequests, tries : Nat, todo : SUBSET Requests, got : SUBSET Requests]

(* A call names a request where it needs one, and what it is about to      *)
(* charge fits in the copy it looked at.                                   *)
Legal(op, table) ==
  /\ op \in Op
  /\ op.kind \in {"submit", "grant", "delete", "release", "heartbeat", "usage"}
       => op.req \in Requests
  /\ op.kind = "grant" => Affordable(table, op.req, "slots")
  /\ op.kind = "usage" => Affordable(table, op.req, "tokens")

(* A request has one life: it is being put, or it is pending, or it is     *)
(* leased, and it is not put a second time.                                *)
OneLife ==
  /\ \A r \in pending : leases[r] = NoLease /\ r <= spent.requests
  /\ \A r \in Leased : r <= spent.requests
  /\ \A p \in Processes : ops[p].kind = "submit" =>
       /\ ops[p].req \notin pending /\ leases[ops[p].req] = NoLease
       /\ ops[p].req <= spent.requests
       /\ \A q \in Processes \ {p} : ops[q].kind = "submit" => ops[q].req # ops[p].req

Shape ==
  /\ TypeOK
  /\ spent \in [requests : Nat, crashes : Nat, usage : Nat]
  /\ now \in Nat
  /\ ops \in [Processes -> Op]

GovInv ==
  /\ Shape /\ OneLife /\ AccountsBalance
  /\ \A p \in Processes : Legal(ops[p], state[p].accounts) /\ Coherent(state[p].accounts, accounts)

-----------------------------------------------------------------------------
(* The table of accounts.                                                  *)

LEMMA RequestsFinite == IsFiniteSet(Requests) /\ Requests \subseteq Nat
  BY GovernorAssumption, FS_Interval DEF Requests

LEMMA ScopesOfPath == \A r \in Requests : ScopesOf(r) \subseteq Scopes
  BY GovernorAssumption DEF ScopesOf

LEMMA ChargeType ==
  ASSUME NEW table \in [Accounts -> Account], NEW r \in Requests, NEW k \in Kinds,
         NEW units \in {1, -1},
         \A s \in ScopesOf(r) : table[<<s, k>>].used + units >= 0
  PROVE  Charge(table, r, k, units) \in [Accounts -> Account]
  <1> SUFFICES ASSUME NEW a \in Accounts PROVE Charge(table, r, k, units)[a] \in Account
    BY DEF Charge
  <1>1. CASE a \in ScopesOf(r) \X {k}
    <2>1. PICK s \in ScopesOf(r) : a = <<s, k>>
      BY <1>1
    <2>2. table[a] \in Account /\ table[a].used + units \in Nat
      BY <2>1 DEF Account
    <2> QED
      BY <1>1, <2>2 DEF Charge, Account
  <1>2. CASE a \notin ScopesOf(r) \X {k}
    BY <1>2 DEF Charge
  <1> QED
    BY <1>1, <1>2

LEMMA CoherentSelf == ASSUME NEW acc \in [Accounts -> Account] PROVE Coherent(acc, acc)
  BY DEF Coherent, Account

(* A copy that is up to date on the path follows the charge ...            *)
LEMMA CoherentCharged ==
  ASSUME NEW table \in [Accounts -> Account], NEW acc \in [Accounts -> Account],
         NEW r \in Requests, NEW k \in Kinds, NEW units \in {1, -1},
         Coherent(table, acc),
         \A s \in ScopesOf(r) : acc[<<s, k>>].revision = table[<<s, k>>].revision
  PROVE  Coherent(Charge(table, r, k, units), Charge(acc, r, k, units))
  <1> SUFFICES ASSUME NEW a \in Accounts
      PROVE  LET t == Charge(table, r, k, units)[a]
                 c == Charge(acc, r, k, units)[a]
             IN  t.revision <= c.revision /\ (t.revision = c.revision => t.used = c.used)
    BY DEF Coherent
  <1>0. table[a] \in Account /\ acc[a] \in Account
    OBVIOUS
  <1>1. CASE a \in ScopesOf(r) \X {k}
    BY <1>0, <1>1 DEF Charge, Coherent, Account
  <1>2. CASE a \notin ScopesOf(r) \X {k}
    BY <1>0, <1>2 DEF Charge, Coherent, Account
  <1> QED
    BY <1>1, <1>2

(* ... and one that does not is behind.                                    *)
LEMMA CoherentBehind ==
  ASSUME NEW table \in [Accounts -> Account], NEW acc \in [Accounts -> Account],
         NEW r \in Requests, NEW k \in Kinds, NEW units \in {1, -1},
         Coherent(table, acc)
  PROVE  Coherent(table, Charge(acc, r, k, units))
  <1> SUFFICES ASSUME NEW a \in Accounts
      PROVE  LET t == table[a]
                 c == Charge(acc, r, k, units)[a]
             IN  t.revision <= c.revision /\ (t.revision = c.revision => t.used = c.used)
    BY DEF Coherent
  <1>0. table[a] \in Account /\ acc[a] \in Account
    OBVIOUS
  <1>1. CASE a \in ScopesOf(r) \X {k}
    BY <1>0, <1>1 DEF Charge, Coherent, Account
  <1>2. CASE a \notin ScopesOf(r) \X {k}
    BY <1>0, <1>2 DEF Charge, Coherent, Account
  <1> QED
    BY <1>1, <1>2

LEMMA NothingExhausted ==
  ASSUME NEW st, st.accounts \in [Accounts -> Account], NEW r \in Requests, NEW k \in Kinds,
         Exhausted(st, r, k) = {}
  PROVE  Affordable(st.accounts, r, k)
  <1> SUFFICES ASSUME NEW i \in DOMAIN Path[r]
      PROVE  st.accounts[<<Path[r][i], k>>].used + 1 <= Ceiling[<<Path[r][i], k>>]
    BY DEF Affordable, ScopesOf
  <1>1. <<Path[r][i], k>> \in Accounts
    BY ScopesOfPath DEF ScopesOf, Accounts
  <1>2. ~(st.accounts[<<Path[r][i], k>>].used + 1 > Ceiling[<<Path[r][i], k>>])
    BY DEF Exhausted
  <1> QED
    BY <1>1, <1>2, GovernorAssumption DEF Account

-----------------------------------------------------------------------------
(* The leases that occupy a scope.                                         *)
Occupants(lea, s) == {r \in Requests : lea[r] # NoLease /\ s \in ScopesOf(r)}

Balanced(acc, lea) ==
  \A s \in Scopes :
    /\ acc[<<s, "slots">>].used = Cardinality(Occupants(lea, s))
    /\ \A k \in Kinds : acc[<<s, k>>].used <= Ceiling[<<s, k>>]

LEMMA BalanceOfLeases == AccountsBalance <=> Balanced(accounts, leases)
  <1>1. \A s \in Scopes : Occupants(leases, s) = {r \in Leased : s \in ScopesOf(r)}
    BY DEF Occupants, Leased
  <1> QED
    BY <1>1 DEF AccountsBalance, Balanced, InUse

LEMMA LeaseIsNotNone == \A lease \in Lease : lease # NoLease
  BY GovernorAssumption DEF Lease

LEMMA OccupantsFinite ==
  ASSUME NEW lea, NEW s
  PROVE  IsFiniteSet(Occupants(lea, s)) /\ Cardinality(Occupants(lea, s)) \in Nat
  BY RequestsFinite, FS_Subset, FS_CardinalityType DEF Occupants

LEMMA Occupied ==
  ASSUME NEW lea \in [Requests -> Lease \cup {NoLease}], NEW r \in Requests,
         lea[r] = NoLease, NEW s,
         NEW granted, granted \in [Requests -> Lease \cup {NoLease}], granted[r] # NoLease,
         \A q \in Requests \ {r} : granted[q] = lea[q]
  PROVE  Cardinality(Occupants(granted, s))
           = IF s \in ScopesOf(r) THEN Cardinality(Occupants(lea, s)) + 1
             ELSE Cardinality(Occupants(lea, s))
  <1> DEFINE before == Occupants(lea, s)
             after == Occupants(granted, s)
  <1>1. IsFiniteSet(before) /\ Cardinality(before) \in Nat
    BY OccupantsFinite
  <1>2. r \notin before
    BY DEF Occupants
  <1>3. CASE s \in ScopesOf(r)
    <2>1. after = before \cup {r}
      BY <1>3, LeaseIsNotNone DEF Occupants
    <2>2. Cardinality(before \cup {r}) = Cardinality(before) + 1
      <3> HIDE DEF before
      <3> QED
        BY <1>1, <1>2, FS_AddElement
    <2> QED
      BY <1>3, <2>1, <2>2
  <1>4. CASE s \notin ScopesOf(r)
    <2>1. after = before
      BY <1>4 DEF Occupants
    <2> QED
      BY <1>1, <1>4, <2>1
  <1> QED
    BY <1>3, <1>4

LEMMA Vacated ==
  ASSUME NEW lea \in [Requests -> Lease \cup {NoLease}], NEW r \in Requests,
         lea[r] # NoLease, NEW s
  PROVE  /\ Cardinality(Occupants([lea EXCEPT ![r] = NoLease], s))
              = Cardinality(Occupants(lea, s)) - IF s \in ScopesOf(r) THEN 1 ELSE 0
         /\ s \in ScopesOf(r) => Cardinality(Occupants(lea, s)) >= 1
  <1> DEFINE before == Occupants(lea, s)
             after == Occupants([lea EXCEPT ![r] = NoLease], s)
  <1>1. IsFiniteSet(before) /\ Cardinality(before) \in Nat
    BY OccupantsFinite
  <1>2. CASE s \in ScopesOf(r)
    <2>1. after = before \ {r} /\ r \in before
      BY <1>2 DEF Occupants
    <2>2. Cardinality(before \ {r}) = Cardinality(before) - 1
      <3> HIDE DEF before
      <3> QED
        BY <1>1, <2>1, FS_RemoveElement
    <2>3. Cardinality(after) \in Nat
      BY OccupantsFinite
    <2>4. Cardinality(after) = Cardinality(before) - 1
      BY <2>1, <2>2
    <2>5. Cardinality(before) >= 1
      <3> HIDE DEF before, after
      <3> QED
        BY <1>1, <2>3, <2>4
    <2> QED
      BY <1>2, <2>4, <2>5
  <1>3. CASE s \notin ScopesOf(r)
    <2>1. after = before
      BY <1>3 DEF Occupants
    <2> QED
      BY <1>1, <1>3, <2>1
  <1> QED
    BY <1>2, <1>3

(* A lease that is renewed occupies what it did.                           *)
LEMMA Renewed ==
  ASSUME NEW lea \in [Requests -> Lease \cup {NoLease}], NEW r \in Requests,
         NEW lease \in Lease, lea[r] # NoLease, NEW s
  PROVE  Occupants([lea EXCEPT ![r] = lease], s) = Occupants(lea, s)
  BY LeaseIsNotNone DEF Occupants

LEMMA ChargedAccount ==
  ASSUME NEW table \in [Accounts -> Account], NEW r \in Requests, NEW k \in Kinds, NEW units,
         NEW s \in Scopes, NEW j \in Kinds
  PROVE  Charge(table, r, k, units)[<<s, j>>].used
           = IF s \in ScopesOf(r) /\ j = k THEN table[<<s, j>>].used + units
                                           ELSE table[<<s, j>>].used
  <1>1. <<s, j>> \in Accounts /\ (<<s, j>> \in ScopesOf(r) \X {k} <=> s \in ScopesOf(r) /\ j = k)
    BY DEF Accounts
  <1> QED
    BY <1>1 DEF Charge

LEMMA AccountAt ==
  ASSUME NEW acc \in [Accounts -> Account], NEW s \in Scopes, NEW k \in Kinds
  PROVE  acc[<<s, k>>].used \in Nat /\ Ceiling[<<s, k>>] \in Nat
  BY GovernorAssumption DEF Accounts, Account

LEMMA ChargeMore ==
  ASSUME NEW table \in [Accounts -> Account], NEW r \in Requests, NEW k \in Kinds
  PROVE  Charge(table, r, k, 1) \in [Accounts -> Account]
  <1>1. ASSUME NEW s \in ScopesOf(r) PROVE table[<<s, k>>].used + 1 >= 0
    <2>1. s \in Scopes
      BY ScopesOfPath
    <2>2. table[<<s, k>>].used \in Nat
      BY <2>1, AccountAt
    <2> QED
      BY <2>2
  <1> QED
    BY <1>1, ChargeType

LEMMA BalancedGrant ==
  ASSUME NEW acc \in [Accounts -> Account],
         NEW lea \in [Requests -> Lease \cup {NoLease}], NEW r \in Requests,
         lea[r] = NoLease, Balanced(acc, lea), Affordable(acc, r, "slots"),
         NEW granted, granted \in [Requests -> Lease \cup {NoLease}], granted[r] # NoLease,
         \A q \in Requests \ {r} : granted[q] = lea[q]
  PROVE  Balanced(Charge(acc, r, "slots", 1), granted)
  <1> SUFFICES ASSUME NEW s \in Scopes
      PROVE  /\ Charge(acc, r, "slots", 1)[<<s, "slots">>].used
                  = Cardinality(Occupants(granted, s))
             /\ \A k \in Kinds :
                  Charge(acc, r, "slots", 1)[<<s, k>>].used <= Ceiling[<<s, k>>]
    BY DEF Balanced
  <1>1. Charge(acc, r, "slots", 1)[<<s, "slots">>].used
          = Cardinality(Occupants(granted, s))
    <2>1. "slots" \in Kinds
      BY DEF Kinds
    <2>2. acc[<<s, "slots">>].used \in Nat /\ acc[<<s, "slots">>].used = Cardinality(Occupants(lea, s))
      BY <2>1, AccountAt DEF Balanced
    <2>3. Charge(acc, r, "slots", 1)[<<s, "slots">>].used
            = IF s \in ScopesOf(r) THEN acc[<<s, "slots">>].used + 1 ELSE acc[<<s, "slots">>].used
      BY <2>1, ChargedAccount
    <2>4. Cardinality(Occupants(granted, s))
            = IF s \in ScopesOf(r) THEN Cardinality(Occupants(lea, s)) + 1
             ELSE Cardinality(Occupants(lea, s))
      BY Occupied
    <2> QED
      BY <2>2, <2>3, <2>4
  <1>2. ASSUME NEW k \in Kinds
        PROVE  Charge(acc, r, "slots", 1)[<<s, k>>].used <= Ceiling[<<s, k>>]
    <2>1. "slots" \in Kinds
      BY DEF Kinds
    <2>2. Charge(acc, r, "slots", 1)[<<s, k>>].used
            = IF s \in ScopesOf(r) /\ k = "slots" THEN acc[<<s, k>>].used + 1 ELSE acc[<<s, k>>].used
      BY <2>1, ChargedAccount
    <2>3. s \in ScopesOf(r) => acc[<<s, "slots">>].used + 1 <= Ceiling[<<s, "slots">>]
      BY DEF Affordable
    <2>4. acc[<<s, k>>].used <= Ceiling[<<s, k>>]
      BY DEF Balanced
    <2> QED
      BY <2>2, <2>3, <2>4
  <1> QED
    BY <1>1, <1>2

LEMMA BalancedRelease ==
  ASSUME NEW acc \in [Accounts -> Account],
         NEW lea \in [Requests -> Lease \cup {NoLease}], NEW r \in Requests,
         lea[r] # NoLease, Balanced(acc, lea)
  PROVE  /\ Balanced(Charge(acc, r, "slots", -1), [lea EXCEPT ![r] = NoLease])
         /\ \A s \in ScopesOf(r) : acc[<<s, "slots">>].used + (-1) >= 0
  <1>0. "slots" \in Kinds
    BY DEF Kinds
  <1>1. ASSUME NEW s \in Scopes
        PROVE  /\ Charge(acc, r, "slots", -1)[<<s, "slots">>].used
                    = Cardinality(Occupants([lea EXCEPT ![r] = NoLease], s))
               /\ s \in ScopesOf(r) => acc[<<s, "slots">>].used >= 1
    <2>2. acc[<<s, "slots">>].used \in Nat /\ acc[<<s, "slots">>].used = Cardinality(Occupants(lea, s))
      BY <1>0, AccountAt DEF Balanced
    <2>3. Charge(acc, r, "slots", -1)[<<s, "slots">>].used
            = IF s \in ScopesOf(r) THEN acc[<<s, "slots">>].used + (-1) ELSE acc[<<s, "slots">>].used
      BY <1>0, ChargedAccount
    <2>4. /\ Cardinality(Occupants([lea EXCEPT ![r] = NoLease], s))
               = Cardinality(Occupants(lea, s)) - IF s \in ScopesOf(r) THEN 1 ELSE 0
          /\ s \in ScopesOf(r) => Cardinality(Occupants(lea, s)) >= 1
      BY Vacated
    <2> QED
      BY <2>2, <2>3, <2>4
  <1>2. ASSUME NEW s \in Scopes, NEW k \in Kinds
        PROVE  Charge(acc, r, "slots", -1)[<<s, k>>].used <= Ceiling[<<s, k>>]
    <2>1. acc[<<s, k>>].used \in Nat /\ Ceiling[<<s, k>>] \in Nat /\ acc[<<s, k>>].used <= Ceiling[<<s, k>>]
      BY AccountAt DEF Balanced
    <2> QED
      BY <1>0, <2>1, ChargedAccount
  <1>3. \A s \in ScopesOf(r) : acc[<<s, "slots">>].used + (-1) >= 0
    <2> TAKE s \in ScopesOf(r)
    <2>1. s \in Scopes
      BY ScopesOfPath
    <2> QED
      BY <1>0, <1>1, <2>1, AccountAt
  <1> QED
    BY <1>1, <1>2, <1>3 DEF Balanced

LEMMA BalancedUsage ==
  ASSUME NEW acc \in [Accounts -> Account],
         NEW lea \in [Requests -> Lease \cup {NoLease}], NEW r \in Requests,
         Balanced(acc, lea), Affordable(acc, r, "tokens")
  PROVE  Balanced(Charge(acc, r, "tokens", 1), lea)
  <1>1. "slots" \in Kinds /\ "tokens" \in Kinds /\ "slots" # "tokens"
    BY DEF Kinds
  <1>2. ASSUME NEW s \in Scopes, NEW k \in Kinds
        PROVE  Charge(acc, r, "tokens", 1)[<<s, k>>].used
                 = IF s \in ScopesOf(r) /\ k = "tokens" THEN acc[<<s, k>>].used + 1
                                                       ELSE acc[<<s, k>>].used
    BY <1>1, ChargedAccount
  <1>3. \A s \in Scopes : Charge(acc, r, "tokens", 1)[<<s, "slots">>].used = acc[<<s, "slots">>].used
    BY <1>1, <1>2
  <1>4. \A s \in Scopes, k \in Kinds : Charge(acc, r, "tokens", 1)[<<s, k>>].used <= Ceiling[<<s, k>>]
    <2> TAKE s \in Scopes, k \in Kinds
    <2>1. acc[<<s, k>>].used <= Ceiling[<<s, k>>]
      BY DEF Balanced
    <2>2. s \in ScopesOf(r) => acc[<<s, "tokens">>].used + 1 <= Ceiling[<<s, "tokens">>]
      BY DEF Affordable
    <2>3. Charge(acc, r, "tokens", 1)[<<s, k>>].used
            = IF s \in ScopesOf(r) /\ k = "tokens" THEN acc[<<s, k>>].used + 1
                                                  ELSE acc[<<s, k>>].used
      BY <1>2
    <2> QED
      BY <2>1, <2>2, <2>3
  <1> QED
    BY <1>3, <1>4 DEF Balanced

(* What is affordable in a copy that is up to date is affordable.          *)
LEMMA AffordableNow ==
  ASSUME NEW table \in [Accounts -> Account], NEW acc \in [Accounts -> Account],
         NEW r \in Requests, NEW k \in Kinds, Coherent(table, acc),
         \A s \in ScopesOf(r) : acc[<<s, k>>].revision = table[<<s, k>>].revision,
         Affordable(table, r, k)
  PROVE  Affordable(acc, r, k)
  <1>1. \A s \in ScopesOf(r) : <<s, k>> \in Accounts
    BY ScopesOfPath DEF Accounts
  <1> QED
    BY <1>1 DEF Coherent, Affordable

-----------------------------------------------------------------------------
(* What a step of process p does to the invariant.                         *)
Resting(op) == op \in Op /\ op.kind \in {"idle", "down", "schedule", "reclaim"}

Frame ==
  /\ asked' \in [Processes -> SUBSET Requests] /\ held' \in [Processes -> SUBSET Requests]
  /\ spent' \in [requests : Nat, crashes : Nat, usage : Nat] /\ now' \in Nat

LEMMA RestingIsLegal == ASSUME NEW op, NEW table, Resting(op) PROVE Legal(op, table)
  BY DEF Resting, Legal

LEMMA Assemble ==
  ASSUME GovInv, NEW p \in Processes, NEW op, NEW copy \in Copy,
         ops' = [ops EXCEPT ![p] = op], state' = [state EXCEPT ![p] = copy],
         Legal(op, copy.accounts), Durable' \in Copy, Frame, OneLife',
         Coherent(copy.accounts, accounts'),
         \A q \in Processes \ {p} : Coherent(state[q].accounts, accounts'),
         Balanced(accounts', leases')
  PROVE  GovInv'
  <1>1. op \in Op
    BY DEF Legal
  <1>2. Shape'
    BY <1>1 DEF GovInv, Shape, TypeOK, Frame
  <1>3. ASSUME NEW q \in Processes
        PROVE  Legal(ops[q], state[q].accounts)' /\ Coherent(state[q].accounts, accounts)'
    <2>1. CASE q = p
      <3>1. ops'[q] = op /\ state'[q] = copy
        BY <2>1 DEF GovInv, Shape, TypeOK
      <3>2. Legal(ops'[q], state'[q].accounts) /\ Coherent(state'[q].accounts, accounts')
        BY <3>1
      <3> QED
        BY <3>2 DEF Legal, Coherent, Affordable
    <2>2. CASE q # p
      <3>1. ops'[q] = ops[q] /\ state'[q] = state[q]
        BY <2>2 DEF GovInv, Shape, TypeOK
      <3>2. Legal(ops'[q], state'[q].accounts) /\ Coherent(state'[q].accounts, accounts')
        BY <2>2, <3>1 DEF GovInv
      <3> QED
        BY <3>2 DEF Legal, Coherent, Affordable
    <2> QED
      BY <2>1, <2>2
  <1>4. AccountsBalance'
    <2>1. \A s \in Scopes : Occupants(leases', s) = {r \in Leased' : s \in ScopesOf(r)}
      BY DEF Occupants, Leased
    <2> QED
      BY <2>1 DEF AccountsBalance, Balanced, InUse
  <1> QED
    BY <1>2, <1>3, <1>4 DEF GovInv

(* A step that puts no request keeps every request to its one life.        *)
LEMMA LifeGoesOn ==
  ASSUME GovInv, NEW p \in Processes, NEW op, ops' = [ops EXCEPT ![p] = op],
         op.kind # "submit", pending' \subseteq pending, spent'.requests = spent.requests,
         \A r \in Requests : leases'[r] # NoLease =>
           leases[r] # NoLease \/ (r \in pending /\ r \notin pending')
  PROVE  OneLife'
  <1>0. pending \subseteq Requests /\ ops \in [Processes -> Op]
    BY DEF GovInv, Shape, TypeOK, Durable, Copy
  <1>1. ASSUME NEW r \in pending' PROVE leases'[r] = NoLease /\ r <= spent'.requests
    BY <1>0 DEF GovInv, OneLife
  <1>2. ASSUME NEW r \in Leased' PROVE r <= spent'.requests
    BY <1>0 DEF GovInv, OneLife, Leased
  <1>3. ASSUME NEW q \in Processes, ops'[q].kind = "submit"
        PROVE  ops[q].kind = "submit" /\ ops'[q] = ops[q] /\ ops[q].req \in Requests
    BY <1>0, <1>3 DEF GovInv, Legal
  <1>4. ASSUME NEW q \in Processes, ops'[q].kind = "submit"
        PROVE  /\ ops'[q].req \notin pending' /\ leases'[ops'[q].req] = NoLease
               /\ ops'[q].req <= spent'.requests
               /\ \A o \in Processes \ {q} : ops'[o].kind = "submit" => ops'[o].req # ops'[q].req
    BY <1>3, <1>4 DEF GovInv, OneLife
  <1> QED
    BY <1>1, <1>2, <1>4 DEF OneLife

LEMMA CopyParts ==
  ASSUME GovInv
  PROVE  /\ accounts \in [Accounts -> Account] /\ pending \subseteq Requests
         /\ leases \in [Requests -> Lease \cup {NoLease}]
         /\ \A p \in Processes : /\ state[p] \in Copy
                                 /\ state[p].accounts \in [Accounts -> Account]
                                 /\ state[p].pending \subseteq Requests
                                 /\ state[p].leases \in [Requests -> Lease \cup {NoLease}]
                                 /\ Coherent(state[p].accounts, accounts)
         /\ Durable \in Copy /\ Durable.accounts = accounts
         /\ Balanced(accounts, leases)
  BY BalanceOfLeases DEF GovInv, Shape, TypeOK, Durable, Copy

(* A step that looks at the store, or not, and moves on in the call.       *)
LEMMA LocalStep ==
  ASSUME GovInv, NEW p \in Processes, NEW op, NEW copy \in {state[p], Durable},
         ops' = [ops EXCEPT ![p] = op], state' = [state EXCEPT ![p] = copy],
         UNCHANGED <<accounts, pending, leases>>, Frame, spent'.requests = spent.requests,
         Legal(op, copy.accounts), op.kind # "submit"
  PROVE  GovInv'
  <1>1. copy \in Copy /\ Coherent(copy.accounts, accounts)
    BY CopyParts, CoherentSelf
  <1>2. Durable' = Durable
    BY DEF Durable
  <1>3. OneLife'
    BY LifeGoesOn
  <1> QED
    BY <1>1, <1>2, <1>3, Assemble, CopyParts

(* A pending record is deleted.                                            *)
LEMMA DeleteStep ==
  ASSUME GovInv, NEW p \in Processes, NEW r, NEW op, ops' = [ops EXCEPT ![p] = op],
         pending' = pending \ {r}, state' = [state EXCEPT ![p].pending = @ \ {r}],
         UNCHANGED <<accounts, leases>>, Frame, spent'.requests = spent.requests, Resting(op)
  PROVE  GovInv'
  <1> DEFINE copy == [state[p] EXCEPT !.pending = @ \ {r}]
  <1>1. copy \in Copy /\ copy.accounts = state[p].accounts
    BY CopyParts DEF Copy
  <1>2. Durable' \in Copy
    BY CopyParts DEF Durable, Copy
  <1>3. OneLife'
    BY LifeGoesOn DEF Resting
  <1>4. state' = [state EXCEPT ![p] = copy]
    BY DEF GovInv, Shape, TypeOK
  <1>5. Legal(op, copy.accounts)
    BY RestingIsLegal
  <1> HIDE DEF copy
  <1> QED
    BY <1>1, <1>2, <1>3, <1>4, <1>5, Assemble, CopyParts

(* A lease is granted out of a copy that is up to date on the path.        *)
LEMMA GrantStep ==
  ASSUME GovInv, NEW p \in Processes, NEW r \in Requests, NEW op, ops' = [ops EXCEPT ![p] = op],
         GrantOf(p, r), Affordable(state[p].accounts, r, "slots"),
         Frame, spent'.requests = spent.requests, Resting(op)
  PROVE  GovInv'
  <1> DEFINE lease == [expires_at |-> now + Timeout, revision |-> 0]
             table == Charge(state[p].accounts, r, "slots", 1)
             copy == [accounts |-> table, pending |-> state[p].pending \ {r},
                      leases |-> [state[p].leases EXCEPT ![r] = lease]]
  <1>0. "slots" \in Kinds /\ lease \in Lease /\ lease # NoLease
    BY LeaseIsNotNone, GovernorAssumption DEF Kinds, Lease, GovInv, Shape
  <1>1. \A s \in ScopesOf(r) : accounts[<<s, "slots">>].revision
                                 = state[p].accounts[<<s, "slots">>].revision
    BY DEF GrantOf, Unchanged
  <1>2. Affordable(accounts, r, "slots")
    BY <1>0, <1>1, AffordableNow, CopyParts
  <1>3. accounts' = Charge(accounts, r, "slots", 1) /\ accounts' \in [Accounts -> Account]
    <2>1. Charge(accounts, r, "slots", 1) \in [Accounts -> Account]
      BY <1>0, ChargeMore, CopyParts
    <2> QED
      BY <2>1 DEF GrantOf
  <1>4. table \in [Accounts -> Account]
    BY <1>0, ChargeMore, CopyParts
  <1>5. /\ leases' \in [Requests -> Lease \cup {NoLease}] /\ leases'[r] # NoLease
        /\ \A q \in Requests \ {r} : leases'[q] = leases[q]
    BY <1>0, CopyParts DEF GrantOf
  <1>6. leases[r] = NoLease /\ pending' = pending \ {r} /\ r \in pending
    BY DEF GrantOf, GovInv, OneLife
  <1>7. Balanced(accounts', leases')
    <2>1. /\ accounts \in [Accounts -> Account] /\ Balanced(accounts, leases)
          /\ leases \in [Requests -> Lease \cup {NoLease}]
      BY CopyParts
    <2>2. Balanced(Charge(accounts, r, "slots", 1), leases')
      BY <1>2, <1>5, <1>6, <2>1, BalancedGrant
    <2> QED
      BY <1>3, <2>2
  <1>8. Coherent(table, accounts')
    BY <1>0, <1>1, <1>3, CoherentCharged, CopyParts
  <1>9. \A q \in Processes \ {p} : Coherent(state[q].accounts, accounts')
    BY <1>0, <1>3, CoherentBehind, CopyParts
  <1>10. copy \in Copy /\ copy.accounts = table
    BY <1>0, <1>4, CopyParts DEF Copy
  <1>11. state' = [state EXCEPT ![p] = copy]
    BY DEF GrantOf, Applied
  <1>12. Durable' \in Copy
    BY <1>3, <1>5, <1>6, CopyParts DEF Durable, Copy
  <1>13. OneLife'
    BY <1>5, <1>6, LifeGoesOn DEF Resting
  <1>14. Legal(op, copy.accounts)
    BY RestingIsLegal
  <1> HIDE DEF copy, table
  <1> QED
    BY <1>7, <1>8, <1>9, <1>10, <1>11, <1>12, <1>13, <1>14, Assemble

(* A lease is released under its revision and those of the path.           *)
LEMMA ReleaseStep ==
  ASSUME GovInv, NEW p \in Processes, NEW r \in Requests, NEW op, ops' = [ops EXCEPT ![p] = op],
         release_locked(p, r), UNCHANGED pending,
         Frame, spent'.requests = spent.requests, Resting(op)
  PROVE  GovInv'
  <1> DEFINE table == Charge(state[p].accounts, r, "slots", -1)
             copy == [accounts |-> table, pending |-> state[p].pending,
                      leases |-> [state[p].leases EXCEPT ![r] = NoLease]]
  <1>0. "slots" \in Kinds
    BY DEF Kinds
  <1>1. \A s \in ScopesOf(r) : accounts[<<s, "slots">>].revision
                                 = state[p].accounts[<<s, "slots">>].revision
    BY DEF release_locked, Unchanged
  <1>2. /\ leases[r] # NoLease /\ leases' = [leases EXCEPT ![r] = NoLease]
        /\ accounts' = Charge(accounts, r, "slots", -1)
    BY DEF release_locked, LeaseIs, Leased
  <1>3. /\ Balanced(Charge(accounts, r, "slots", -1), [leases EXCEPT ![r] = NoLease])
        /\ \A s \in ScopesOf(r) : accounts[<<s, "slots">>].used + (-1) >= 0
    BY <1>2, BalancedRelease, CopyParts
  <1>4. accounts' \in [Accounts -> Account]
    BY <1>0, <1>2, <1>3, ChargeType, CopyParts
  <1>5. table \in [Accounts -> Account]
    <2>1. ASSUME NEW s \in ScopesOf(r)
          PROVE  state[p].accounts[<<s, "slots">>].used + (-1) >= 0
      <3>1. <<s, "slots">> \in Accounts
        BY <1>0, ScopesOfPath DEF Accounts
      <3>2. state[p].accounts[<<s, "slots">>].used = accounts[<<s, "slots">>].used
        BY <1>1, <3>1, CopyParts DEF Coherent
      <3> QED
        BY <1>3, <3>2
    <2> QED
      BY <1>0, <2>1, ChargeType, CopyParts
  <1>6. Coherent(table, accounts')
    BY <1>0, <1>1, <1>2, CoherentCharged, CopyParts
  <1>7. \A q \in Processes \ {p} : Coherent(state[q].accounts, accounts')
    BY <1>0, <1>2, CoherentBehind, CopyParts
  <1>8. copy \in Copy /\ copy.accounts = table
    BY <1>5, CopyParts DEF Copy
  <1>9. state' = [state EXCEPT ![p] = copy]
    BY DEF release_locked, Applied
  <1>10. leases' \in [Requests -> Lease \cup {NoLease}]
    BY <1>2, CopyParts
  <1>11. Durable' \in Copy
    BY <1>4, <1>10, CopyParts DEF Durable, Copy
  <1>12. OneLife'
    <2>1. \A q \in Requests : leases'[q] # NoLease => leases[q] # NoLease
      BY <1>2, CopyParts
    <2> QED
      BY <2>1, LifeGoesOn DEF Resting
  <1>13. Legal(op, copy.accounts) /\ Balanced(accounts', leases')
    BY <1>2, <1>3, RestingIsLegal
  <1> HIDE DEF copy, table
  <1> QED
    BY <1>6, <1>7, <1>8, <1>9, <1>11, <1>12, <1>13, Assemble

(* A lease is renewed under its revision.                                  *)
LEMMA RenewStep ==
  ASSUME GovInv, NEW p \in Processes, NEW r \in Requests, NEW op, ops' = [ops EXCEPT ![p] = op],
         NEW lease \in Lease, leases[r] # NoLease, leases' = [leases EXCEPT ![r] = lease],
         state' = [state EXCEPT ![p].leases[r] = lease],
         UNCHANGED <<accounts, pending>>, Frame, spent'.requests = spent.requests, Resting(op)
  PROVE  GovInv'
  <1> DEFINE copy == [state[p] EXCEPT !.leases = [@ EXCEPT ![r] = lease]]
  <1>1. copy \in Copy /\ copy.accounts = state[p].accounts
    BY CopyParts DEF Copy
  <1>2. leases' \in [Requests -> Lease \cup {NoLease}]
    BY CopyParts
  <1>3. Durable' \in Copy
    BY <1>2, CopyParts DEF Durable, Copy
  <1>4. state' = [state EXCEPT ![p] = copy]
    BY CopyParts DEF GovInv, Shape, TypeOK, Copy
  <1>5. OneLife'
    <2>1. \A q \in Requests : leases'[q] # NoLease => leases[q] # NoLease
      BY CopyParts
    <2> QED
      BY <2>1, LifeGoesOn DEF Resting
  <1>6. Balanced(accounts', leases')
    <2>1. \A s : Occupants(leases', s) = Occupants(leases, s)
      BY Renewed, CopyParts
    <2> QED
      BY <2>1, CopyParts DEF Balanced
  <1>7. Legal(op, copy.accounts)
    BY RestingIsLegal
  <1> HIDE DEF copy
  <1> QED
    BY <1>1, <1>3, <1>4, <1>5, <1>6, <1>7, Assemble, CopyParts

(* Tokens are charged out of a copy that is up to date on the path.        *)
LEMMA UsageStep ==
  ASSUME GovInv, NEW p \in Processes, NEW r \in Requests, NEW op, ops' = [ops EXCEPT ![p] = op],
         Unchanged(p, r, "tokens"), Affordable(state[p].accounts, r, "tokens"),
         accounts' = Charge(accounts, r, "tokens", 1),
         state' = [state EXCEPT ![p].accounts = Charge(@, r, "tokens", 1)],
         UNCHANGED <<pending, leases>>, Frame, spent'.requests = spent.requests, Resting(op)
  PROVE  GovInv'
  <1> DEFINE table == Charge(state[p].accounts, r, "tokens", 1)
             copy == [state[p] EXCEPT !.accounts = table]
  <1>0. "tokens" \in Kinds
    BY DEF Kinds
  <1>1. \A s \in ScopesOf(r) : accounts[<<s, "tokens">>].revision
                                 = state[p].accounts[<<s, "tokens">>].revision
    BY DEF Unchanged
  <1>2. Affordable(accounts, r, "tokens")
    BY <1>0, <1>1, AffordableNow, CopyParts
  <1>3. accounts' \in [Accounts -> Account]
    BY <1>0, ChargeMore, CopyParts
  <1>4. table \in [Accounts -> Account]
    BY <1>0, ChargeMore, CopyParts
  <1>5. Balanced(accounts', leases')
    BY <1>2, BalancedUsage, CopyParts
  <1>6. Coherent(table, accounts')
    BY <1>0, <1>1, CoherentCharged, CopyParts
  <1>7. \A q \in Processes \ {p} : Coherent(state[q].accounts, accounts')
    BY <1>0, CoherentBehind, CopyParts
  <1>8. copy \in Copy /\ copy.accounts = table
    <2> HIDE DEF table
    <2> QED
      BY <1>4, CopyParts DEF Copy
  <1>9. state' = [state EXCEPT ![p] = copy]
    BY DEF GovInv, Shape, TypeOK
  <1>10. Durable' \in Copy
    BY <1>3, CopyParts DEF Durable, Copy
  <1>11. OneLife'
    BY LifeGoesOn DEF Resting
  <1>12. Legal(op, copy.accounts)
    BY RestingIsLegal
  <1> HIDE DEF copy, table
  <1> QED
    BY <1>5, <1>6, <1>7, <1>8, <1>9, <1>10, <1>11, <1>12, Assemble

LEMMA IdleIsResting == Resting(Idle) /\ Resting(Down)
  <1>1. 0 \in 0 .. MaxRequests
    BY GovernorAssumption
  <1> QED
    BY <1>1 DEF Resting, Idle, Down, Op

Call(kind, r, tries) == [Idle EXCEPT !.kind = kind, !.req = r, !.tries = tries]

LEMMA CallIsOp ==
  ASSUME NEW r \in Requests, NEW tries \in Nat,
         NEW kind \in {"submit", "grant", "delete", "release", "heartbeat", "usage"}
  PROVE  /\ Call(kind, r, tries) \in Op
         /\ Call(kind, r, tries).kind = kind /\ Call(kind, r, tries).req = r
  <1>1. r \in 0 .. MaxRequests
    BY GovernorAssumption DEF Requests
  <1> QED
    BY <1>1 DEF Call, Idle, Op

(* A request is numbered, and then put.                                    *)
LEMMA SubmitStep ==
  ASSUME GovInv, NEW p \in Processes, NEW r \in Requests, submit(p, r)
  PROVE  GovInv'
  <1> DEFINE op == IF QueueFull(Durable, r) THEN Idle
                   ELSE [Idle EXCEPT !.kind = "submit", !.req = r]
  <1>1. /\ ops' = [ops EXCEPT ![p] = op] /\ state' = [state EXCEPT ![p] = Durable]
        /\ UNCHANGED <<accounts, pending, leases, asked, held, now>>
        /\ r = spent.requests + 1 /\ spent' = [spent EXCEPT !.requests = r]
    BY DEF submit, Goto, refresh_durable_state
  <1>2. op \in Op /\ op.kind \in {"idle", "submit"} /\ (op.kind = "submit" => op.req = r)
    <2>1. r \in 0 .. MaxRequests /\ 0 \in 0 .. MaxRequests
      BY GovernorAssumption DEF Requests
    <2> QED
      BY <2>1 DEF Idle, Op
  <1>3. Legal(op, Durable.accounts)
    BY <1>2 DEF Legal
  <1> HIDE DEF op
  <1>4. Frame /\ spent'.requests = r /\ spent.requests \in Nat
    BY <1>1 DEF Frame, GovInv, Shape, TypeOK, Requests
  <1>5. pending \subseteq Requests /\ \A q \in Requests : q \in Nat
    BY CopyParts, RequestsFinite
  <1>6. OneLife'
    <2>1. ASSUME NEW x \in pending' PROVE leases'[x] = NoLease /\ x <= spent'.requests
      BY <1>1, <1>4, <1>5 DEF GovInv, OneLife
    <2>2. ASSUME NEW x \in Leased' PROVE x <= spent'.requests
      BY <1>1, <1>4, <1>5 DEF GovInv, OneLife, Leased
    <2>3. r \notin pending /\ leases[r] = NoLease
      BY <1>1, <1>4 DEF GovInv, OneLife, Leased
    <2>4. \A q \in Processes \ {p} : ops'[q] = ops[q]
      BY <1>1 DEF GovInv, Shape
    <2>5. \A q \in Processes \ {p} : ops[q].kind = "submit" =>
              ops[q].req \in Requests /\ ops[q].req <= spent.requests
      BY DEF GovInv, OneLife, Legal
    <2>6. ops'[p] = op
      BY <1>1 DEF GovInv, Shape
    <2>7. ASSUME NEW q \in Processes, ops'[q].kind = "submit"
          PROVE  /\ ops'[q].req \notin pending' /\ leases'[ops'[q].req] = NoLease
                 /\ ops'[q].req <= spent'.requests
                 /\ \A o \in Processes \ {q} : ops'[o].kind = "submit" => ops'[o].req # ops'[q].req
      <3>1. CASE q = p
        BY <1>1, <1>2, <1>4, <1>5, <2>3, <2>4, <2>5, <2>6, <2>7, <3>1
      <3>2. CASE q # p
        <4>1. ops'[q] = ops[q] /\ ops[q].kind = "submit" /\ ops[q].req <= spent.requests
              /\ ops[q].req \in Nat
          BY <1>5, <2>4, <2>5, <2>7, <3>2
        <4>2. ops'[q].req <= spent'.requests /\ ops'[q].req # r
          BY <1>1, <1>4, <4>1
        <4>3. \A o \in Processes \ {q} : ops'[o].kind = "submit" => ops'[o].req # ops'[q].req
          BY <1>2, <2>4, <2>6, <4>1, <4>2 DEF GovInv, OneLife
        <4> QED
          BY <1>1, <4>1, <4>2, <4>3 DEF GovInv, OneLife
      <3> QED
        BY <3>1, <3>2
    <2> QED
      BY <2>1, <2>2, <2>7 DEF OneLife
  <1>7. Durable' = Durable /\ Coherent(Durable.accounts, accounts)
    BY <1>1, CoherentSelf, CopyParts DEF Durable
  <1> QED
    BY <1>1, <1>3, <1>4, <1>6, <1>7, Assemble, CopyParts

LEMMA PutStep ==
  ASSUME GovInv, NEW p \in Processes, SubmitPut(p)
  PROVE  GovInv'
  <1> DEFINE r == ops[p].req
             copy == [state[p] EXCEPT !.pending = @ \cup {r}]
  <1>1. /\ ops[p].kind = "submit" /\ pending' = pending \cup {r} /\ ops' = [ops EXCEPT ![p] = Idle]
        /\ state' = [state EXCEPT ![p].pending = @ \cup {r}]
        /\ asked' = [asked EXCEPT ![p] = @ \cup {r}]
        /\ UNCHANGED <<accounts, leases, held, now, spent>>
    BY DEF SubmitPut, Goto
  <1>2. r \in Requests
    BY <1>1 DEF GovInv, Legal
  <1>3. copy \in Copy /\ copy.accounts = state[p].accounts
    BY <1>2, CopyParts DEF Copy
  <1>4. Durable' \in Copy
    BY <1>1, <1>2, CopyParts DEF Durable, Copy
  <1>5. Frame
    BY <1>1, <1>2 DEF Frame, GovInv, Shape, TypeOK
  <1>6. state' = [state EXCEPT ![p] = copy]
    BY <1>1 DEF GovInv, Shape, TypeOK
  <1>7. OneLife'
    <2>1. leases[r] = NoLease /\ r <= spent.requests
      BY <1>1 DEF GovInv, OneLife
    <2>2. ASSUME NEW x \in pending' PROVE leases'[x] = NoLease /\ x <= spent'.requests
      BY <1>1, <2>1 DEF GovInv, OneLife
    <2>3. ASSUME NEW x \in Leased' PROVE x <= spent'.requests
      BY <1>1 DEF GovInv, OneLife, Leased
    <2>4. \A q \in Processes : ops'[q].kind = "submit" => q # p /\ ops'[q] = ops[q]
      BY <1>1 DEF GovInv, Shape, Idle
    <2>5. ASSUME NEW q \in Processes, ops'[q].kind = "submit"
          PROVE  /\ ops'[q].req \notin pending' /\ leases'[ops'[q].req] = NoLease
                 /\ ops'[q].req <= spent'.requests
                 /\ \A o \in Processes \ {q} : ops'[o].kind = "submit" => ops'[o].req # ops'[q].req
      <3>1. q # p /\ ops'[q] = ops[q] /\ ops[q].req # r
        BY <1>1, <2>4, <2>5 DEF GovInv, OneLife
      <3> QED
        BY <1>1, <2>4, <2>5, <3>1 DEF GovInv, OneLife
    <2> QED
      BY <2>2, <2>3, <2>5 DEF OneLife
  <1>8. Legal(Idle, copy.accounts)
    BY RestingIsLegal, IdleIsResting
  <1> HIDE DEF copy, r
  <1> QED
    BY <1>1, <1>3, <1>4, <1>5, <1>6, <1>7, <1>8, Assemble, CopyParts

-----------------------------------------------------------------------------
(* The steps that are local to a process.                                  *)
LEMMA FrameKept ==
  ASSUME GovInv, UNCHANGED <<asked, held, now, spent>>
  PROVE  Frame /\ spent'.requests = spent.requests
  BY DEF Frame, GovInv, Shape, TypeOK

LEMMA StayStep ==
  ASSUME GovInv, NEW p \in Processes, NEW op, ops' = [ops EXCEPT ![p] = op],
         UNCHANGED <<accounts, pending, leases, state>>, Frame, spent'.requests = spent.requests,
         Resting(op)
  PROVE  GovInv'
  <1>1. state' = [state EXCEPT ![p] = state[p]]
    BY DEF GovInv, Shape, TypeOK
  <1>2. Legal(op, state[p].accounts) /\ op.kind # "submit"
    BY RestingIsLegal DEF Resting
  <1> QED
    BY <1>1, <1>2, LocalStep

LEMMA LookStep ==
  ASSUME GovInv, NEW p \in Processes, NEW op, ops' = [ops EXCEPT ![p] = op],
         refresh_durable_state(p),
         UNCHANGED <<accounts, pending, leases>>, Frame, spent'.requests = spent.requests,
         Legal(op, accounts), op.kind # "submit"
  PROVE  GovInv'
  <1>1. state' = [state EXCEPT ![p] = Durable] /\ Durable.accounts = accounts
    BY DEF refresh_durable_state, Durable
  <1> QED
    BY <1>1, LocalStep

LEMMA AttemptStep ==
  ASSUME GovInv, NEW p \in Processes, NEW r \in Requests, NEW tries \in Nat,
         Attempt(p, r, tries), UNCHANGED <<accounts, pending, leases>>,
         Frame, spent'.requests = spent.requests
  PROVE  GovInv'
  <1> DEFINE take == Call("grant", r, tries)
             drop == Call("delete", r, tries)
             op == IF r \notin pending THEN Idle
                   ELSE IF Exhausted(Durable, r, "slots") = {} THEN take
                   ELSE IF Fails(Durable, r, "slots") THEN drop ELSE Idle
  <1>1. ops' = [ops EXCEPT ![p] = op] /\ refresh_durable_state(p)
    BY DEF Attempt, Goto, Call
  <1>2. take \in Op /\ take.kind = "grant" /\ take.req = r
    BY CallIsOp
  <1>3. drop \in Op /\ drop.kind = "delete" /\ drop.req = r
    BY CallIsOp
  <1>4. Exhausted(Durable, r, "slots") = {} => Affordable(accounts, r, "slots")
    <2>1. Durable.accounts = accounts /\ "slots" \in Kinds
      BY DEF Durable, Kinds
    <2> QED
      BY <2>1, NothingExhausted, CopyParts
  <1>5. Legal(Idle, accounts) /\ Idle.kind = "idle"
    BY RestingIsLegal, IdleIsResting DEF Idle
  <1> HIDE DEF take, drop
  <1>6. Legal(drop, accounts)
    BY <1>3 DEF Legal
  <1>7. Affordable(accounts, r, "slots") => Legal(take, accounts)
    BY <1>2 DEF Legal
  <1>8. Legal(op, accounts) /\ op.kind # "submit"
    BY <1>2, <1>3, <1>4, <1>5, <1>6, <1>7
  <1> HIDE DEF op
  <1> QED
    BY <1>1, <1>8, LookStep

LEMMA BeginStep ==
  ASSUME GovInv, NEW p \in Processes, NEW r \in Requests, NEW tries \in Nat,
         NEW kind \in {"release", "heartbeat"},
         Begin(p, kind, r, tries), UNCHANGED <<accounts, pending, leases>>,
         Frame, spent'.requests = spent.requests
  PROVE  GovInv'
  <1> DEFINE call == Call(kind, r, tries)
             op == IF r \in Leased THEN call ELSE Idle
  <1>1. ops' = [ops EXCEPT ![p] = op] /\ refresh_durable_state(p)
    BY DEF Begin, Goto, Call
  <1>2. call \in Op /\ call.kind = kind /\ call.req = r
    <2>1. kind \in {"submit", "grant", "delete", "release", "heartbeat", "usage"}
      OBVIOUS
    <2> QED
      BY <2>1, CallIsOp
  <1>3. Legal(Idle, accounts) /\ Idle.kind = "idle"
    BY RestingIsLegal, IdleIsResting DEF Idle
  <1> HIDE DEF call
  <1>4. Legal(call, accounts)
    BY <1>2 DEF Legal
  <1>5. Legal(op, accounts) /\ op.kind # "submit"
    BY <1>2, <1>3, <1>4
  <1> HIDE DEF op
  <1> QED
    BY <1>1, <1>5, LookStep

LEMMA MeterStep ==
  ASSUME GovInv, NEW p \in Processes, NEW r \in Requests, NEW tries \in Nat,
         Meter(p, r, tries), UNCHANGED <<accounts, pending, leases>>,
         Frame, spent'.requests = spent.requests
  PROVE  GovInv'
  <1> DEFINE call == Call("usage", r, tries)
             op == IF Exhausted(Durable, r, "tokens") = {} THEN call ELSE Idle
  <1>1. ops' = [ops EXCEPT ![p] = op] /\ refresh_durable_state(p)
    BY DEF Meter, Goto, Call
  <1>2. call \in Op /\ call.kind = "usage" /\ call.req = r
    BY CallIsOp
  <1>3. Legal(Idle, accounts) /\ Idle.kind = "idle"
    BY RestingIsLegal, IdleIsResting DEF Idle
  <1>4. Exhausted(Durable, r, "tokens") = {} => Affordable(accounts, r, "tokens")
    <2>1. Durable.accounts = accounts /\ "tokens" \in Kinds
      BY DEF Durable, Kinds
    <2> QED
      BY <2>1, NothingExhausted, CopyParts
  <1> HIDE DEF call
  <1>5. Affordable(accounts, r, "tokens") => Legal(call, accounts)
    BY <1>2 DEF Legal
  <1>6. Legal(op, accounts) /\ op.kind # "submit"
    BY <1>2, <1>3, <1>4, <1>5
  <1> HIDE DEF op
  <1> QED
    BY <1>1, <1>6, LookStep

-----------------------------------------------------------------------------
(* The actions.                                                            *)
LEMMA GiveUpStep ==
  ASSUME GovInv, NEW p \in Processes, GiveUp(p),
         UNCHANGED <<accounts, pending, leases, asked, held, now, spent>>
  PROVE  GovInv'
  <1>1. ops' = [ops EXCEPT ![p] = Idle] /\ UNCHANGED state
    BY DEF GiveUp, Goto
  <1> QED
    BY <1>1, StayStep, IdleIsResting, FrameKept

LEMMA RetryStep ==
  ASSUME GovInv, NEW p \in Processes, Retry(p), ops[p].req \in Requests,
         UNCHANGED <<accounts, pending, leases, asked, held, now, spent>>
  PROVE  GovInv'
  <1>1. Attempt(p, ops[p].req, ops[p].tries + 1) /\ ops[p].tries + 1 \in Nat
    BY DEF Retry, GovInv, Shape, Op
  <1> QED
    BY <1>1, AttemptStep, FrameKept

LEMMA GrantKeeps == ASSUME GovInv, NEW p \in Processes, Grant(p) PROVE GovInv'
  <1> DEFINE r == ops[p].req
  <1>0. ops[p].kind = "grant"
    BY DEF Grant
  <1>1. r \in Requests /\ Affordable(state[p].accounts, r, "slots")
    BY <1>0 DEF GovInv, Legal
  <1>2. CASE GrantOf(p, r) /\ held' = [held EXCEPT ![p] = @ \cup {r}] /\ Goto(p, Idle)
    <2>1. ops' = [ops EXCEPT ![p] = Idle] /\ UNCHANGED <<asked, now, spent>>
      BY <1>2 DEF Goto, Grant
    <2>2. Frame /\ spent'.requests = spent.requests
      BY <1>1, <1>2, <2>1 DEF Frame, GovInv, Shape, TypeOK
    <2> HIDE DEF r
    <2> QED
      BY <1>1, <1>2, <2>1, <2>2, GrantStep, IdleIsResting
  <1>3. CASE (Retry(p) \/ GiveUp(p)) /\ UNCHANGED <<accounts, pending, leases, held>>
    <2>1. UNCHANGED <<asked, now, spent>>
      BY DEF Grant
    <2> QED
      BY <1>1, <1>3, <2>1, RetryStep, GiveUpStep
  <1> QED
    BY <1>2, <1>3 DEF Grant

LEMMA DeletePendingKeeps == ASSUME GovInv, NEW p \in Processes, DeletePending(p) PROVE GovInv'
  <1> DEFINE r == ops[p].req
  <1>0. ops[p].kind = "delete" /\ UNCHANGED <<accounts, leases, asked, held, now, spent>>
    BY DEF DeletePending
  <1>1. r \in Requests
    BY <1>0 DEF GovInv, Legal
  <1>2. CASE /\ pending' = pending \ {r} /\ state' = [state EXCEPT ![p].pending = @ \ {r}]
             /\ Goto(p, Idle)
    <2>1. ops' = [ops EXCEPT ![p] = Idle]
      BY <1>2 DEF Goto
    <2> HIDE DEF r
    <2> QED
      BY <1>0, <1>2, <2>1, DeleteStep, IdleIsResting, FrameKept
  <1>3. CASE (Retry(p) \/ GiveUp(p)) /\ UNCHANGED pending
    BY <1>0, <1>1, <1>3, RetryStep, GiveUpStep
  <1> QED
    BY <1>2, <1>3 DEF DeletePending

LEMMA AgainStep ==
  ASSUME GovInv, NEW p \in Processes, Again(p), ops[p].req \in Requests,
         ops[p].kind \in {"release", "heartbeat"},
         UNCHANGED <<accounts, pending, leases, asked, held, now, spent>>
  PROVE  GovInv'
  <1>1. Begin(p, ops[p].kind, ops[p].req, ops[p].tries + 1) /\ ops[p].tries + 1 \in Nat
    BY DEF Again, GovInv, Shape, Op
  <1> QED
    BY <1>1, BeginStep, FrameKept

LEMMA ReleaseKeeps == ASSUME GovInv, NEW p \in Processes, Release(p) PROVE GovInv'
  <1> DEFINE r == ops[p].req
  <1>0. ops[p].kind = "release" /\ UNCHANGED <<pending, asked, held, now, spent>>
    BY DEF Release
  <1>1. r \in Requests
    BY <1>0 DEF GovInv, Legal
  <1>2. CASE release_locked(p, r) /\ Goto(p, Idle)
    <2>1. ops' = [ops EXCEPT ![p] = Idle]
      BY <1>2 DEF Goto
    <2> HIDE DEF r
    <2> QED
      BY <1>0, <1>1, <1>2, <2>1, ReleaseStep, IdleIsResting, FrameKept
  <1>3. CASE (Again(p) \/ GiveUp(p)) /\ UNCHANGED <<accounts, leases>>
    BY <1>0, <1>1, <1>3, AgainStep, GiveUpStep
  <1> QED
    BY <1>2, <1>3 DEF Release

LEMMA HeartbeatKeeps == ASSUME GovInv, NEW p \in Processes, Heartbeat(p) PROVE GovInv'
  <1> DEFINE r == ops[p].req
             lease == [expires_at |-> now + Timeout, revision |-> leases[r].revision + 1]
  <1>0. ops[p].kind = "heartbeat" /\ UNCHANGED <<accounts, pending, asked, held, now, spent>>
    BY DEF Heartbeat
  <1>1. r \in Requests
    BY <1>0 DEF GovInv, Legal
  <1>2. CASE /\ LeaseIs(p, r) /\ leases' = [leases EXCEPT ![r] = lease]
             /\ state' = [state EXCEPT ![p].leases[r] = lease] /\ Goto(p, Idle)
    <2>1. ops' = [ops EXCEPT ![p] = Idle] /\ leases[r] # NoLease
      BY <1>2 DEF Goto, LeaseIs, Leased
    <2>2. lease \in Lease
      <3>1. leases[r] \in Lease
        BY <1>1, <2>1, CopyParts
      <3>2. leases[r].revision + 1 \in Nat /\ now + Timeout \in Nat
        <4>1. leases[r].revision \in Nat
          BY <3>1 DEF Lease
        <4>2. now \in Nat /\ Timeout \in Nat
          BY GovernorAssumption DEF GovInv, Shape
        <4> QED
          BY <4>1, <4>2
      <3> QED
        BY <3>2 DEF Lease
    <2> HIDE DEF r, lease
    <2> QED
      BY <1>0, <1>1, <1>2, <2>1, <2>2, RenewStep, IdleIsResting, FrameKept
  <1>3. CASE (Again(p) \/ GiveUp(p)) /\ UNCHANGED leases
    BY <1>0, <1>1, <1>3, AgainStep, GiveUpStep
  <1> QED
    BY <1>2, <1>3 DEF Heartbeat

LEMMA UsageKeeps == ASSUME GovInv, NEW p \in Processes, Usage(p) PROVE GovInv'
  <1> DEFINE r == ops[p].req
  <1>0. ops[p].kind = "usage" /\ UNCHANGED <<pending, leases, asked, held, now, spent>>
    BY DEF Usage
  <1>1. r \in Requests /\ Affordable(state[p].accounts, r, "tokens") /\ ops[p].tries + 1 \in Nat
    BY <1>0 DEF GovInv, Legal, Op
  <1>2. CASE /\ Unchanged(p, r, "tokens") /\ accounts' = Charge(accounts, r, "tokens", 1)
             /\ state' = [state EXCEPT ![p].accounts = Charge(@, r, "tokens", 1)]
             /\ Goto(p, Idle)
    <2>1. ops' = [ops EXCEPT ![p] = Idle]
      BY <1>2 DEF Goto
    <2> HIDE DEF r
    <2> QED
      BY <1>0, <1>1, <1>2, <2>1, UsageStep, IdleIsResting, FrameKept
  <1>3. CASE Meter(p, r, ops[p].tries + 1) /\ UNCHANGED accounts
    BY <1>0, <1>1, <1>3, MeterStep, FrameKept
  <1>4. CASE GiveUp(p) /\ UNCHANGED accounts
    BY <1>0, <1>4, GiveUpStep
  <1> QED
    BY <1>2, <1>3, <1>4 DEF Usage

LEMMA DecideKeeps ==
  ASSUME GovInv, NEW p \in Processes, NEW r \in Requests, Decide(p, r),
         ops[p].kind = "schedule", UNCHANGED <<asked, now, spent>>
  PROVE  GovInv'
  <1> DEFINE next == [ops[p] EXCEPT !.tries = @ + 1, !.todo = @ \cup {r}]
             won == [next EXCEPT !.got = @ \cup {r}]
  <1>1. Resting(next) /\ Resting(won)
    <2>1. ops[p] \in Op
      BY DEF GovInv, Shape
    <2>2. next \in Op /\ next.kind = "schedule"
      <3>1. ops[p].tries + 1 \in Nat /\ ops[p].todo \cup {r} \in SUBSET Requests
        BY <2>1 DEF Op
      <3> QED
        BY <2>1, <3>1 DEF Op
    <2> HIDE DEF next
    <2>3. won \in Op /\ won.kind = "schedule"
      BY <2>2 DEF Op
    <2> QED
      BY <2>2, <2>3 DEF Resting
  <1>2. Frame /\ spent'.requests = spent.requests
    <2>1. UNCHANGED held
      BY DEF Decide
    <2> QED
      BY <2>1, FrameKept
  <1>3. \/ /\ Exhausted(state[p], r, "slots") = {}
           /\ GrantOf(p, r) /\ Goto(p, won)
        \/ Goto(p, Idle) /\ UNCHANGED <<accounts, pending, leases, state>>
        \/ /\ pending' = pending \ {r} /\ state' = [state EXCEPT ![p].pending = @ \ {r}]
           /\ Goto(p, next) /\ UNCHANGED <<accounts, leases>>
        \/ Goto(p, next) /\ UNCHANGED <<accounts, pending, leases, state>>
    BY Zenon DEF Decide
  <1> HIDE DEF next, won
  <1>4. CASE Exhausted(state[p], r, "slots") = {} /\ GrantOf(p, r) /\ Goto(p, won)
    <2>1. ops' = [ops EXCEPT ![p] = won]
      BY <1>4 DEF Goto
    <2>2. Affordable(state[p].accounts, r, "slots")
      <3>1. "slots" \in Kinds
        BY DEF Kinds
      <3> QED
        BY <1>4, <3>1, NothingExhausted, CopyParts
    <2> QED
      BY <1>1, <1>2, <1>4, <2>1, <2>2, GrantStep
  <1>5. CASE Goto(p, Idle) /\ UNCHANGED <<accounts, pending, leases, state>>
    BY <1>2, <1>5, StayStep, IdleIsResting DEF Goto
  <1>6. CASE /\ pending' = pending \ {r} /\ state' = [state EXCEPT ![p].pending = @ \ {r}]
             /\ Goto(p, next) /\ UNCHANGED <<accounts, leases>>
    BY <1>1, <1>2, <1>6, DeleteStep DEF Goto
  <1>7. CASE Goto(p, next) /\ UNCHANGED <<accounts, pending, leases, state>>
    BY <1>1, <1>2, <1>7, StayStep DEF Goto
  <1> QED
    BY <1>3, <1>4, <1>5, <1>6, <1>7

LEMMA ScheduleKeeps == ASSUME GovInv, NEW p \in Processes, Schedule(p) PROVE GovInv'
  <1>0. ops[p].kind = "schedule" /\ UNCHANGED <<asked, now, spent>>
    BY DEF Schedule
  <1>1. CASE /\ held' = [held EXCEPT ![p] = @ \cup ops[p].got] /\ Goto(p, Idle)
             /\ UNCHANGED <<accounts, pending, leases, state>>
    <2>1. Frame /\ spent'.requests = spent.requests
      <3>1. ops[p].got \subseteq Requests
        BY DEF GovInv, Shape, Op
      <3> QED
        BY <1>0, <1>1, <3>1 DEF Frame, GovInv, Shape, TypeOK
    <2> QED
      BY <1>1, <2>1, StayStep, IdleIsResting DEF Goto
  <1>2. CASE \E r \in Requests : Decide(p, r)
    BY <1>0, <1>2, DecideKeeps
  <1> QED
    BY <1>1, <1>2 DEF Schedule

LEMMA DieKeeps ==
  ASSUME GovInv, NEW p \in Processes, Die(p), now' \in Nat, spent'.requests = spent.requests,
         spent' \in [requests : Nat, crashes : Nat, usage : Nat]
  PROVE  GovInv'
  <1>1. /\ ops' = [ops EXCEPT ![p] = Down] /\ UNCHANGED <<accounts, pending, leases, state>>
        /\ asked' = [asked EXCEPT ![p] = {}] /\ held' = [held EXCEPT ![p] = {}]
    BY DEF Die, Goto
  <1>2. Frame
    BY <1>1 DEF Frame, GovInv, Shape, TypeOK
  <1> QED
    BY <1>1, <1>2, StayStep, IdleIsResting

LEMMA ReclaimKeeps == ASSUME GovInv, NEW p \in Processes, Reclaim(p) PROVE GovInv'
  <1>0. ops[p].kind = "reclaim" /\ UNCHANGED <<now, spent>>
    BY DEF Reclaim
  <1>1. PICK r \in ops[p].todo :
          \/ /\ release_locked(p, r)
             /\ Goto(p, IF ops[p].todo = {r} THEN Idle ELSE [ops[p] EXCEPT !.todo = @ \ {r}])
             /\ UNCHANGED <<pending, asked, held>>
          \/ Die(p)
    BY DEF Reclaim
  <1>2. ops[p] \in Op /\ r \in Requests
    BY DEF GovInv, Shape, Op
  <1>3. CASE /\ release_locked(p, r)
             /\ Goto(p, IF ops[p].todo = {r} THEN Idle ELSE [ops[p] EXCEPT !.todo = @ \ {r}])
             /\ UNCHANGED <<pending, asked, held>>
    <2> DEFINE rest == [ops[p] EXCEPT !.todo = @ \ {r}]
               op == IF ops[p].todo = {r} THEN Idle ELSE rest
    <2>1. Resting(rest)
      BY <1>0, <1>2 DEF Resting, Op
    <2>2. ops' = [ops EXCEPT ![p] = op]
      BY <1>3 DEF Goto
    <2> HIDE DEF rest
    <2>3. Resting(op)
      BY <2>1, IdleIsResting
    <2> HIDE DEF op
    <2> QED
      BY <1>0, <1>2, <1>3, <2>2, <2>3, ReleaseStep, FrameKept
  <1>4. CASE Die(p)
    BY <1>0, <1>4, DieKeeps DEF GovInv, Shape
  <1> QED
    BY <1>1, <1>3, <1>4

LEMMA CallerKeeps ==
  ASSUME GovInv, NEW p \in Processes, Caller(p) \/ reclaim_idle(p) \/ open(p)
  PROVE  GovInv'
  <1>1. CASE schedule(p)
    <2> DEFINE op == [Idle EXCEPT !.kind = "schedule"]
    <2>1. /\ ops' = [ops EXCEPT ![p] = op] /\ refresh_durable_state(p)
          /\ UNCHANGED <<accounts, pending, leases, asked, held, now, spent>>
      BY <1>1 DEF schedule, Goto
    <2>2. Resting(op)
      BY IdleIsResting DEF Resting, Idle, Op
    <2> HIDE DEF op
    <2>3. Legal(op, accounts) /\ op.kind # "submit"
      BY <2>2, RestingIsLegal DEF Resting
    <2> QED
      BY <2>1, <2>3, LookStep, FrameKept
  <1>2. ASSUME NEW r \in Requests, submit(p, r) PROVE GovInv'
    BY <1>2, SubmitStep
  <1>3. ASSUME NEW r \in Requests, schedule_request(p, r) PROVE GovInv'
    <2>1. Attempt(p, r, 0) /\ UNCHANGED <<accounts, pending, leases, asked, held, now, spent>>
      BY <1>3 DEF schedule_request
    <2> QED
      BY <2>1, AttemptStep, FrameKept
  <1>4. ASSUME NEW r \in Requests, release(p, r) PROVE GovInv'
    <2>1. /\ Begin(p, "release", r, 0) /\ held' = [held EXCEPT ![p] = @ \ {r}]
          /\ UNCHANGED <<accounts, pending, leases, asked, now, spent>>
      BY <1>4 DEF release
    <2>2. Frame /\ spent'.requests = spent.requests
      BY <2>1 DEF Frame, GovInv, Shape, TypeOK
    <2> QED
      BY <2>1, <2>2, BeginStep
  <1>5. ASSUME NEW r \in Requests, heartbeat(p, r) PROVE GovInv'
    <2>1. Begin(p, "heartbeat", r, 0) /\ UNCHANGED <<accounts, pending, leases, asked, held, now, spent>>
      BY <1>5 DEF heartbeat
    <2> QED
      BY <2>1, BeginStep, FrameKept
  <1>6. ASSUME NEW r \in Requests, record_usage(p, r) PROVE GovInv'
    <2>1. /\ Meter(p, r, 0) /\ spent' = [spent EXCEPT !.usage = @ + 1]
          /\ UNCHANGED <<accounts, pending, leases, asked, held, now>>
      BY <1>6 DEF record_usage
    <2>2. Frame /\ spent'.requests = spent.requests
      BY <2>1 DEF Frame, GovInv, Shape, TypeOK
    <2> QED
      BY <2>1, <2>2, MeterStep
  <1>7. CASE reclaim_idle(p)
    <2> DEFINE op == [Idle EXCEPT !.kind = "reclaim", !.todo = Expired(state[p])]
    <2>1. /\ ops' = [ops EXCEPT ![p] = op]
          /\ UNCHANGED <<accounts, pending, leases, state, asked, held, now, spent>>
      BY <1>7 DEF reclaim_idle, Goto
    <2>2. Resting(op)
      <3>1. Expired(state[p]) \subseteq Requests
        BY GovernorAssumption DEF Expired
      <3> QED
        BY <3>1, IdleIsResting DEF Resting, Idle, Op
    <2> HIDE DEF op
    <2> QED
      BY <2>1, <2>2, StayStep, FrameKept
  <1>8. CASE open(p)
    <2>1. /\ ops' = [ops EXCEPT ![p] = Idle] /\ refresh_durable_state(p)
          /\ UNCHANGED <<accounts, pending, leases, asked, held, now, spent>>
      BY <1>8 DEF open, Goto
    <2>2. Legal(Idle, accounts) /\ Idle.kind # "submit"
      BY IdleIsResting, RestingIsLegal DEF Idle
    <2> QED
      BY <2>1, <2>2, LookStep, FrameKept
  <1> QED
    BY <1>1, <1>2, <1>3, <1>4, <1>5, <1>6, <1>7, <1>8 DEF Caller

LEMMA GovNext == ASSUME GovInv, [Next]_vars PROVE GovInv'
  <1>1. ASSUME NEW p \in Processes, Step(p) PROVE GovInv'
    BY <1>1, PutStep, GrantKeeps, DeletePendingKeeps, ReleaseKeeps, HeartbeatKeeps, UsageKeeps,
       ScheduleKeeps, ReclaimKeeps, CallerKeeps DEF Step
  <1>2. ASSUME NEW p \in Processes, Caller(p) \/ reclaim_idle(p) PROVE GovInv'
    BY <1>2, CallerKeeps
  <1>3. ASSUME NEW p \in Processes, Crash(p) PROVE GovInv'
    <2>1. Die(p) /\ spent' = [spent EXCEPT !.crashes = @ + 1] /\ UNCHANGED now
      BY <1>3 DEF Crash
    <2>2. /\ now' \in Nat /\ spent'.requests = spent.requests
          /\ spent' \in [requests : Nat, crashes : Nat, usage : Nat]
      BY <2>1 DEF GovInv, Shape
    <2> QED
      BY <2>1, <2>2, DieKeeps
  <1>4. CASE Tick \/ UNCHANGED vars
    <2>1. /\ UNCHANGED <<accounts, pending, leases, state, ops, asked, held, spent>>
          /\ now' \in Nat
      BY <1>4 DEF Tick, vars, GovInv, Shape
    <2>2. Shape' /\ OneLife' /\ AccountsBalance'
      BY <2>1 DEF GovInv, Shape, TypeOK, Durable, OneLife, Leased, AccountsBalance, InUse
    <2>3. \A p \in Processes : Legal(ops[p], state[p].accounts)' /\ Coherent(state[p].accounts, accounts)'
      BY <2>1 DEF GovInv, Legal, Affordable, Coherent
    <2> QED
      BY <2>2, <2>3 DEF GovInv
  <1> QED
    BY <1>1, <1>2, <1>3, <1>4 DEF Next

LEMMA GovInit == ASSUME Init PROVE GovInv
  <1>1. accounts \in [Accounts -> Account] /\ leases \in [Requests -> Lease \cup {NoLease}]
    BY DEF Init, Account
  <1>2. Durable \in Copy /\ \A p \in Processes : state[p] = Durable
    BY <1>1 DEF Init, Durable, Copy
  <1>3. ops \in [Processes -> Op] /\ \A p \in Processes : ops[p] = Idle
    BY IdleIsResting DEF Init, Resting
  <1>4. Shape
    BY <1>2, <1>3 DEF Shape, TypeOK, Init
  <1>5. OneLife
    BY <1>3 DEF OneLife, Init, Leased, Idle
  <1>6. Balanced(accounts, leases)
    <2>1. ASSUME NEW s \in Scopes PROVE Cardinality(Occupants(leases, s)) = 0
      <3>1. Occupants(leases, s) = {}
        BY DEF Occupants, Init
      <3> QED
        BY <3>1, FS_EmptySet
    <2>2. ASSUME NEW s \in Scopes, NEW k \in Kinds
          PROVE  accounts[<<s, k>>].used = 0 /\ Ceiling[<<s, k>>] \in Nat
      <3>1. <<s, k>> \in Accounts
        BY DEF Accounts
      <3> QED
        BY <3>1, GovernorAssumption DEF Init
    <2>3. \A s \in Scopes : accounts[<<s, "slots">>].used = Cardinality(Occupants(leases, s))
      BY <2>1, <2>2 DEF Kinds
    <2>4. ASSUME NEW s \in Scopes, NEW k \in Kinds
          PROVE  accounts[<<s, k>>].used <= Ceiling[<<s, k>>]
      <3>1. accounts[<<s, k>>].used = 0 /\ Ceiling[<<s, k>>] \in Nat
        BY <2>2
      <3> QED
        BY <3>1
    <2> QED
      BY <2>3, <2>4 DEF Balanced
  <1>7. Coherent(accounts, accounts) /\ Durable.accounts = accounts /\ Legal(Idle, accounts)
    BY <1>1, CoherentSelf, IdleIsResting, RestingIsLegal DEF Durable
  <1> QED
    BY <1>2, <1>3, <1>4, <1>5, <1>6, <1>7, BalanceOfLeases DEF GovInv

(* The invariant holds for any number of processes, however their copies   *)
(* age and wherever a process dies (grant, release_locked, record_usage).  *)
THEOREM GovernorInvariant == Spec => []GovInv
  <1>1. Init => GovInv
    BY GovInit
  <1>2. GovInv /\ [Next]_vars => GovInv'
    BY GovNext
  <1> QED
    BY <1>1, <1>2, PTL DEF Spec

(* No counter of the governor goes below zero (checked_sub).               *)
THEOREM GovernorTyped == Spec => []TypeOK
  <1>1. GovInv => TypeOK
    BY DEF GovInv, Shape
  <1> QED
    BY <1>1, GovernorInvariant, PTL

(* What a scope has in use is what its leases occupy, and no ceiling is    *)
(* exceeded: the revisions of the accounts make the check against a stale  *)
(* copy safe (grant, release_locked, record_usage).                        *)
THEOREM GovernorBalances == Spec => []AccountsBalance
  <1>1. GovInv => AccountsBalance
    BY DEF GovInv
  <1> QED
    BY <1>1, GovernorInvariant, PTL

-----------------------------------------------------------------------------
(* The queues.  A process that passed the check of the ceiling and has not *)
(* put its request yet counts as if it had: with them the requests of set  *)
(* B in the queue of scope s exceed their bound b by less than the number  *)
(* of processes.                                                           *)
Putting(s, B) ==
  {p \in Processes : /\ ops[p].kind = "submit"
                     /\ ops[p].req \in B /\ s \in ScopesOf(ops[p].req)}

Crowd(s, B, b) ==
  Cardinality(Queued(s) \cap B) + Cardinality(Putting(s, B)) < b + Cardinality(Processes)

Kept(s) == Max({0, QueueMax[s] - Reserve[s]})

QueueInv ==
  \A s \in Scopes : Crowd(s, Requests, QueueMax[s]) /\ Crowd(s, Background, Kept(s))

LEMMA KeptBound ==
  ASSUME NEW s \in Scopes
  PROVE  QueueMax[s] \in Nat /\ Kept(s) \in Nat /\ Kept(s) <= QueueMax[s]
  <1> DEFINE x == QueueMax[s] - Reserve[s]
  <1>1. QueueMax[s] \in Nat /\ Reserve[s] \in Nat
    BY GovernorAssumption
  <1>2. x \in Int /\ x <= QueueMax[s]
    <2>1. \A m, n \in Nat : m - n \in Int /\ m - n <= m
      OBVIOUS
    <2> QED
      BY <1>1, <2>1
  <1> HIDE DEF x
  <1>3. \E m \in {0, x} : \A y \in {0, x} : m >= y
    BY <1>2
  <1>4. Max({0, x}) \in {0, x} /\ \A y \in {0, x} : Max({0, x}) >= y
    BY <1>3 DEF Max
  <1>5. Max({0, x}) \in Nat /\ Max({0, x}) <= QueueMax[s]
    BY <1>1, <1>2, <1>4
  <1> QED
    BY <1>1, <1>5 DEF Kept, x

(* The size of a part of a finite set, with one element more or less.      *)
LEMMA PartOf ==
  ASSUME NEW T, IsFiniteSet(T), NEW S, S \subseteq T
  PROVE  /\ IsFiniteSet(S) /\ Cardinality(S) \in Nat /\ Cardinality(T) \in Nat
         /\ Cardinality(S) <= Cardinality(T)
  BY FS_Subset, FS_CardinalityType

LEMMA QueueFinite ==
  ASSUME GovInv, NEW s, NEW B
  PROVE  /\ IsFiniteSet(Queued(s) \cap B) /\ Cardinality(Queued(s) \cap B) \in Nat
         /\ IsFiniteSet(Putting(s, B)) /\ Cardinality(Putting(s, B)) \in Nat
         /\ Cardinality(Putting(s, B)) <= Cardinality(Processes) /\ Cardinality(Processes) \in Nat
  <1>1. Queued(s) \cap B \subseteq Requests
    BY CopyParts DEF Queued
  <1>2. Putting(s, B) \subseteq Processes
    BY DEF Putting
  <1> QED
    BY <1>1, <1>2, PartOf, RequestsFinite, GovernorAssumption

(* A step that puts nothing and passes no check.                           *)
LEMMA QuietCrowd ==
  ASSUME GovInv, NEW s, NEW B, NEW b \in Nat, Crowd(s, B, b),
         pending' \subseteq pending, Putting(s, B)' \subseteq Putting(s, B)
  PROVE  Crowd(s, B, b)'
  <1> DEFINE Q == Queued(s) \cap B
             Q1 == Queued(s)' \cap B
             P == Putting(s, B)
             P1 == Putting(s, B)'
  <1>1. Q1 \subseteq Q
    BY DEF Queued
  <1>2. P1 \subseteq P
    OBVIOUS
  <1>3. IsFiniteSet(Q) /\ IsFiniteSet(P) /\ Cardinality(Processes) \in Nat
    BY QueueFinite
  <1>4. Cardinality(Q) + Cardinality(P) < b + Cardinality(Processes)
    BY DEF Crowd
  <1>5. Cardinality(Q1) + Cardinality(P1) < b + Cardinality(Processes)
    <2> HIDE DEF Q, Q1, P, P1
    <2>1. Cardinality(Q1) \in Nat /\ Cardinality(Q) \in Nat /\ Cardinality(Q1) <= Cardinality(Q)
      BY <1>1, <1>3, PartOf
    <2>2. Cardinality(P1) \in Nat /\ Cardinality(P) \in Nat /\ Cardinality(P1) <= Cardinality(P)
      BY <1>2, <1>3, PartOf
    <2> QED
      BY <1>3, <1>4, <2>1, <2>2
  <1> QED
    BY <1>5 DEF Crowd

(* A step that passes the check.                                           *)
LEMMA CheckedCrowd ==
  ASSUME GovInv, GovInv', NEW s, NEW B, NEW b \in Nat,
         UNCHANGED pending, Cardinality(Queued(s) \cap B) < b
  PROVE  Crowd(s, B, b)'
  <1>1. Queued(s)' \cap B = Queued(s) \cap B
    BY DEF Queued
  <1>2. Cardinality(Queued(s) \cap B) \in Nat /\ Cardinality(Processes) \in Nat
    BY QueueFinite
  <1>3. Cardinality(Putting(s, B)') \in Nat /\ Cardinality(Putting(s, B)') <= Cardinality(Processes)
    <2>1. Putting(s, B)' \subseteq Processes
      BY DEF Putting
    <2> QED
      BY <2>1, PartOf, GovernorAssumption
  <1>4. Cardinality(Queued(s) \cap B) + Cardinality(Putting(s, B)') < b + Cardinality(Processes)
    BY <1>2, <1>3
  <1> QED
    BY <1>1, <1>4 DEF Crowd

(* A step that puts the request of a process that had passed it.           *)
LEMMA PutCrowd ==
  ASSUME GovInv, NEW s, NEW B, NEW b \in Nat, Crowd(s, B, b), NEW p \in Processes, SubmitPut(p)
  PROVE  Crowd(s, B, b)'
  <1> DEFINE r == ops[p].req
             Q == Queued(s) \cap B
             Q1 == Queued(s)' \cap B
             P == Putting(s, B)
             P1 == Putting(s, B)'
  <1>1. /\ pending' = pending \cup {r} /\ ops[p].kind = "submit"
        /\ ops'[p].kind # "submit" /\ \A q \in Processes \ {p} : ops'[q] = ops[q]
    BY DEF SubmitPut, Goto, GovInv, Shape, Idle
  <1>2. r \notin pending
    BY <1>1 DEF GovInv, OneLife
  <1>3. IsFiniteSet(Q) /\ IsFiniteSet(P) /\ Cardinality(Processes) \in Nat
        /\ Cardinality(Q) \in Nat /\ Cardinality(P) \in Nat
    BY QueueFinite
  <1>4. Cardinality(Q) + Cardinality(P) < b + Cardinality(Processes)
    BY DEF Crowd
  <1>5. Cardinality(Q1) + Cardinality(P1) < b + Cardinality(Processes)
    <2>1. CASE r \in B /\ s \in ScopesOf(r)
      <3>1. Q1 = Q \cup {r} /\ r \notin Q
        BY <1>1, <1>2, <2>1 DEF Queued
      <3>2. P1 = P \ {p} /\ p \in P
        BY <1>1, <2>1 DEF Putting
      <3> HIDE DEF Q, Q1, P, P1, r
      <3>3. Cardinality(Q \cup {r}) = Cardinality(Q) + 1
        BY <1>3, <3>1, FS_AddElement
      <3>4. Cardinality(P \ {p}) = Cardinality(P) - 1
        BY <1>3, <3>2, FS_RemoveElement
      <3> QED
        BY <1>3, <1>4, <3>1, <3>2, <3>3, <3>4
    <2>2. CASE ~(r \in B /\ s \in ScopesOf(r))
      <3>1. Q1 = Q
        BY <1>1, <2>2 DEF Queued
      <3>2. P1 = P
        BY <1>1, <2>2 DEF Putting
      <3> QED
        BY <1>4, <3>1, <3>2
    <2> QED
      BY <2>1, <2>2
  <1> QED
    BY <1>5 DEF Crowd

LEMMA SubmitCrowd ==
  ASSUME GovInv, GovInv', QueueInv, NEW p \in Processes, NEW r \in Requests, submit(p, r)
  PROVE  QueueInv'
  <1>1. UNCHANGED pending /\ \A q \in Processes \ {p} : ops'[q] = ops[q]
    BY DEF submit, Goto, GovInv, Shape
  <1>2. CASE QueueFull(Durable, r)
    <2>1. ops'[p] = Idle
      BY <1>2 DEF submit, Goto, GovInv, Shape
    <2>2. \A s, B : Putting(s, B)' \subseteq Putting(s, B)
      <3>1. Idle.kind # "submit"
        BY DEF Idle
      <3>2. \A q \in Processes : ops'[q].kind = "submit" => ops'[q] = ops[q]
        BY <1>1, <2>1, <3>1, Zenon
      <3> QED
        BY <3>2 DEF Putting
    <2> QED
      BY <1>1, <2>2, QuietCrowd, KeptBound DEF QueueInv
  <1>3. CASE ~QueueFull(Durable, r)
    <2>1. ops'[p].kind = "submit" /\ ops'[p].req = r
      BY <1>3 DEF submit, Goto, GovInv, Shape, Idle
    <2>2. ASSUME NEW s \in Scopes, NEW B, r \notin B \/ s \notin ScopesOf(r)
          PROVE  Putting(s, B)' \subseteq Putting(s, B)
      BY <1>1, <2>1, <2>2 DEF Putting
    <2>3. ASSUME NEW s \in Scopes, s \in ScopesOf(r)
          PROVE  /\ Cardinality(Queued(s)) < QueueMax[s]
                 /\ r \in Background => Cardinality(Queued(s)) < Kept(s)
      <3>1. Cardinality(Queued(s)) \in Nat
        BY PartOf, RequestsFinite, CopyParts DEF Queued
      <3>2. ~(Cardinality(Queued(s)) >= IF r \in Background THEN Kept(s) ELSE QueueMax[s])
        BY <1>3, <2>3 DEF QueueFull, Queued, Durable, Kept
      <3> QED
        BY <3>1, <3>2, KeptBound
    <2>4. ASSUME NEW s \in Scopes, NEW B
          PROVE  /\ Cardinality(Queued(s) \cap B) \in Nat /\ Cardinality(Queued(s)) \in Nat
                 /\ Cardinality(Queued(s) \cap B) <= Cardinality(Queued(s))
      <3>1. IsFiniteSet(Queued(s))
        BY PartOf, RequestsFinite, CopyParts DEF Queued
      <3> QED
        BY <3>1, PartOf
    <2>5. ASSUME NEW s \in Scopes PROVE Crowd(s, Requests, QueueMax[s])'
      <3>1. CASE s \in ScopesOf(r)
        <4>1. Cardinality(Queued(s) \cap Requests) < QueueMax[s]
          BY <2>3, <2>4, <3>1, KeptBound
        <4> QED
          BY <1>1, <4>1, CheckedCrowd, KeptBound
      <3>2. CASE s \notin ScopesOf(r)
        BY <1>1, <2>2, <3>2, QuietCrowd, KeptBound DEF QueueInv
      <3> QED
        BY <3>1, <3>2
    <2>6. ASSUME NEW s \in Scopes PROVE Crowd(s, Background, Kept(s))'
      <3>1. CASE s \in ScopesOf(r) /\ r \in Background
        <4>1. Cardinality(Queued(s) \cap Background) < Kept(s)
          BY <2>3, <2>4, <3>1, KeptBound
        <4> QED
          BY <1>1, <4>1, CheckedCrowd, KeptBound
      <3>2. CASE ~(s \in ScopesOf(r) /\ r \in Background)
        BY <1>1, <2>2, <3>2, QuietCrowd, KeptBound DEF QueueInv
      <3> QED
        BY <3>1, <3>2
    <2> QED
      BY <2>5, <2>6 DEF QueueInv
  <1> QED
    BY <1>2, <1>3

(* Every other step puts nothing and passes no check.                      *)
Quiet ==
  /\ pending' \subseteq pending
  /\ \A q \in Processes : ops'[q].kind = "submit" => ops'[q] = ops[q]

LEMMA QuietGoto ==
  ASSUME GovInv, NEW p \in Processes, NEW op, Goto(p, op), op.kind # "submit",
         pending' \subseteq pending
  PROVE  Quiet
  BY DEF Goto, Quiet, GovInv, Shape

LEMMA QuietStep ==
  ASSUME GovInv, NEW p \in Processes, Step(p), ~SubmitPut(p)
  PROVE  Quiet
  <1>0. Idle.kind = "idle" /\ Down.kind = "down"
    BY DEF Idle, Down
  <1>1. ASSUME NEW r, NEW tries, Attempt(p, r, tries), UNCHANGED pending PROVE Quiet
    BY <1>0, <1>1, QuietGoto DEF Attempt, Idle
  <1>2. ASSUME NEW kind, NEW r, NEW tries, Begin(p, kind, r, tries), kind # "submit", UNCHANGED pending
        PROVE  Quiet
    BY <1>0, <1>2, QuietGoto DEF Begin, Idle
  <1>3. ASSUME NEW r, NEW tries, Meter(p, r, tries), UNCHANGED pending PROVE Quiet
    BY <1>0, <1>3, QuietGoto DEF Meter, Idle
  <1>4. ASSUME GiveUp(p), UNCHANGED pending PROVE Quiet
    BY <1>0, <1>4, QuietGoto DEF GiveUp
  <1>5. CASE Grant(p)
    <2>1. CASE GrantOf(p, ops[p].req) /\ Goto(p, Idle)
      BY <1>0, <2>1, QuietGoto DEF GrantOf
    <2>2. CASE (Retry(p) \/ GiveUp(p)) /\ UNCHANGED pending
      BY <1>1, <1>4, <2>2 DEF Retry
    <2> QED
      BY <1>5, <2>1, <2>2 DEF Grant
  <1>6. CASE DeletePending(p)
    <2>1. CASE pending' = pending \ {ops[p].req} /\ Goto(p, Idle)
      BY <1>0, <2>1, QuietGoto
    <2>2. CASE (Retry(p) \/ GiveUp(p)) /\ UNCHANGED pending
      BY <1>1, <1>4, <2>2 DEF Retry
    <2> QED
      BY <1>6, <2>1, <2>2 DEF DeletePending
  <1>7. CASE Release(p)
    <2>1. CASE Goto(p, Idle) /\ UNCHANGED pending
      BY <1>0, <2>1, QuietGoto
    <2>2. CASE ops[p].kind = "release" /\ (Again(p) \/ GiveUp(p)) /\ UNCHANGED pending
      BY <1>2, <1>4, <2>2 DEF Again
    <2> QED
      BY <1>7, <2>1, <2>2 DEF Release
  <1>8. CASE Heartbeat(p)
    <2>1. CASE Goto(p, Idle) /\ UNCHANGED pending
      BY <1>0, <2>1, QuietGoto
    <2>2. CASE ops[p].kind = "heartbeat" /\ (Again(p) \/ GiveUp(p)) /\ UNCHANGED pending
      BY <1>2, <1>4, <2>2 DEF Again
    <2> QED
      BY <1>8, <2>1, <2>2 DEF Heartbeat
  <1>9. CASE Usage(p)
    <2>1. CASE Goto(p, Idle) /\ UNCHANGED pending
      BY <1>0, <2>1, QuietGoto
    <2>2. CASE (Meter(p, ops[p].req, ops[p].tries + 1) \/ GiveUp(p)) /\ UNCHANGED pending
      BY <1>3, <1>4, <2>2
    <2> QED
      BY <1>9, <2>1, <2>2 DEF Usage
  <1>10. CASE Schedule(p)
    <2>1. CASE Goto(p, Idle) /\ UNCHANGED pending
      BY <1>0, <2>1, QuietGoto
    <2>2. ASSUME NEW r \in Requests, Decide(p, r), ops[p].kind = "schedule" PROVE Quiet
      <3> DEFINE next == [ops[p] EXCEPT !.tries = @ + 1, !.todo = @ \cup {r}]
                 won == [next EXCEPT !.got = @ \cup {r}]
      <3>1. next.kind = "schedule" /\ won.kind = "schedule"
        BY <2>2 DEF GovInv, Shape, Op
      <3>2. /\ Goto(p, won) \/ Goto(p, next) \/ Goto(p, Idle)
            /\ pending' = pending \ {r} \/ UNCHANGED pending
        BY <2>2, Zenon DEF Decide, GrantOf
      <3> HIDE DEF next, won
      <3> QED
        BY <1>0, <3>1, <3>2, QuietGoto
    <2> QED
      BY <1>10, <2>1, <2>2 DEF Schedule
  <1>11. CASE Reclaim(p)
    <2>1. PICK r \in ops[p].todo :
            \/ /\ Goto(p, IF ops[p].todo = {r} THEN Idle ELSE [ops[p] EXCEPT !.todo = @ \ {r}])
               /\ UNCHANGED pending
            \/ Die(p)
      BY <1>11 DEF Reclaim
    <2>2. ops[p].kind = "reclaim"
      BY <1>11 DEF Reclaim
    <2>3. [ops[p] EXCEPT !.todo = @ \ {r}].kind = "reclaim"
      BY <2>2 DEF GovInv, Shape, Op
    <2> QED
      BY <1>0, <2>1, <2>3, QuietGoto DEF Die
  <1>12. CASE open(p)
    BY <1>0, <1>12, QuietGoto DEF open
  <1> QED
    BY <1>5, <1>6, <1>7, <1>8, <1>9, <1>10, <1>11, <1>12 DEF Step

LEMMA QuietCaller ==
  ASSUME GovInv, NEW p \in Processes, Caller(p) \/ reclaim_idle(p) \/ Crash(p),
         \A r \in Requests : ~submit(p, r)
  PROVE  Quiet
  <1>0. Idle.kind = "idle" /\ Down.kind = "down"
    BY DEF Idle, Down
  <1>1. CASE schedule(p)
    BY <1>1, QuietGoto DEF schedule, Idle
  <1>2. ASSUME NEW r \in Requests, schedule_request(p, r) PROVE Quiet
    BY <1>2, QuietGoto DEF schedule_request, Attempt, Idle
  <1>3. ASSUME NEW r \in Requests, release(p, r) PROVE Quiet
    BY <1>3, QuietGoto DEF release, Begin, Idle
  <1>4. ASSUME NEW r \in Requests, heartbeat(p, r) PROVE Quiet
    BY <1>4, QuietGoto DEF heartbeat, Begin, Idle
  <1>5. ASSUME NEW r \in Requests, record_usage(p, r) PROVE Quiet
    BY <1>5, QuietGoto DEF record_usage, Meter, Idle
  <1>6. CASE reclaim_idle(p)
    BY <1>6, QuietGoto DEF reclaim_idle, Idle
  <1>7. CASE Crash(p)
    BY <1>0, <1>7, QuietGoto DEF Crash, Die
  <1> QED
    BY <1>1, <1>2, <1>3, <1>4, <1>5, <1>6, <1>7 DEF Caller

LEMMA QueueNext == ASSUME GovInv, GovInv', QueueInv, [Next]_vars PROVE QueueInv'
  <1>1. ASSUME Quiet PROVE QueueInv'
    <2>1. \A s, B : Putting(s, B)' \subseteq Putting(s, B)
      BY <1>1 DEF Quiet, Putting
    <2> QED
      BY <1>1, <2>1, QuietCrowd, KeptBound DEF Quiet, QueueInv
  <1>2. ASSUME NEW p \in Processes, SubmitPut(p) PROVE QueueInv'
    BY <1>2, PutCrowd, KeptBound DEF QueueInv
  <1>3. ASSUME NEW p \in Processes, NEW r \in Requests, submit(p, r) PROVE QueueInv'
    BY <1>3, SubmitCrowd
  <1>4. CASE Tick \/ UNCHANGED vars
    BY <1>1, <1>4 DEF Tick, vars, Quiet
  <1>5. ASSUME NEW p \in Processes, Step(p) \/ Caller(p) \/ reclaim_idle(p) \/ Crash(p)
        PROVE  QueueInv'
    <2>1. CASE Step(p) /\ ~SubmitPut(p)
      BY <1>1, <2>1, QuietStep
    <2>2. CASE (Caller(p) \/ reclaim_idle(p) \/ Crash(p)) /\ \A r \in Requests : ~submit(p, r)
      BY <1>1, <2>2, QuietCaller
    <2> QED
      BY <1>2, <1>3, <1>5, <2>1, <2>2
  <1> QED
    BY <1>4, <1>5 DEF Next

LEMMA QueueInit == ASSUME Init PROVE QueueInv
  <1>1. Cardinality(Processes) \in Nat /\ Cardinality(Processes) > 0
    <2>1. Cardinality(Processes) \in Nat /\ Cardinality(Processes) # 0
      BY GovernorAssumption, FS_CardinalityType, FS_EmptySet
    <2> QED
      BY <2>1
  <1>2. \A s, B : Queued(s) \cap B = {} /\ Putting(s, B) = {}
    BY DEF Init, Queued, Putting, Idle
  <1>3. Cardinality({}) = 0
    BY FS_EmptySet
  <1> QED
    BY <1>1, <1>2, <1>3, KeptBound DEF QueueInv, Crowd

(* A queue, and the background part of it, is over its ceiling by less     *)
(* than the number of processes: the check is against a copy and the put   *)
(* compares no revision, so each process may pass the check once before it *)
(* sees what the others put (submit, ensure_queue_capacity).               *)
THEOREM GovernorQueues == Spec => []QueueOvershoot
  <1>1. Init => GovInv /\ QueueInv
    BY GovInit, QueueInit
  <1>2. GovInv /\ QueueInv /\ [Next]_vars => GovInv' /\ QueueInv'
    BY GovNext, QueueNext
  <1>3. GovInv /\ QueueInv => QueueOvershoot
    <2> SUFFICES ASSUME GovInv, QueueInv, NEW s \in Scopes
        PROVE  /\ Cardinality(Queued(s)) < QueueMax[s] + Cardinality(Processes)
               /\ Cardinality(Queued(s) \cap Background) < Kept(s) + Cardinality(Processes)
      BY DEF QueueOvershoot, Kept
    <2>1. Queued(s) \cap Requests = Queued(s)
      BY CopyParts DEF Queued
    <2>2. Crowd(s, Requests, QueueMax[s]) /\ Crowd(s, Background, Kept(s))
      BY DEF QueueInv
    <2>3. Cardinality(Queued(s)) < QueueMax[s] + Cardinality(Processes)
      BY <2>1, <2>2, QueueFinite, KeptBound DEF Crowd
    <2>4. Cardinality(Queued(s) \cap Background) < Kept(s) + Cardinality(Processes)
      BY <2>2, QueueFinite, KeptBound DEF Crowd
    <2> QED
      BY <2>3, <2>4
  <1> QED
    BY <1>1, <1>2, <1>3, PTL DEF Spec
=============================================================================
