------------------------------ MODULE Governor ------------------------------
(***************************************************************************)
(* The resource governor (crates/resource-governor) and the turn leases    *)
(* the runtime takes from it.  Every worker process has a governor with a  *)
(* copy of the accounts, the pending requests and the leases; the store    *)
(* they share commits a batch of records in one transaction, each record   *)
(* under the revision the process read.                                    *)
(*                                                                         *)
(* A request is for one unit.  Its number is the time it was submitted.    *)
(* Two kinds of resource are modelled: "slots", which leases occupy, and   *)
(* "tokens", which are only consumed.                                      *)
(***************************************************************************)
EXTENDS Integers, FiniteSets, Sequences, FiniteSetsExt

CONSTANTS
  Processes,     \* processes with a governor
  Scopes,        \* resource scopes
  MaxRequests,   \* bound on requests
  Path,          \* Path[r]: the scopes of request r, outermost first
  Background,    \* the requests with background priority
  Recovery,      \* the requests with a recovery descriptor
  Ceiling,       \* Ceiling[<<s, k>>]: the maximum of kind k in scope s
  FailsAt,       \* the scopes whose exhaustion fails a request; others pause it
  QueueMax,      \* QueueMax[s]: the queue ceiling of scope s
  Reserve,       \* Reserve[s]: the part of it kept for interactive work
  MaxRetries,    \* MAX_CONFLICT_RETRIES
  MaxDecisions,  \* bound of one schedule call
  Timeout,       \* idle timeout of a lease
  MaxTime,       \* horizon of the clock
  MaxSpent,      \* bound on requests, usage records and crashes together
  NoLease        \* no lease under a request

Requests == 1 .. MaxRequests
Kinds == {"slots", "tokens"}
Accounts == Scopes \X Kinds

ScopesOf(r) == {Path[r][i] : i \in DOMAIN Path[r]}
TreeOf(r) == Path[r][Len(Path[r])]      \* the tree is the innermost scope

ASSUME GovernorAssumption ==
  /\ IsFiniteSet(Processes) /\ Processes # {}
  /\ MaxRequests \in Nat /\ Timeout \in Nat
  /\ Path \in [Requests -> Seq(Scopes)] /\ Recovery \subseteq Requests
  /\ Ceiling \in [Accounts -> Nat]
  /\ QueueMax \in [Scopes -> Nat] /\ Reserve \in [Scopes -> Nat]
  /\ NoLease \notin [expires_at : Int, revision : Int]

VARIABLES
  accounts,   \* accounts[<<s, k>>]: what is used, and the record's revision
  pending,    \* the requests with a Pending record
  leases,     \* leases[r]: the lease granted to request r
  state,      \* state[p]: the copy of the three that process p holds
  ops,        \* ops[p]: the call process p is in the middle of
  asked,      \* asked[p]: requests process p submitted
  held,       \* held[p]: requests whose lease was returned to process p
  now,        \* wall clock
  spent       \* requests, crashes and usage records so far

vars == <<accounts, pending, leases, state, ops, asked, held, now, spent>>

Idle == [kind |-> "idle", req |-> 0, tries |-> 0, todo |-> {}, got |-> {}]
Down == [Idle EXCEPT !.kind = "down"]

Durable == [accounts |-> accounts, pending |-> pending, leases |-> leases]

Leased == {r \in Requests : leases[r] # NoLease}

Init ==
  /\ accounts = [a \in Accounts |-> [used |-> 0, revision |-> 0]]
  /\ pending = {}
  /\ leases = [r \in Requests |-> NoLease]
  /\ state = [p \in Processes |->
       [accounts |-> accounts, pending |-> pending, leases |-> leases]]
  /\ ops = [p \in Processes |-> Idle]
  /\ asked = [p \in Processes |-> {}]
  /\ held = [p \in Processes |-> {}]
  /\ now = 0
  /\ spent = [requests |-> 0, crashes |-> 0, usage |-> 0]
-----------------------------------------------------------------------------
Room == spent.requests + spent.usage + spent.crashes < MaxSpent

Goto(p, op) == ops' = [ops EXCEPT ![p] = op]

refresh_durable_state(p) == state' = [state EXCEPT ![p] = Durable]

(* The copy of p follows what p committed.                                  *)
Applied(p, acc, pen, lea) ==
  state' = [state EXCEPT ![p] = [accounts |-> acc, pending |-> pen, leases |-> lea]]

(* The first scope of the path without room for one more unit.              *)
Exhausted(st, r, k) ==
  {i \in DOMAIN Path[r] : LET a == <<Path[r][i], k>> IN
                          st.accounts[a].used + 1 > Ceiling[a]}
Fails(st, r, k) == Path[r][Min(Exhausted(st, r, k))] \in FailsAt

(* Mutant: accounts are written whatever their revision.                    *)
UnchangedAny(p, r, k) == TRUE

(* Every account of the path is still at the revision p read.               *)
Unchanged(p, r, k) ==
  \A s \in ScopesOf(r) :
    accounts[<<s, k>>].revision = state[p].accounts[<<s, k>>].revision

(* The batch over the accounts of a path, on a table of accounts.           *)
Charge(table, r, k, units) ==
  [a \in Accounts |->
     IF a \in ScopesOf(r) \X {k}
     THEN [used |-> table[a].used + units, revision |-> table[a].revision + 1]
     ELSE table[a]]

QueueNeverFull(st, r) == FALSE      \* Mutant: no queue ceiling

QueueFull(st, r) ==
  \E s \in ScopesOf(r) :
    Cardinality({q \in st.pending : s \in ScopesOf(q)})
      >= IF r \in Background THEN Max({0, QueueMax[s] - Reserve[s]}) ELSE QueueMax[s]
-----------------------------------------------------------------------------
(* submit: refresh and check, then one put under Missing.                   *)
submit(p, r) ==
  /\ ops[p] = Idle
  /\ r = spent.requests + 1 /\ r <= MaxRequests
  /\ Room
  /\ spent' = [spent EXCEPT !.requests = r]
  /\ refresh_durable_state(p)
  /\ Goto(p, IF QueueFull(Durable, r) THEN Idle
             ELSE [Idle EXCEPT !.kind = "submit", !.req = r])
  /\ UNCHANGED <<accounts, pending, leases, asked, held, now>>

SubmitPut(p) ==
  /\ ops[p].kind = "submit"
  /\ LET r == ops[p].req IN
     /\ pending' = pending \cup {r}
     /\ asked' = [asked EXCEPT ![p] = @ \cup {r}]
     /\ state' = [state EXCEPT ![p].pending = @ \cup {r}]
  /\ Goto(p, Idle)
  /\ UNCHANGED <<accounts, leases, held, now, spent>>

(* schedule_request: each attempt refreshes, decides, and commits; only a   *)
(* conflict is tried again.                                                 *)
Attempt(p, r, tries) ==
  /\ refresh_durable_state(p)
  /\ Goto(p, IF r \notin pending THEN Idle
             ELSE IF Exhausted(Durable, r, "slots") = {}
             THEN [Idle EXCEPT !.kind = "grant", !.req = r, !.tries = tries]
             ELSE IF Fails(Durable, r, "slots")
             THEN [Idle EXCEPT !.kind = "delete", !.req = r, !.tries = tries]
             ELSE Idle)

schedule_request(p, r) ==
  /\ ops[p] = Idle
  /\ r \in asked[p] \ held[p]
  /\ Attempt(p, r, 0)
  /\ UNCHANGED <<accounts, pending, leases, asked, held, now, spent>>

Retry(p) == /\ ops[p].tries < MaxRetries
            /\ Attempt(p, ops[p].req, ops[p].tries + 1)

GiveUp(p) == /\ ops[p].tries = MaxRetries
             /\ Goto(p, Idle) /\ UNCHANGED state

(* grant and delete_pending: the transaction over the accounts, the lease   *)
(* and the pending record.                                                  *)
GrantOf(p, r) ==
  LET lease == [expires_at |-> now + Timeout, revision |-> 0] IN
  /\ r \in pending
  /\ Unchanged(p, r, "slots")
  /\ accounts' = Charge(accounts, r, "slots", 1)
  /\ pending' = pending \ {r}
  /\ leases' = [leases EXCEPT ![r] = lease]
  /\ Applied(p, Charge(state[p].accounts, r, "slots", 1), state[p].pending \ {r},
             [state[p].leases EXCEPT ![r] = lease])

Grant(p) ==
  /\ ops[p].kind = "grant"
  /\ LET r == ops[p].req IN
     \/ /\ GrantOf(p, r)
        /\ held' = [held EXCEPT ![p] = @ \cup {r}]
        /\ Goto(p, Idle)
     \/ /\ r \notin pending \/ ~Unchanged(p, r, "slots")
        /\ Retry(p) \/ GiveUp(p)
        /\ UNCHANGED <<accounts, pending, leases, held>>
  /\ UNCHANGED <<asked, now, spent>>

DeletePending(p) ==
  /\ ops[p].kind = "delete"
  /\ LET r == ops[p].req IN
     \/ /\ r \in pending
        /\ pending' = pending \ {r}
        /\ state' = [state EXCEPT ![p].pending = @ \ {r}]
        /\ Goto(p, Idle)
     \/ /\ r \notin pending
        /\ Retry(p) \/ GiveUp(p)
        /\ UNCHANGED pending
  /\ UNCHANGED <<accounts, leases, asked, held, now, spent>>
-----------------------------------------------------------------------------
(* release and heartbeat refresh and retry alike; a lease that is gone is   *)
(* an error.                                                                *)
Begin(p, kind, r, tries) ==
  /\ refresh_durable_state(p)
  /\ Goto(p, IF r \in Leased THEN [Idle EXCEPT !.kind = kind, !.req = r, !.tries = tries]
             ELSE Idle)

release(p, r) ==
  /\ ops[p] = Idle
  /\ r \in held[p]
  /\ held' = [held EXCEPT ![p] = @ \ {r}]
  /\ Begin(p, "release", r, 0)
  /\ UNCHANGED <<accounts, pending, leases, asked, now, spent>>

heartbeat(p, r) ==
  /\ ops[p] = Idle
  /\ r \in held[p]
  /\ leases[r] # NoLease => leases[r].expires_at < now + Timeout
  /\ Begin(p, "heartbeat", r, 0)
  /\ UNCHANGED <<accounts, pending, leases, asked, held, now, spent>>

Again(p) == /\ ops[p].tries < MaxRetries
            /\ Begin(p, ops[p].kind, ops[p].req, ops[p].tries + 1)

LeaseIs(p, r) == /\ r \in Leased
                 /\ leases[r].revision = state[p].leases[r].revision

release_locked(p, r) ==
  /\ LeaseIs(p, r)
  /\ Unchanged(p, r, "slots")
  /\ accounts' = Charge(accounts, r, "slots", -1)
  /\ leases' = [leases EXCEPT ![r] = NoLease]
  /\ Applied(p, Charge(state[p].accounts, r, "slots", -1), state[p].pending,
             [state[p].leases EXCEPT ![r] = NoLease])

Release(p) ==
  /\ ops[p].kind = "release"
  /\ LET r == ops[p].req IN
     \/ release_locked(p, r) /\ Goto(p, Idle)
     \/ /\ ~LeaseIs(p, r) \/ ~Unchanged(p, r, "slots")
        /\ Again(p) \/ GiveUp(p)
        /\ UNCHANGED <<accounts, leases>>
  /\ UNCHANGED <<pending, asked, held, now, spent>>

Heartbeat(p) ==
  /\ ops[p].kind = "heartbeat"
  /\ LET r == ops[p].req
         lease == [expires_at |-> now + Timeout, revision |-> leases[r].revision + 1] IN
     \/ /\ LeaseIs(p, r)
        /\ leases' = [leases EXCEPT ![r] = lease]
        /\ state' = [state EXCEPT ![p].leases[r] = lease]
        /\ Goto(p, Idle)
     \/ /\ ~LeaseIs(p, r)
        /\ Again(p) \/ GiveUp(p)
        /\ UNCHANGED leases
  /\ UNCHANGED <<accounts, pending, asked, held, now, spent>>

(* record_usage: exhaustion is an outcome and not an error.                 *)
Meter(p, r, tries) ==
  /\ refresh_durable_state(p)
  /\ Goto(p, IF Exhausted(Durable, r, "tokens") = {}
             THEN [Idle EXCEPT !.kind = "usage", !.req = r, !.tries = tries]
             ELSE Idle)

record_usage(p, r) ==
  /\ ops[p] = Idle
  /\ r \in held[p]
  /\ Room
  /\ spent' = [spent EXCEPT !.usage = @ + 1]
  /\ Meter(p, r, 0)
  /\ UNCHANGED <<accounts, pending, leases, asked, held, now>>

Usage(p) ==
  /\ ops[p].kind = "usage"
  /\ LET r == ops[p].req IN
     \/ /\ Unchanged(p, r, "tokens")
        /\ accounts' = Charge(accounts, r, "tokens", 1)
        /\ state' = [state EXCEPT ![p].accounts = Charge(@, r, "tokens", 1)]
        /\ Goto(p, Idle)
     \/ /\ ~Unchanged(p, r, "tokens")
        /\ \/ ops[p].tries < MaxRetries /\ Meter(p, r, ops[p].tries + 1)
           \/ GiveUp(p)
        /\ UNCHANGED accounts
  /\ UNCHANGED <<pending, leases, asked, held, now, spent>>
-----------------------------------------------------------------------------
(* schedule: one refresh, then decisions over the copy, a transaction for   *)
(* each.  A conflict is an error of the whole call: the leases it granted   *)
(* so far are not returned.  A tree has one session here; which tree's turn *)
(* it is among requests of one priority is left open.                       *)
Heads(st) == {r \in st.pending : \A q \in st.pending : TreeOf(q) = TreeOf(r) => r <= q}

select_next(st, attempted) ==
  LET open == Heads(st) \ attempted
      urgent == {r \in open : r \notin Background} IN
  IF urgent = {} THEN open ELSE urgent

schedule(p) ==
  /\ ops[p] = Idle
  /\ refresh_durable_state(p)
  /\ Goto(p, [Idle EXCEPT !.kind = "schedule"])
  /\ UNCHANGED <<accounts, pending, leases, asked, held, now, spent>>

Decide(p, r) ==
  LET next == [ops[p] EXCEPT !.tries = @ + 1, !.todo = @ \cup {r}] IN
  /\ r \in select_next(state[p], ops[p].todo)
  /\ IF Exhausted(state[p], r, "slots") = {}
     THEN \/ /\ GrantOf(p, r)
             /\ Goto(p, [next EXCEPT !.got = @ \cup {r}])
          \/ /\ r \notin pending \/ ~Unchanged(p, r, "slots")
             /\ Goto(p, Idle)
             /\ UNCHANGED <<accounts, pending, leases, state>>
     ELSE IF Fails(state[p], r, "slots")
     THEN /\ \/ /\ r \in pending
                /\ pending' = pending \ {r}
                /\ state' = [state EXCEPT ![p].pending = @ \ {r}]
                /\ Goto(p, next)
             \/ r \notin pending /\ Goto(p, Idle) /\ UNCHANGED <<pending, state>>
          /\ UNCHANGED <<accounts, leases>>
     ELSE Goto(p, next) /\ UNCHANGED <<accounts, pending, leases, state>>
  /\ UNCHANGED held

Schedule(p) ==
  /\ ops[p].kind = "schedule"
  /\ IF ops[p].tries = MaxDecisions \/ select_next(state[p], ops[p].todo) = {}
     THEN /\ held' = [held EXCEPT ![p] = @ \cup ops[p].got]
          /\ Goto(p, Idle)
          /\ UNCHANGED <<accounts, pending, leases, state>>
     ELSE \E r \in Requests : Decide(p, r)
  /\ UNCHANGED <<asked, now, spent>>

(* reclaim_idle works on the copy as it stands.  Its error ends the pass    *)
(* of maintenance, and with it the worker.                                  *)
Expired(st) == {r \in Recovery : /\ st.leases[r] # NoLease
                                 /\ st.leases[r].expires_at <= now}

reclaim_idle(p) ==
  /\ ops[p] = Idle
  /\ Expired(state[p]) # {}
  /\ Goto(p, [Idle EXCEPT !.kind = "reclaim", !.todo = Expired(state[p])])
  /\ UNCHANGED <<accounts, pending, leases, state, asked, held, now, spent>>

Die(p) ==
  /\ Goto(p, Down)
  /\ asked' = [asked EXCEPT ![p] = {}]
  /\ held' = [held EXCEPT ![p] = {}]
  /\ UNCHANGED <<accounts, pending, leases, state>>

Reclaim(p) ==
  /\ ops[p].kind = "reclaim"
  /\ \E r \in ops[p].todo :
       \/ /\ release_locked(p, r)
          /\ Goto(p, IF ops[p].todo = {r} THEN Idle ELSE [ops[p] EXCEPT !.todo = @ \ {r}])
          /\ UNCHANGED <<pending, asked, held>>
       \/ /\ ~LeaseIs(p, r) \/ ~Unchanged(p, r, "slots")
          /\ Die(p)
  /\ UNCHANGED <<now, spent>>

Crash(p) ==
  /\ ops[p] # Down
  /\ Room
  /\ spent' = [spent EXCEPT !.crashes = @ + 1]
  /\ Die(p)
  /\ UNCHANGED now

(* Mutant: a governor starts with an empty copy.                            *)
open_empty(p) ==
  /\ ops[p] = Down
  /\ state' = [state EXCEPT ![p].pending = {}, ![p].leases = [r \in Requests |-> NoLease]]
  /\ Goto(p, Idle)
  /\ UNCHANGED <<accounts, pending, leases, asked, held, now, spent>>

open(p) ==
  /\ ops[p] = Down
  /\ refresh_durable_state(p)
  /\ Goto(p, Idle)
  /\ UNCHANGED <<accounts, pending, leases, asked, held, now, spent>>

Tick ==
  /\ now < MaxTime
  /\ now' = now + 1
  /\ UNCHANGED <<accounts, pending, leases, state, ops, asked, held, spent>>

Step(p) ==
  \/ SubmitPut(p) \/ Grant(p) \/ DeletePending(p) \/ Release(p) \/ Heartbeat(p)
  \/ Usage(p) \/ Schedule(p) \/ Reclaim(p) \/ open(p)

Caller(p) ==
  \/ schedule(p)
  \/ \E r \in Requests :
       submit(p, r) \/ schedule_request(p, r) \/ release(p, r) \/ heartbeat(p, r)
         \/ record_usage(p, r)

Next ==
  \/ \E p \in Processes : Step(p) \/ Caller(p) \/ reclaim_idle(p) \/ Crash(p)
  \/ Tick

Spec == Init /\ [][Next]_vars

(* Calls go on once begun, a worker that is gone is started again by the    *)
(* next client, and maintenance recurs between the calls of a worker.       *)
FairSpec ==
  /\ Spec
  /\ \A p \in Processes : WF_vars(Step(p)) /\ SF_vars(reclaim_idle(p))
-----------------------------------------------------------------------------
Account == [used : Nat, revision : Nat]
Lease == [expires_at : Nat, revision : Nat]
Copy == [accounts : [Accounts -> Account], pending : SUBSET Requests,
         leases : [Requests -> Lease \cup {NoLease}]]

(* Every variable keeps its type; in particular no counter goes below zero  *)
(* (the checked_sub of release_locked never fails).                         *)
TypeOK ==
  /\ Durable \in Copy
  /\ state \in [Processes -> Copy]
  /\ asked \in [Processes -> SUBSET Requests]
  /\ held \in [Processes -> SUBSET Requests]

(* What a scope has in use is what its leases occupy: whichever processes   *)
(* grant, release, reclaim, retry and crash, no unit of capacity is lost or *)
(* counted twice, and a ceiling is never exceeded (grant, release_locked,   *)
(* record_usage).                                                           *)
InUse(s) == Cardinality({r \in Leased : s \in ScopesOf(r)})

AccountsBalance ==
  \A s \in Scopes :
    /\ accounts[<<s, "slots">>].used = InUse(s)
    /\ \A k \in Kinds : accounts[<<s, k>>].used <= Ceiling[<<s, k>>]

(* The queue ceiling is checked against a copy and the request is put       *)
(* without a revision to compare: processes that submit at once pass the    *)
(* same check, so the queue of a scope, and the background part of it, may  *)
(* be over its ceiling, but never by as many as there are processes         *)
(* (submit, ensure_queue_capacity).                                         *)
Queued(s) == {r \in pending : s \in ScopesOf(r)}

QueueOvershoot ==
  \A s \in Scopes :
    /\ Cardinality(Queued(s)) < QueueMax[s] + Cardinality(Processes)
    /\ Cardinality(Queued(s) \cap Background)
         < Max({0, QueueMax[s] - Reserve[s]}) + Cardinality(Processes)

(* reclaim_idle works from a copy that may be stale, and one conflict ends  *)
(* it, yet a lease with a recovery descriptor that lapsed is reclaimed, or  *)
(* its holder is heard of again.                                            *)
LapsedIsReclaimed ==
  \A r \in Recovery : r \in Expired(Durable) ~> r \notin Expired(Durable)
=============================================================================
