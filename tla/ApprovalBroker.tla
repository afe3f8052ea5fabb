--------------------------- MODULE ApprovalBroker ---------------------------
(***************************************************************************)
(* The deployment requests of the backend and the leases under which       *)
(* frontends hold them, from crates/core/src/approval.rs.  Every           *)
(* operation runs under the broker's lock, so it is one step here.         *)
(*                                                                         *)
(* Abstractions.  A request stands for its id: submitting a known id again *)
(* changes nothing.  Time is not counted: a lease may expire at any        *)
(* moment.  Every operation that looks at a lease first gives back the     *)
(* expired ones, so that is a step of its own, Expire, and renewing a      *)
(* lease changes nothing here.  A frontend's queue is a set: the order in  *)
(* which it lists requests is left out.                                    *)
(*                                                                         *)
(* A definition marked "Slip" is a plausible mistake in the definition it  *)
(* precedes; no specification uses it.                                     *)
(***************************************************************************)
EXTENDS Naturals, FiniteSets

CONSTANTS
    Requests,      \* request ids
    Sessions,      \* session numbers of backend connections
    Nobody,        \* no session
    MaxRequests,   \* MAX_REQUESTS
    MaxQueue,      \* MAX_QUEUE
    MaxFrontends   \* MAX_FRONTENDS

ASSUME NobodyAssumption == Nobody \notin Sessions
ASSUME RequestLimitAssumption == MaxRequests \in Nat
ASSUME QueueLimitAssumption == MaxQueue \in Nat /\ MaxRequests <= MaxQueue
ASSUME FrontendLimitAssumption == MaxFrontends \in Nat

VARIABLES
    status,      \* the state of each entry, "absent" when there is none
    lease,       \* the lease id of a claimed request, 0 otherwise
    owner,       \* the session that holds it
    nextLease,   \* next_lease
    frontends,   \* the registered sessions
    queued,      \* the requests each of them will be listed
    known        \* the requests each of them is not queued again for

brokerVars == <<status, lease, owner, nextLease, frontends, queued, known>>

Decisions == {"approved", "rejected"}
Statuses == {"absent", "pending", "claimed", "cancelled"} \cup Decisions

BrokerInit ==
    /\ status = [r \in Requests |-> "absent"]
    /\ lease = [r \in Requests |-> 0]
    /\ owner = [r \in Requests |-> Nobody]
    /\ nextLease = 1
    /\ frontends = {}
    /\ queued = [s \in Sessions |-> {}]
    /\ known = [s \in Sessions |-> {}]

Entries == {r \in Requests : status[r] # "absent"}

PendingIds == {r \in Requests : status[r] = "pending"}

(***************************************************************************)
(* A full queue loses its oldest requests.  Without an order some do.      *)
(***************************************************************************)
Kept(ids) ==
    IF Cardinality(ids) <= MaxQueue THEN ids
    ELSE CHOOSE kept \in SUBSET ids : Cardinality(kept) = MaxQueue

\* The queue of session s once ids were offered to it.
Offered(s, ids) == Kept(queued[s] \cup (ids \ known[s]))

\* What it knows then: everything offered but what a full queue lost.
Learnt(s, ids) ==
    (known[s] \cup ids)
        \ ((queued[s] \cup (ids \ known[s])) \ Offered(s, ids))

\* ids are queued for every one of the sessions ss.
Broadcast(ss, ids) ==
    /\ queued' = [s \in Sessions |->
                    IF s \in ss THEN Offered(s, ids) ELSE queued[s]]
    /\ known' = [s \in Sessions |->
                    IF s \in ss THEN Learnt(s, ids) ELSE known[s]]

Register(s) ==
    /\ s \in frontends \/ Cardinality(frontends) < MaxFrontends
    /\ frontends' = frontends \cup {s}
    /\ Broadcast({s}, PendingIds)
    /\ UNCHANGED <<status, lease, owner, nextLease>>

Submit(r) ==
    /\ status[r] = "absent"
    /\ Cardinality(Entries) < MaxRequests
    /\ status' = [status EXCEPT ![r] = "pending"]
    /\ Broadcast(frontends, {r})
    /\ UNCHANGED <<lease, owner, nextLease, frontends>>

\* Slip: what a frontend knows is kept when its queue is cleaned.
PendingKeepingKnown(s) ==
    /\ s \in frontends
    /\ queued' = [queued EXCEPT ![s] = @ \cap PendingIds]
    /\ UNCHANGED <<status, lease, owner, nextLease, frontends, known>>

\* pending(): lists the queue without consuming it.
Pending(s) ==
    /\ s \in frontends
    /\ queued' = [queued EXCEPT ![s] = @ \cap PendingIds]
    /\ known' = [known EXCEPT ![s] = queued[s] \cap PendingIds]
    /\ UNCHANGED <<status, lease, owner, nextLease, frontends>>

\* Slip: every request that nobody holds can be claimed.
ClaimUnheld(s, r) ==
    /\ s \in frontends
    /\ status[r] # "claimed"
    /\ status' = [status EXCEPT ![r] = "claimed"]
    /\ lease' = [lease EXCEPT ![r] = nextLease]
    /\ owner' = [owner EXCEPT ![r] = s]
    /\ nextLease' = nextLease + 1
    /\ UNCHANGED <<frontends, queued, known>>

Claim(s, r) ==
    /\ s \in frontends
    /\ status[r] = "pending"
    /\ status' = [status EXCEPT ![r] = "claimed"]
    /\ lease' = [lease EXCEPT ![r] = nextLease]
    /\ owner' = [owner EXCEPT ![r] = s]
    /\ nextLease' = nextLease + 1
    /\ UNCHANGED <<frontends, queued, known>>

\* The condition of renew() and resolve(); renewing changes nothing else.
Holds(s, r, l) ==
    status[r] = "claimed" /\ owner[r] = s /\ lease[r] = l

\* r is in state st, under no lease.
Settle(r, st) ==
    /\ status' = [status EXCEPT ![r] = st]
    /\ lease' = [lease EXCEPT ![r] = 0]
    /\ owner' = [owner EXCEPT ![r] = Nobody]

Resolve(s, r, l, decision) ==
    /\ Holds(s, r, l)
    /\ Settle(r, decision)
    /\ UNCHANGED <<nextLease, frontends, queued, known>>

Cancel(r) ==
    /\ status[r] # "absent"
    /\ Settle(r, "cancelled")
    /\ UNCHANGED <<nextLease, frontends, queued, known>>

\* Slip: an expired claim is given back and nobody is told.
ExpireQuietly(r) ==
    /\ status[r] = "claimed"
    /\ Settle(r, "pending")
    /\ UNCHANGED <<nextLease, frontends, queued, known>>

\* reclaim(): an expired claim is offered to everyone again.
Expire(r) ==
    /\ status[r] = "claimed"
    /\ Settle(r, "pending")
    /\ Broadcast(frontends, {r})
    /\ UNCHANGED <<nextLease, frontends>>

Owned(s) == {r \in Requests : status[r] = "claimed" /\ owner[r] = s}

\* Slip: a connection that ends keeps its claims until they expire.
DisconnectKeeping(s) ==
    /\ frontends' = frontends \ {s}
    /\ queued' = [queued EXCEPT ![s] = {}]
    /\ known' = [known EXCEPT ![s] = {}]
    /\ UNCHANGED <<status, lease, owner, nextLease>>

\* A connection ended: its claims are offered to the others.
Disconnect(s) ==
    /\ frontends' = frontends \ {s}
    /\ status' = [r \in Requests |->
                    IF r \in Owned(s) THEN "pending" ELSE status[r]]
    /\ lease' = [r \in Requests |-> IF r \in Owned(s) THEN 0 ELSE lease[r]]
    /\ owner' = [r \in Requests |-> IF r \in Owned(s) THEN Nobody ELSE owner[r]]
    /\ queued' = [t \in Sessions |->
                    IF t = s THEN {}
                    ELSE IF t \in frontends THEN Offered(t, Owned(s))
                    ELSE queued[t]]
    /\ known' = [t \in Sessions |->
                    IF t = s THEN {}
                    ELSE IF t \in frontends THEN Learnt(t, Owned(s))
                    ELSE known[t]]
    /\ UNCHANGED nextLease

BrokerNext ==
    \/ \E r \in Requests : Submit(r) \/ Cancel(r) \/ Expire(r)
    \/ \E s \in Sessions :
          \/ Register(s) \/ Pending(s) \/ Disconnect(s)
          \/ \E r \in Requests :
                \/ Claim(s, r)
                \/ \E decision \in Decisions : Resolve(s, r, lease[r], decision)

\* Everything any clients can do to the broker.
BrokerSpec == BrokerInit /\ [][BrokerNext]_brokerVars

-----------------------------------------------------------------------------
(* Properties.                                                             *)

BrokerTypeOK ==
    /\ status \in [Requests -> Statuses]
    /\ lease \in [Requests -> Nat]
    /\ owner \in [Requests -> Sessions \cup {Nobody}]
    /\ nextLease \in Nat \ {0}
    /\ frontends \subseteq Sessions
    /\ queued \in [Sessions -> SUBSET Requests]
    /\ known \in [Sessions -> SUBSET Requests]

(***************************************************************************)
(* Every registered frontend will be listed every request that waits,      *)
(* whenever it registered, whoever held the request before and however     *)
(* that claim ended (register, broadcast, reclaim, disconnect).  queue()   *)
(* does not queue what the frontend is known to have, and drops the        *)
(* oldest request of a full queue: neither may hide a request that waits.  *)
(***************************************************************************)
PendingOffered ==
    \A r \in PendingIds, s \in frontends : r \in queued[s]

(***************************************************************************)
(* A claim belongs to a registered frontend and no two claims share a      *)
(* lease.  resolve() relies on the first: unlike claim() and renew() it    *)
(* does not ask whether its session is registered.                         *)
(***************************************************************************)
ClaimsAreOwned ==
    /\ \A r \in Requests : status[r] = "claimed" => owner[r] \in frontends
    /\ \A q, r \in Requests :
          /\ status[q] = "claimed" /\ status[r] = "claimed"
          /\ lease[q] = lease[r]
          => q = r

(***************************************************************************)
(* An answer stays: no expiry, disconnection or late frontend reopens a    *)
(* request that was resolved or cancelled; cancel() may still overwrite    *)
(* an answer.                                                              *)
(***************************************************************************)
AnswersAreFinal ==
    [][\A r \in Requests :
          status[r] \in Decisions \cup {"cancelled"} =>
              status'[r] \in {status[r], "cancelled"}]_brokerVars
=============================================================================
