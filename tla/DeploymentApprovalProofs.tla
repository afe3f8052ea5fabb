---------------------- MODULE DeploymentApprovalProofs ----------------------
(***************************************************************************)
(* What the approval broker promises and what holds between the TUIs and   *)
(* the broker, for any number of TUIs, requests, sessions, limits, faults  *)
(* and writes.                                                             *)
(*                                                                         *)
(* First the broker by itself, whatever calls its clients make.  The heart *)
(* of it is that a queue never overflows: it lists entries only, and there *)
(* are at most MAX_REQUESTS of them, no more than MAX_QUEUE.               *)
(*                                                                         *)
(* Then the TUIs, in four parts.  They use the broker only as              *)
(* ApprovalBroker allows, so that its invariant holds here.  A worker's    *)
(* record is sane: what it holds at each place, and what must have         *)
(* happened before.  What the broker leases to a connected worker is what  *)
(* that worker holds, because sessions are never shared or used again.     *)
(* And the UI counts the commands it waits for: one for each command in    *)
(* the queue, for the one the worker executes and for each event that      *)
(* reports an end, so that no event ends a command that was not sent.      *)
(***************************************************************************)
EXTENDS DeploymentApproval, FiniteSetTheorems, WellFoundedInduction, TLAPS

\* The number of entries is finite and limited.
EntriesBounded == IsFiniteSet(Entries) /\ Cardinality(Entries) <= MaxRequests

\* A frontend knows what is queued for it, and entries only are queued.
QueuesMatch ==
    \A s \in Sessions : known[s] = queued[s] /\ queued[s] \subseteq Entries

\* The lease ids in use were all handed out.
LeasesGiven ==
    \A r \in Requests : status[r] = "claimed" => 0 < lease[r] /\ lease[r] < nextLease

\* The inductive invariant.
BrokerInv ==
    /\ BrokerTypeOK
    /\ EntriesBounded
    /\ QueuesMatch
    /\ LeasesGiven
    /\ PendingOffered
    /\ ClaimsAreOwned

-----------------------------------------------------------------------------

(***************************************************************************)
(* A set of entries, of which there are not too many, fits in a queue.     *)
(***************************************************************************)
LEMMA EntriesFit ==
    ASSUME NEW E, IsFiniteSet(E), Cardinality(E) <= MaxRequests,
           NEW ids \in SUBSET E
    PROVE  Kept(ids) = ids
<1>1. IsFiniteSet(ids) /\ Cardinality(ids) <= Cardinality(E)
  BY FS_Subset
<1>2. Cardinality(ids) \in Nat /\ Cardinality(E) \in Nat
  BY <1>1, FS_CardinalityType
<1>3. Cardinality(ids) <= MaxQueue
  BY <1>1, <1>2, RequestLimitAssumption, QueueLimitAssumption
<1> QED  BY <1>3 DEF Kept

(***************************************************************************)
(* So offering requests to a frontend (queue()) adds them to what it is    *)
(* listed and to what it knows, and loses none.                            *)
(***************************************************************************)
LEMMA OfferingAdds ==
    ASSUME NEW E, IsFiniteSet(E), Cardinality(E) <= MaxRequests,
           NEW s, NEW ids \in SUBSET E,
           known[s] = queued[s], queued[s] \subseteq E
    PROVE  /\ Offered(s, ids) = queued[s] \cup ids
           /\ Learnt(s, ids) = queued[s] \cup ids
<1>1. queued[s] \cup (ids \ known[s]) = queued[s] \cup ids
  OBVIOUS
<1>2. Kept(queued[s] \cup ids) = queued[s] \cup ids
  BY EntriesFit
<1>3. Offered(s, ids) = queued[s] \cup ids
  BY <1>1, <1>2 DEF Offered
<1> QED  BY <1>1, <1>3 DEF Learnt

(***************************************************************************)
(* The effect of broadcast() on every queue.                               *)
(***************************************************************************)
LEMMA BroadcastAdds ==
    ASSUME BrokerInv, NEW E, Entries \subseteq E,
           IsFiniteSet(E), Cardinality(E) <= MaxRequests,
           NEW ss \in SUBSET Sessions, NEW ids \in SUBSET E,
           Broadcast(ss, ids)
    PROVE  /\ queued' = [s \in Sessions |-> IF s \in ss THEN queued[s] \cup ids
                                             ELSE queued[s]]
           /\ known' = queued'
<1>1. \A s \in Sessions : known[s] = queued[s] /\ queued[s] \subseteq E
  BY DEF BrokerInv, QueuesMatch
<1>2. \A s \in Sessions : /\ Offered(s, ids) = queued[s] \cup ids
                          /\ Learnt(s, ids) = queued[s] \cup ids
  BY <1>1, OfferingAdds
<1> QED  BY <1>1, <1>2 DEF Broadcast

LEMMA InitInv == BrokerInit => BrokerInv
<1> SUFFICES ASSUME BrokerInit PROVE BrokerInv
  OBVIOUS
<1>1. Entries = {}
  BY DEF BrokerInit, Entries
<1>2. EntriesBounded
  BY <1>1, FS_EmptySet, RequestLimitAssumption DEF EntriesBounded
<1>3. BrokerTypeOK
  BY DEF BrokerInit, BrokerTypeOK, Statuses, Decisions
<1>4. QueuesMatch /\ LeasesGiven /\ PendingOffered /\ ClaimsAreOwned
  BY DEF BrokerInit, QueuesMatch, LeasesGiven, PendingOffered, ClaimsAreOwned
<1> QED  BY <1>2, <1>3, <1>4 DEF BrokerInv

-----------------------------------------------------------------------------
(* Every operation preserves the invariant.                                *)

LEMMA RegisterInv ==
    ASSUME BrokerInv, NEW s \in Sessions, Register(s)
    PROVE  BrokerInv'
<1> USE DEF Register
<1>1. Entries' = Entries
  BY DEF Entries
<1>2. PendingIds \subseteq Entries
  BY DEF PendingIds, Entries
<1>3. /\ queued' = [t \in Sessions |-> IF t \in {s} THEN queued[t] \cup PendingIds
                                       ELSE queued[t]]
      /\ known' = queued'
  BY <1>2, BroadcastAdds DEF BrokerInv, EntriesBounded
<1>4. BrokerTypeOK'
  <2>1. PendingIds \subseteq Requests
    BY DEF PendingIds
  <2>2. /\ queued' \in [Sessions -> SUBSET Requests]
        /\ known' \in [Sessions -> SUBSET Requests]
    BY <1>3, <2>1 DEF BrokerInv, BrokerTypeOK
  <2> QED  BY <2>2 DEF BrokerInv, BrokerTypeOK
<1>5. EntriesBounded'
  BY <1>1 DEF BrokerInv, EntriesBounded
<1>6. QueuesMatch'
  BY <1>1, <1>2, <1>3 DEF BrokerInv, QueuesMatch
<1>7. LeasesGiven'
  BY DEF BrokerInv, LeasesGiven
<1>8. PendingOffered'
  BY <1>3 DEF BrokerInv, BrokerTypeOK, PendingOffered, PendingIds
<1>9. ClaimsAreOwned'
  BY DEF BrokerInv, ClaimsAreOwned
<1> QED  BY <1>4, <1>5, <1>6, <1>7, <1>8, <1>9 DEF BrokerInv

LEMMA SubmitInv ==
    ASSUME BrokerInv, NEW r \in Requests, Submit(r)
    PROVE  BrokerInv'
<1> USE DEF Submit
<1>1. status' = [status EXCEPT ![r] = "pending"] /\ status \in [Requests -> Statuses]
  BY DEF BrokerInv, BrokerTypeOK
<1>2. Entries' = Entries \cup {r}
  BY <1>1 DEF Entries
<1>3. r \notin Entries
  BY DEF Entries
<1>4. IsFiniteSet(Entries') /\ Cardinality(Entries') <= MaxRequests
  <2>1. IsFiniteSet(Entries) /\ Cardinality(Entries) \in Nat
    BY FS_CardinalityType DEF BrokerInv, EntriesBounded
  <2>2. /\ IsFiniteSet(Entries \cup {r})
        /\ Cardinality(Entries \cup {r}) = Cardinality(Entries) + 1
    BY <1>3, <2>1, FS_AddElement
  <2> QED  BY <1>2, <2>1, <2>2, RequestLimitAssumption
<1>5. /\ queued' = [t \in Sessions |-> IF t \in frontends THEN queued[t] \cup {r}
                                       ELSE queued[t]]
      /\ known' = queued'
  <2>1. frontends \in SUBSET Sessions /\ {r} \in SUBSET Entries'
    BY <1>2 DEF BrokerInv, BrokerTypeOK
  <2>2. Entries \subseteq Entries' /\ Broadcast(frontends, {r})
    BY <1>2
  <2> QED  BY <1>4, <2>1, <2>2, BroadcastAdds
<1>6. BrokerTypeOK'
  <2>1. /\ queued' \in [Sessions -> SUBSET Requests]
        /\ known' \in [Sessions -> SUBSET Requests]
    BY <1>5 DEF BrokerInv, BrokerTypeOK
  <2> QED  BY <1>1, <2>1 DEF BrokerInv, BrokerTypeOK, Statuses
<1>7. EntriesBounded'
  BY <1>4 DEF EntriesBounded
<1>8. QueuesMatch'
  BY <1>2, <1>5 DEF BrokerInv, QueuesMatch
<1>9. LeasesGiven'
  BY <1>1 DEF BrokerInv, LeasesGiven
<1>10. PendingOffered'
  BY <1>1, <1>5 DEF BrokerInv, BrokerTypeOK, PendingOffered, PendingIds
<1>11. ClaimsAreOwned'
  BY <1>1 DEF BrokerInv, ClaimsAreOwned
<1> QED  BY <1>6, <1>7, <1>8, <1>9, <1>10, <1>11 DEF BrokerInv

LEMMA PendingInv ==
    ASSUME BrokerInv, NEW s \in Sessions, Pending(s)
    PROVE  BrokerInv'
<1> USE DEF Pending
<1>1. Entries' = Entries /\ PendingIds' = PendingIds
  BY DEF Entries, PendingIds
<1>2. \A t \in Sessions :
         /\ queued'[t] = IF t = s THEN queued[t] \cap PendingIds ELSE queued[t]
         /\ known'[t] = queued'[t]
  BY DEF BrokerInv, BrokerTypeOK, QueuesMatch
<1>3. BrokerTypeOK'
  BY DEF BrokerInv, BrokerTypeOK
<1>4. EntriesBounded'
  BY <1>1 DEF BrokerInv, EntriesBounded
<1>5. QueuesMatch'
  BY <1>1, <1>2 DEF BrokerInv, QueuesMatch
<1>6. LeasesGiven' /\ ClaimsAreOwned'
  BY DEF BrokerInv, LeasesGiven, ClaimsAreOwned
<1>7. PendingOffered'
  BY <1>1, <1>2 DEF BrokerInv, BrokerTypeOK, PendingOffered
<1> QED  BY <1>3, <1>4, <1>5, <1>6, <1>7 DEF BrokerInv

LEMMA ClaimInv ==
    ASSUME BrokerInv, NEW s \in Sessions, NEW r \in Requests, Claim(s, r)
    PROVE  BrokerInv'
<1> USE DEF Claim
<1>1. /\ status \in [Requests -> Statuses] /\ lease \in [Requests -> Nat]
      /\ owner \in [Requests -> Sessions \cup {Nobody}] /\ nextLease \in Nat \ {0}
  BY DEF BrokerInv, BrokerTypeOK
<1>2. Entries' = Entries /\ PendingIds' = PendingIds \ {r}
  BY <1>1 DEF Entries, PendingIds
<1>3. BrokerTypeOK'
  BY <1>1 DEF BrokerInv, BrokerTypeOK, Statuses
<1>4. EntriesBounded' /\ QueuesMatch'
  BY <1>2 DEF BrokerInv, EntriesBounded, QueuesMatch
<1>5. LeasesGiven'
  BY <1>1 DEF BrokerInv, LeasesGiven
<1>6. PendingOffered'
  BY <1>2 DEF BrokerInv, PendingOffered
<1>7. ClaimsAreOwned'
  BY <1>1 DEF BrokerInv, LeasesGiven, ClaimsAreOwned
<1> QED  BY <1>3, <1>4, <1>5, <1>6, <1>7 DEF BrokerInv

(***************************************************************************)
(* resolve() and cancel(): a request is settled, and waits no longer.      *)
(***************************************************************************)
LEMMA SettleInv ==
    ASSUME BrokerInv, NEW r \in Entries, NEW st \in Decisions \cup {"cancelled"},
           Settle(r, st), UNCHANGED <<nextLease, frontends, queued, known>>
    PROVE  BrokerInv'
<1> USE DEF Settle
<1>1. /\ status \in [Requests -> Statuses] /\ lease \in [Requests -> Nat]
      /\ owner \in [Requests -> Sessions \cup {Nobody}] /\ r \in Requests
      /\ status[r] # "absent"
      /\ st \in Statuses \ {"absent", "pending", "claimed"}
  BY DEF BrokerInv, BrokerTypeOK, Entries, Statuses, Decisions
<1>2. Entries' = Entries /\ PendingIds' \subseteq PendingIds
  BY <1>1 DEF Entries, PendingIds
<1>3. BrokerTypeOK'
  BY <1>1 DEF BrokerInv, BrokerTypeOK
<1>4. EntriesBounded' /\ QueuesMatch'
  BY <1>2 DEF BrokerInv, EntriesBounded, QueuesMatch
<1>5. LeasesGiven' /\ ClaimsAreOwned'
  BY <1>1 DEF BrokerInv, LeasesGiven, ClaimsAreOwned
<1>6. PendingOffered'
  BY <1>2 DEF BrokerInv, PendingOffered
<1> QED  BY <1>3, <1>4, <1>5, <1>6 DEF BrokerInv

LEMMA ExpireInv ==
    ASSUME BrokerInv, NEW r \in Requests, Expire(r)
    PROVE  BrokerInv'
<1> USE DEF Expire, Settle
<1>1. /\ status \in [Requests -> Statuses] /\ lease \in [Requests -> Nat]
      /\ owner \in [Requests -> Sessions \cup {Nobody}]
      /\ frontends \in SUBSET Sessions
  BY DEF BrokerInv, BrokerTypeOK
<1>2. /\ Entries' = Entries /\ r \in Entries
      /\ PendingIds' = PendingIds \cup {r}
  BY <1>1 DEF Entries, PendingIds
<1>3. /\ queued' = [t \in Sessions |-> IF t \in frontends THEN queued[t] \cup {r}
                                       ELSE queued[t]]
      /\ known' = queued'
  <2>1. Broadcast(frontends, {r}) /\ {r} \in SUBSET Entries
    BY <1>2
  <2> QED  BY <1>1, <2>1, BroadcastAdds DEF BrokerInv, EntriesBounded
<1>4. BrokerTypeOK'
  <2>1. /\ queued' \in [Sessions -> SUBSET Requests]
        /\ known' \in [Sessions -> SUBSET Requests]
    BY <1>3 DEF BrokerInv, BrokerTypeOK
  <2> QED  BY <1>1, <2>1 DEF BrokerInv, BrokerTypeOK, Statuses
<1>5. EntriesBounded'
  BY <1>2 DEF BrokerInv, EntriesBounded
<1>6. QueuesMatch'
  BY <1>2, <1>3 DEF BrokerInv, QueuesMatch
<1>7. LeasesGiven' /\ ClaimsAreOwned'
  BY <1>1 DEF BrokerInv, LeasesGiven, ClaimsAreOwned
<1>8. PendingOffered'
  BY <1>1, <1>2, <1>3 DEF BrokerInv, PendingOffered
<1> QED  BY <1>4, <1>5, <1>6, <1>7, <1>8 DEF BrokerInv

LEMMA DisconnectInv ==
    ASSUME BrokerInv, NEW s \in Sessions, Disconnect(s)
    PROVE  BrokerInv'
<1> USE DEF Disconnect
<1>1. /\ status \in [Requests -> Statuses] /\ lease \in [Requests -> Nat]
      /\ owner \in [Requests -> Sessions \cup {Nobody}]
      /\ frontends \in SUBSET Sessions
  BY DEF BrokerInv, BrokerTypeOK
<1>2. /\ Entries' = Entries /\ Owned(s) \in SUBSET Entries
      /\ Owned(s) \in SUBSET Requests
      /\ PendingIds' = PendingIds \cup Owned(s)
  BY <1>1 DEF Entries, PendingIds, Owned
<1>3. \A t \in Sessions :
         /\ Offered(t, Owned(s)) = queued[t] \cup Owned(s)
         /\ Learnt(t, Owned(s)) = queued[t] \cup Owned(s)
  BY <1>2, OfferingAdds DEF BrokerInv, EntriesBounded, QueuesMatch
<1>4. \A t \in Sessions :
         /\ queued'[t] = IF t = s THEN {}
                         ELSE IF t \in frontends THEN queued[t] \cup Owned(s)
                         ELSE queued[t]
         /\ known'[t] = queued'[t]
  BY <1>3 DEF BrokerInv, QueuesMatch
<1>5. BrokerTypeOK'
  <2>1. /\ queued' \in [Sessions -> SUBSET Requests]
        /\ known' \in [Sessions -> SUBSET Requests]
    BY <1>2, <1>3, <1>4 DEF BrokerInv, BrokerTypeOK
  <2>2. /\ status' \in [Requests -> Statuses] /\ lease' \in [Requests -> Nat]
        /\ owner' \in [Requests -> Sessions \cup {Nobody}]
    BY <1>1 DEF Statuses
  <2> QED  BY <1>1, <2>1, <2>2 DEF BrokerInv, BrokerTypeOK
<1>6. EntriesBounded'
  BY <1>2 DEF BrokerInv, EntriesBounded
<1>7. QueuesMatch'
  BY <1>2, <1>4 DEF BrokerInv, QueuesMatch
<1>8. LeasesGiven'
  BY <1>1 DEF BrokerInv, LeasesGiven
<1>9. ClaimsAreOwned'
  BY <1>1 DEF BrokerInv, ClaimsAreOwned, Owned
<1>10. PendingOffered'
  BY <1>1, <1>2, <1>4 DEF BrokerInv, PendingOffered
<1> QED  BY <1>5, <1>6, <1>7, <1>8, <1>9, <1>10 DEF BrokerInv

LEMMA NextInv == BrokerInv /\ [BrokerNext]_brokerVars => BrokerInv'
<1> SUFFICES ASSUME BrokerInv, [BrokerNext]_brokerVars PROVE BrokerInv'
  OBVIOUS
<1>1. CASE UNCHANGED brokerVars
  BY <1>1 DEF brokerVars, BrokerInv, BrokerTypeOK, EntriesBounded, Entries,
       QueuesMatch, LeasesGiven, PendingOffered, PendingIds, ClaimsAreOwned
<1>2. ASSUME NEW r \in Requests, Submit(r) PROVE BrokerInv'
  BY <1>2, SubmitInv
<1>3. ASSUME NEW r \in Requests, Cancel(r) PROVE BrokerInv'
  BY <1>3, SettleInv DEF Cancel, Entries
<1>4. ASSUME NEW r \in Requests, Expire(r) PROVE BrokerInv'
  BY <1>4, ExpireInv
<1>5. ASSUME NEW s \in Sessions, Register(s) PROVE BrokerInv'
  BY <1>5, RegisterInv
<1>6. ASSUME NEW s \in Sessions, Pending(s) PROVE BrokerInv'
  BY <1>6, PendingInv
<1>7. ASSUME NEW s \in Sessions, Disconnect(s) PROVE BrokerInv'
  BY <1>7, DisconnectInv
<1>8. ASSUME NEW s \in Sessions, NEW r \in Requests, Claim(s, r) PROVE BrokerInv'
  BY <1>8, ClaimInv
<1>9. ASSUME NEW s \in Sessions, NEW r \in Requests, NEW decision \in Decisions,
             Resolve(s, r, lease[r], decision)
      PROVE  BrokerInv'
  <2>1. r \in Entries
    BY <1>9 DEF Resolve, Holds, Entries
  <2> QED  BY <1>9, <2>1, SettleInv DEF Resolve
<1> QED
  BY <1>1, <1>2, <1>3, <1>4, <1>5, <1>6, <1>7, <1>8, <1>9 DEF BrokerNext

\* A request that is answered or withdrawn stays so.
Stays ==
    \A r \in Requests : status[r] \in Decisions \cup {"cancelled"} =>
        status'[r] \in {status[r], "cancelled"}

LEMMA StaysAnswered ==
    ASSUME BrokerTypeOK, [BrokerNext]_brokerVars PROVE Stays
<1> SUFFICES ASSUME BrokerNext PROVE Stays
  BY DEF brokerVars, Stays
<1> USE DEF BrokerTypeOK, Decisions, Stays
<1>1. ASSUME NEW q \in Requests, Submit(q) PROVE Stays
  BY <1>1 DEF Submit
<1>2. ASSUME NEW q \in Requests, Cancel(q) PROVE Stays
  BY <1>2 DEF Cancel, Settle
<1>3. ASSUME NEW q \in Requests, Expire(q) PROVE Stays
  BY <1>3 DEF Expire, Settle
<1>4. ASSUME NEW s \in Sessions, Register(s) \/ Pending(s) PROVE Stays
  BY <1>4 DEF Register, Pending
<1>5. ASSUME NEW s \in Sessions, Disconnect(s) PROVE Stays
  BY <1>5 DEF Disconnect, Owned
<1>6. ASSUME NEW s \in Sessions, NEW q \in Requests, Claim(s, q) PROVE Stays
  BY <1>6 DEF Claim
<1>7. ASSUME NEW s \in Sessions, NEW q \in Requests, NEW decision \in Decisions,
             Resolve(s, q, lease[q], decision)
      PROVE  Stays
  BY <1>7 DEF Resolve, Holds, Settle
<1> QED
  BY <1>1, <1>2, <1>3, <1>4, <1>5, <1>6, <1>7 DEF BrokerNext

-----------------------------------------------------------------------------
(* The theorems.                                                           *)

(***************************************************************************)
(* The inductive invariant holds, whatever the clients call.               *)
(***************************************************************************)
THEOREM BrokerInvariant == BrokerSpec => []BrokerInv
<1>1. BrokerInit => BrokerInv
  BY InitInv
<1>2. BrokerInv /\ [BrokerNext]_brokerVars => BrokerInv'
  BY NextInv
<1> QED  BY <1>1, <1>2, PTL DEF BrokerSpec

(***************************************************************************)
(* The state of ApprovalBroker keeps its types.                            *)
(***************************************************************************)
THEOREM BrokerTypeCorrect == BrokerSpec => []BrokerTypeOK
<1>1. BrokerInv => BrokerTypeOK
  BY DEF BrokerInv
<1> QED  BY <1>1, BrokerInvariant, PTL

(***************************************************************************)
(* register(), broadcast(), reclaim() and disconnect() leave no waiting    *)
(* request off the list of any frontend, for any limits under which        *)
(* MAX_REQUESTS does not exceed MAX_QUEUE.                                 *)
(***************************************************************************)
THEOREM WaitingRequestsAreOffered == BrokerSpec => []PendingOffered
<1>1. BrokerInv => PendingOffered
  BY DEF BrokerInv
<1> QED  BY <1>1, BrokerInvariant, PTL

(***************************************************************************)
(* Whatever the order of claims, expiries and disconnections, a claim is   *)
(* of a registered frontend and shares its lease with no other claim.      *)
(***************************************************************************)
THEOREM EveryClaimIsOwned == BrokerSpec => []ClaimsAreOwned
<1>1. BrokerInv => ClaimsAreOwned
  BY DEF BrokerInv
<1> QED  BY <1>1, BrokerInvariant, PTL

(***************************************************************************)
(* No operation of the broker reopens a request that was resolved or       *)
(* cancelled.                                                              *)
(***************************************************************************)
THEOREM AnswersStay == BrokerSpec => AnswersAreFinal
<1>1. BrokerTypeOK /\ [BrokerNext]_brokerVars => [Stays]_brokerVars
  BY StaysAnswered
<1> QED  BY <1>1, BrokerTypeCorrect, PTL DEF BrokerSpec, AnswersAreFinal, Stays

-----------------------------------------------------------------------------
(* The TUIs.                                                               *)

\* The places where a worker executes a command under its claim ...
Commanded == {"identity", "details", "renew", "returned", "confirm", "accept",
              "decline", "before", "after", "declined"}

\* ... and where it has taken the claim out to resolve it.
Resolving == {"complete", "reject", "giveup", "refuse"}

Workers ==
    [pc : Pcs, active : Claims \cup {Nobody}, trusted : BOOLEAN,
     prepared : BOOLEAN, sends : {0, 1}, review : Dialogs \cup {Nobody},
     claim : Claims \cup {Nobody}, todo : SUBSET Requests,
     shown : Dialogs \cup {Nobody}]

Commands ==
    [kind : {"write"}]
        \cup [kind : {"answer"}, yes : BOOLEAN, about : Dialogs]
        \cup [kind : {"review"}, yes : BOOLEAN,
              about : {d \in Dialogs : d.stage \in Reviews}]

Events ==
    [kind : {"saved", "lost", "dropped"}, about : {Nobody}]
        \cup [kind : {"offer", "next"}, about : Dialogs]
        \cup [kind : {"over"}, about : Requests]

Screens ==
    [dialog : Dialogs \cup {Nobody}, waiting : SUBSET Dialogs,
     backlog : Seq(Dialogs), completed : SUBSET Requests, busy : Int]

TuiTypes ==
    /\ link \in [Tuis -> {"closed", "up", "cut", "broken"}]
    /\ session \in [Tuis -> Sessions \cup {Nobody}]
    /\ listener \in [Tuis -> Sessions \cup {Nobody}]
    /\ ready \in [Tuis -> BOOLEAN]
    /\ nextSession \in Nat \ {0}
    /\ worker \in [Tuis -> Workers]
    /\ commands \in [Tuis -> Seq(Commands)]
    /\ events \in [Tuis -> Seq(Events)]
    /\ ui \in [Tuis -> Screens]
    /\ applied \subseteq Requests

(***************************************************************************)
(* A worker that holds w is sane when A are the requests whose target      *)
(* applied a deployment: it executes under a claim, it resolves one it has *)
(* taken out, a review is of its claim, it sends over the one connection   *)
(* it prepared, and what the host returned came from a deployment.         *)
(***************************************************************************)
Sane(w, A) ==
    /\ w.pc \in Commanded => w.active \in Claims
    /\ w.pc \in Resolving => w.claim \in Claims /\ w.active = Nobody
    /\ w.pc \notin Resolving => w.claim = Nobody
    /\ w.pc = "claim" => w.active = Nobody
    /\ w.review # Nobody =>
          /\ w.pc \in {"loop", "accept", "decline"}
          /\ w.review.stage \in Reviews
          /\ w.active = [req |-> w.review.req, lease |-> w.review.lease]
          /\ w.review.stage = Returned => w.active.req \in A
    /\ w.pc \in {"accept", "decline"} => w.review # Nobody
    /\ w.prepared => w.sends = 0
    /\ w.trusted \/ w.sends = 0
    /\ w.pc = "renew" => w.trusted
    /\ w.pc \in {"returned", "confirm", "after"} => w.active.req \in A
    /\ w.pc = "complete" => w.claim.req \in A

AllSane == \A t \in Tuis : Sane(worker[t], applied)

\* Every connection has a session number of its own, used once.
SessionsApart ==
    /\ frontends \subseteq 1..(nextSession - 1)
    /\ \A t \in Tuis :
          /\ link[t] # "closed" => session[t] \in Sessions
          /\ session[t] \in 1..(nextSession - 1) \cup {Nobody}
          /\ \A u \in Tuis : session[u] = session[t] /\ session[t] # Nobody => u = t

\* What the broker leases to t's session, t's worker has.
AtHand(t) ==
    link[t] = "up" =>
        \A r \in Requests :
            status[r] = "claimed" /\ owner[r] = session[t] =>
                [req |-> r, lease |-> lease[r]] \in {worker[t].active, worker[t].claim}

\* The requests that were answered or withdrawn.
Over == {r \in Requests : status[r] \in Decisions \cup {"cancelled"}}

\* What the UI was told is over, and what it will be told.
ToldOver(t) ==
    /\ ui[t].completed \subseteq Over
    /\ \A i \in 1..Len(events[t]) :
          events[t][i].kind = "over" => events[t][i].about \in Over

\* The commands under way in a worker that holds w: one or none.
UnderWay(w) == IF w.pc \in {"loop", "claim", "refuse"} THEN 0 ELSE 1

\* The events among es that report the end of a command.
Ends(es) == {i \in 1..Len(es) : Completes(es[i])}

\* The UI waits for every command it sent, and for nothing else.
Balanced(t) ==
    ui[t].busy = Len(commands[t]) + UnderWay(worker[t]) + Cardinality(Ends(events[t]))

\* The inductive invariant.
ApprovalInv ==
    /\ BrokerInv
    /\ TuiTypes
    /\ AllSane
    /\ SessionsApart
    /\ ApprovedWasApplied
    /\ \A t \in Tuis : AtHand(t) /\ ToldOver(t) /\ Balanced(t)

-----------------------------------------------------------------------------
(* What the worker holds.                                                  *)

LEMMA NobodyIsNone == Nobody \notin Claims /\ Nobody \notin Dialogs
BY NoneAssumption

LEMMA IdleIsSane == \A A : Idle \in Workers /\ Sane(Idle, A)
BY NobodyIsNone DEF Idle, Workers, Pcs, Sane, Commanded, Resolving

LEMMA TakeOutIsSane ==
    ASSUME NEW w \in Workers, NEW A, w.active \in Claims,
           NEW next \in Resolving, next = "complete" => w.active.req \in A
    PROVE  /\ TakeOut(w, next) \in Workers /\ Sane(TakeOut(w, next), A)
           /\ TakeOut(w, next).pc = next /\ TakeOut(w, next).claim = w.active
           /\ TakeOut(w, next).active = Nobody
BY NobodyIsNone DEF TakeOut, Forget, Idle, Workers, Pcs, Sane, Commanded, Resolving

LEMMA SaneGrows ==
    ASSUME NEW w, NEW A, NEW B, A \subseteq B, Sane(w, A)
    PROVE  Sane(w, B)
BY DEF Sane

\* A worker between claims, at a place that needs none.
LEMMA GoIsSane ==
    ASSUME NEW w \in Workers, NEW A, Sane(w, A), w.pc \notin Resolving, w.review = Nobody,
           NEW next \in Commanded \cup {"loop"}, next # "loop" => w.active \in Claims,
           next \notin {"accept", "decline", "renew"},
           next \in {"returned", "confirm", "after"} => w.active.req \in A
    PROVE  [w EXCEPT !.pc = next] \in Workers /\ Sane([w EXCEPT !.pc = next], A)
BY DEF Workers, Pcs, Sane, Commanded, Resolving

LEMMA ShownIsDialog ==
    ASSUME NEW c \in Claims, NEW stage \in Trust..Returned
    PROVE  Shown(c, stage) \in Dialogs /\ Shown(c, stage).stage = stage
           /\ c = [req |-> Shown(c, stage).req, lease |-> Shown(c, stage).lease]
BY DEF Claims, Dialogs, Shown

-----------------------------------------------------------------------------
(* What a step of a worker may do.                                         *)

\* It becomes w2 and is silent, and no command ends ...
Silent(t, w2) ==
    /\ worker' = [worker EXCEPT ![t] = w2]
    /\ UNCHANGED events
    /\ Len(commands'[t]) + UnderWay(w2) = Len(commands[t]) + UnderWay(worker[t])

\* ... or it becomes w2 and tells the UI of e, which ends at most the command.
Telling(t, w2, e) ==
    /\ worker' = [worker EXCEPT ![t] = w2]
    /\ events' = [events EXCEPT ![t] = Append(@, e)]
    /\ Len(commands'[t]) + UnderWay(w2) + (IF Completes(e) THEN 1 ELSE 0)
          = Len(commands[t]) + UnderWay(worker[t])
    /\ e.kind = "over" => e.about \in Over'

WorkerDid(t) ==
    \E w2 \in Workers :
        /\ Sane(w2, applied')
        /\ Silent(t, w2) \/ \E e \in Events : Telling(t, w2, e)

\* No claim appears at the broker.
NoNewClaim ==
    \A r \in Requests : status'[r] = "claimed" =>
        status[r] = "claimed" /\ owner'[r] = owner[r] /\ lease'[r] = lease[r]

\* Nothing is leased to t.
NothingHeld(t) ==
    \A r \in Requests : ~ (status[r] = "claimed" /\ owner[r] = session[t])

\* The worker of t keeps what it has at hand, wherever it puts it.
LEMMA KeepsAtHand ==
    ASSUME NEW t \in Tuis, AtHand(t), NoNewClaim, session'[t] = session[t],
           link'[t] = "up" => link[t] = "up",
           {worker[t].active, worker[t].claim} \subseteq
               {worker'[t].active, worker'[t].claim}
    PROVE  AtHand(t)'
BY DEF AtHand, NoNewClaim

\* It may forget a claim that the broker says it does not hold.
LEMMA NotHeldIsNothingHeld ==
    ASSUME ApprovalInv, NEW t \in Tuis, link[t] = "up",
           \A c \in Claims \cap {worker[t].active, worker[t].claim} :
               ~ Holds(session[t], c.req, c.lease)
    PROVE  NothingHeld(t)
<1> SUFFICES ASSUME NEW r \in Requests, status[r] = "claimed", owner[r] = session[t]
             PROVE  FALSE
  BY DEF NothingHeld
<1> DEFINE c == [req |-> r, lease |-> lease[r]]
<1>1. c \in {worker[t].active, worker[t].claim}
  BY DEF ApprovalInv, AtHand
<1>2. c \in Claims
  BY DEF ApprovalInv, BrokerInv, BrokerTypeOK, LeasesGiven, Claims, Leases
<1> QED BY <1>1, <1>2 DEF Holds

LEMMA ForgetsNothing ==
    ASSUME NEW t \in Tuis, link'[t] = "up" => NothingHeld(t)'
    PROVE  AtHand(t)'
BY DEF AtHand, NothingHeld

(***************************************************************************)
(* A step within a command: the worker receives the command or executes    *)
(* one, and claims nothing.                                                *)
(***************************************************************************)
InCommand(t) ==
    /\ Len(commands'[t]) \in Nat
    /\ Len(commands'[t]) + 1 = Len(commands[t]) + UnderWay(worker[t])
    /\ NoNewClaim
    /\ session'[t] = session[t]
    /\ link'[t] = "up" => link[t] = "up"
    /\ applied \subseteq applied'

\* What of it holds of every worker.
LEMMA WorkerIsSane ==
    ASSUME ApprovalInv, NEW t \in Tuis
    PROVE  /\ worker \in [Tuis -> Workers] /\ worker[t] \in Workers
           /\ Sane(worker[t], applied) /\ AtHand(t)
           /\ \A A : applied \subseteq A => Sane(worker[t], A)
           /\ events \in [Tuis -> Seq(Events)] /\ commands \in [Tuis -> Seq(Commands)]
           /\ Len(commands[t]) \in Nat
BY SaneGrows DEF ApprovalInv, TuiTypes, AllSane

\* The command failed: the claim is taken out.
LEMMA FailDid ==
    ASSUME ApprovalInv, NEW t \in Tuis, InCommand(t), worker[t].active \in Claims,
           worker[t].claim = Nobody, Fail(t)
    PROVE  WorkerDid(t) /\ AtHand(t)'
<1> DEFINE w2 == TakeOut(worker[t], "giveup")
<1>1. w2 \in Workers /\ Sane(w2, applied') /\ w2.pc = "giveup" /\ w2.claim = worker[t].active
         /\ w2.active = Nobody
  BY WorkerIsSane, TakeOutIsSane DEF Resolving
<1>2. worker' = [worker EXCEPT ![t] = w2] /\ UNCHANGED events
  BY DEF Fail, Become
<1> HIDE DEF w2
<1>3. worker'[t] = w2
  BY <1>2, WorkerIsSane
<1>4. Silent(t, w2)
  BY <1>1, <1>2, WorkerIsSane DEF Silent, InCommand, UnderWay
<1>5. AtHand(t)'
  BY <1>1, <1>3, KeepsAtHand, WorkerIsSane DEF InCommand
<1> QED BY <1>1, <1>4, <1>5 DEF WorkerDid

\* It goes on to the next exchange.
LEMMA BecomeDid ==
    ASSUME ApprovalInv, NEW t \in Tuis, InCommand(t), NEW w2 \in Workers,
           Sane(w2, applied'), w2.pc \notin {"loop", "claim", "refuse"},
           worker[t].active \in {w2.active, w2.claim},
           worker[t].claim \in {w2.active, w2.claim},
           Become(t, w2)
    PROVE  WorkerDid(t) /\ AtHand(t)'
<1>1. worker' = [worker EXCEPT ![t] = w2] /\ UNCHANGED events /\ worker'[t] = w2
  BY WorkerIsSane DEF Become
<1>2. Silent(t, w2)
  BY <1>1, WorkerIsSane DEF Silent, InCommand, UnderWay
<1>3. AtHand(t)'
  BY <1>1, KeepsAtHand, WorkerIsSane DEF InCommand
<1> QED BY <1>2, <1>3 DEF WorkerDid

\* It ends, and the worker keeps its claim.
LEMMA TellDid ==
    ASSUME ApprovalInv, NEW t \in Tuis, InCommand(t), NEW w2 \in Workers,
           Sane(w2, applied'), w2.pc = "loop",
           w2.active = worker[t].active, w2.claim = worker[t].claim,
           NEW kind, NEW about, Event(kind, about) \in Events,
           kind \in {"saved", "next", "lost"}, Tell(t, w2, kind, about)
    PROVE  WorkerDid(t) /\ AtHand(t)'
<1> DEFINE e == Event(kind, about)
<1>1. /\ worker' = [worker EXCEPT ![t] = w2] /\ worker'[t] = w2
      /\ events' = [events EXCEPT ![t] = Append(@, e)]
  BY WorkerIsSane DEF Tell
<1>2. e \in Events /\ Completes(e) /\ e.kind # "over"
  BY DEF Event, Completes
<1> HIDE DEF e
<1>3. Telling(t, w2, e)
  <2>1. UnderWay(w2) = 0 /\ (IF Completes(e) THEN 1 ELSE 0) = 1
    BY <1>2 DEF UnderWay
  <2> QED BY <1>1, <1>2, <2>1, WorkerIsSane DEF Telling, InCommand
<1>4. AtHand(t)'
  BY <1>1, KeepsAtHand, WorkerIsSane DEF InCommand
<1> QED BY <1>2, <1>3, <1>4 DEF WorkerDid

\* It ends, with a dialog to answer.
LEMMA AskDid ==
    ASSUME ApprovalInv, NEW t \in Tuis, InCommand(t), NEW stage \in {Identity, Final, Returned},
           worker[t].active \in Claims, worker[t].claim = Nobody,
           stage = Returned => worker[t].active.req \in applied', Ask(t, stage)
    PROVE  WorkerDid(t) /\ AtHand(t)'
<1> DEFINE d == Shown(worker[t].active, stage)
           rv == IF stage \in Reviews THEN d ELSE Nobody
           w2 == [worker[t] EXCEPT !.pc = "loop", !.shown = Nobody, !.review = rv]
<1>1. d \in Dialogs /\ d.stage = stage
      /\ worker[t].active = [req |-> d.req, lease |-> d.lease]
  BY ShownIsDialog DEF Trust, Identity, Final, Returned
<1>2. rv \in Dialogs \cup {Nobody}
      /\ (rv # Nobody => rv = d /\ stage \in Reviews)
  BY <1>1
<1>3. Tell(t, w2, "next", d)
  BY DEF Ask
<1> HIDE DEF d, rv
<1>4. w2 \in Workers /\ w2.pc = "loop" /\ w2.review = rv /\ w2.active = worker[t].active
      /\ w2.claim = worker[t].claim /\ w2.sends = worker[t].sends
      /\ w2.prepared = worker[t].prepared /\ w2.trusted = worker[t].trusted
  <2>1. worker[t] \in Workers /\ "loop" \in Pcs
    BY WorkerIsSane DEF Pcs
  <2> QED BY <1>2, <2>1 DEF Workers
<1>5. Sane(w2, applied')
  <2>1. Sane(worker[t], applied')
    BY WorkerIsSane DEF InCommand
  <2> HIDE DEF w2
  <2> QED BY <1>1, <1>2, <1>4, <2>1 DEF Sane, Commanded, Resolving
<1>6. Event("next", d) \in Events
  BY <1>1 DEF Event, Events
<1> HIDE DEF w2
<1> QED BY <1>3, <1>4, <1>5, <1>6, TellDid

\* It ends, and the claim is forgotten, which the broker does not lease any more.
LEMMA ForgetDid ==
    ASSUME ApprovalInv, NEW t \in Tuis, InCommand(t),
           link'[t] = "up" => NothingHeld(t)',
           NEW kind, NEW about, Event(kind, about) \in Events,
           kind \in {"lost", "over"}, kind = "over" => about \in Over',
           Tell(t, Idle, kind, about)
    PROVE  WorkerDid(t) /\ AtHand(t)'
<1> DEFINE e == Event(kind, about)
<1>1. /\ worker' = [worker EXCEPT ![t] = Idle]
      /\ events' = [events EXCEPT ![t] = Append(@, e)]
  BY DEF Tell
<1>2. e \in Events /\ Completes(e) /\ (e.kind = "over" => e.about \in Over')
  BY DEF Event, Completes
<1>3. Idle \in Workers /\ Sane(Idle, applied') /\ Idle.pc = "loop"
  BY IdleIsSane DEF Idle
<1> HIDE DEF e
<1>4. Telling(t, Idle, e)
  <2>1. UnderWay(Idle) = 0 /\ (IF Completes(e) THEN 1 ELSE 0) = 1
    BY <1>2, <1>3 DEF UnderWay
  <2> QED BY <1>1, <1>2, <2>1, WorkerIsSane DEF Telling, InCommand
<1> QED BY <1>2, <1>3, <1>4, ForgetsNothing DEF WorkerDid

-----------------------------------------------------------------------------
(* The exchanges.                                                          *)

LEMMA QuietBroker == ASSUME UNCHANGED brokerVars PROVE NoNewClaim
BY DEF brokerVars, NoNewClaim

LEMMA NothingHeldStays ==
    ASSUME NEW t \in Tuis, NothingHeld(t), NoNewClaim, session'[t] = session[t]
    PROVE  NothingHeld(t)'
BY DEF NothingHeld, NoNewClaim

\* The connection of t's worker is as it was, or broken.
LinkOf(t) == UNCHANGED link \/ link' = [link EXCEPT ![t] = "broken"]

LEMMA LinkOnlyBreaks ==
    ASSUME ApprovalInv, NEW t \in Tuis, LinkOf(t)
    PROVE  link'[t] = "up" => link[t] = "up" /\ UNCHANGED link
BY DEF LinkOf, ApprovalInv, TuiTypes

LEMMA ExecutingIsInCommand ==
    ASSUME ApprovalInv, NEW t \in Tuis, worker[t].pc \notin {"loop", "claim", "refuse"},
           UNCHANGED <<session, commands>>, NoNewClaim, LinkOf(t), applied \subseteq applied'
    PROVE  InCommand(t)
BY LinkOnlyBreaks, WorkerIsSane DEF InCommand, UnderWay

LEMMA PrepareIdentityDid ==
    ASSUME ApprovalInv, NEW t \in Tuis, PrepareIdentity(t)
    PROVE  WorkerDid(t) /\ AtHand(t)'
<1>1. /\ UNCHANGED brokerVars /\ LinkOf(t) /\ UNCHANGED <<session, commands, applied>>
      /\ worker[t].pc = "identity"
      /\ Ask(t, Identity) \/ Go(t, "before") \/ Fail(t)
  BY DEF PrepareIdentity, Executing, Working, Renew, Read, Call, LinkOf
<1>2. worker[t].active \in Claims /\ worker[t].claim = Nobody /\ worker[t].review = Nobody
  BY <1>1, WorkerIsSane DEF Sane, Commanded, Resolving
<1>3. InCommand(t)
  BY <1>1, QuietBroker, ExecutingIsInCommand
<1>4. CASE Ask(t, Identity)
  BY <1>2, <1>3, <1>4, AskDid DEF Identity, Returned
<1>5. CASE Go(t, "before")
  <2> DEFINE w2 == [worker[t] EXCEPT !.pc = "before"]
  <2>1. w2 \in Workers /\ Sane(w2, applied) /\ w2.pc = "before"
           /\ w2.active = worker[t].active /\ w2.claim = worker[t].claim
    <3>1. worker[t] \in Workers /\ Sane(worker[t], applied)
      BY WorkerIsSane
    <3>2. w2 \in Workers /\ Sane(w2, applied)
      BY <1>1, <1>2, <3>1, GoIsSane DEF Commanded, Resolving
    <3> QED BY <3>1, <3>2 DEF Workers
  <2>2. Become(t, w2)
    BY <1>5 DEF Go
  <2> HIDE DEF w2
  <2> QED BY <1>1, <1>3, <2>1, <2>2, BecomeDid
<1>6. CASE Fail(t)
  BY <1>2, <1>3, <1>6, FailDid
<1> QED BY <1>1, <1>4, <1>5, <1>6

LEMMA DetailsDid ==
    ASSUME ApprovalInv, NEW t \in Tuis, Details(t)
    PROVE  WorkerDid(t) /\ AtHand(t)'
<1>1. /\ UNCHANGED brokerVars /\ LinkOf(t) /\ UNCHANGED <<session, commands, applied>>
      /\ worker[t].pc = "details"
      /\ Ask(t, Final) \/ Fail(t)
  BY DEF Details, Executing, Working, Read, Call, LinkOf
<1>2. worker[t].active \in Claims /\ worker[t].claim = Nobody
  BY <1>1, WorkerIsSane DEF Sane, Commanded, Resolving
<1>3. InCommand(t)
  BY <1>1, QuietBroker, ExecutingIsInCommand
<1>4. CASE Ask(t, Final)
  BY <1>2, <1>3, <1>4, AskDid DEF Final, Returned
<1>5. CASE Fail(t)
  BY <1>2, <1>3, <1>5, FailDid
<1> QED BY <1>1, <1>4, <1>5

\* A claim is forgotten where renew_for() or resolve() failed.
LEMMA LoseDid ==
    ASSUME ApprovalInv, NEW t \in Tuis, InCommand(t),
           link'[t] = "up" => NothingHeld(t)', Lose(t)
    PROVE  WorkerDid(t) /\ AtHand(t)'
<1>1. Event("lost", Nobody) \in Events
  BY DEF Event, Events
<1>2. Tell(t, Idle, "lost", Nobody)
  BY DEF Lose, Forget
<1> QED BY <1>1, <1>2, ForgetDid

\* renew_for() tells a worker that holds its claim from one that does not.
LEMMA NotRenewed ==
    ASSUME ApprovalInv, NEW t \in Tuis, link[t] = "up", worker[t].claim = Nobody,
           ~ Holds(session[t], worker[t].active.req, worker[t].active.lease)
    PROVE  NothingHeld(t)
BY NotHeldIsNothingHeld, NobodyIsNone

LEMMA DeployDid ==
    ASSUME ApprovalInv, NEW t \in Tuis, Deploy(t)
    PROVE  WorkerDid(t) /\ AtHand(t)'
<1> DEFINE w == worker[t]
<1>1. worker[t].pc = "renew" /\ UNCHANGED <<session, commands>>
  BY DEF Deploy, Executing, Working
<1>2. /\ w.active \in Claims /\ w.claim = Nobody /\ w.review = Nobody /\ w \in Workers
      /\ w.trusted /\ w.active.req \in Requests
  BY <1>1, WorkerIsSane DEF Sane, Commanded, Resolving, Claims
<1>3. CASE Renew(t, w.active, Fail(t), Lose(t)) /\ UNCHANGED applied
  <2>1. /\ UNCHANGED brokerVars /\ LinkOf(t)
        /\ \/ Fail(t)
           \/ /\ Lose(t)
              /\ \/ link' = [link EXCEPT ![t] = "broken"]
                 \/ /\ link[t] = "up"
                    /\ ~ Holds(session[t], w.active.req, w.active.lease)
    BY <1>3 DEF Renew, Read, Call, LinkOf
  <2>2. InCommand(t)
    BY <1>1, <1>3, <2>1, QuietBroker, ExecutingIsInCommand
  <2>3. CASE Fail(t)
    BY <1>2, <2>2, <2>3, FailDid
  <2>4. CASE Lose(t) /\ link' = [link EXCEPT ![t] = "broken"]
    <3>1. link'[t] # "up"
      BY <2>4 DEF ApprovalInv, TuiTypes
    <3> QED BY <2>2, <2>4, <3>1, LoseDid
  <2>5. CASE Lose(t) /\ link[t] = "up" /\ ~ Holds(session[t], w.active.req, w.active.lease)
    <3>1. NothingHeld(t)
      BY <1>2, <2>5, NotRenewed
    <3>2. NothingHeld(t)'
      BY <1>1, <2>1, <3>1, QuietBroker, NothingHeldStays
    <3> QED BY <2>2, <2>5, <3>2, LoseDid
  <2> QED BY <2>1, <2>3, <2>4, <2>5
<1>4. CASE /\ w.prepared
           /\ applied' = applied \cup {w.active.req}
           /\ Renew(t, w.active,
                    \/ Fail(t)
                    \/ \E next \in {"returned", "confirm"} :
                          Become(t, [w EXCEPT !.pc = next, !.prepared = FALSE,
                                              !.sends = @ + 1]),
                    FALSE)
  <2>1. /\ UNCHANGED brokerVars /\ LinkOf(t)
        /\ \/ Fail(t)
           \/ \E next \in {"returned", "confirm"} :
                          Become(t, [w EXCEPT !.pc = next, !.prepared = FALSE,
                                              !.sends = @ + 1])
    BY <1>4 DEF Renew, Read, Call, LinkOf
  <2>2. InCommand(t)
    BY <1>1, <1>4, <2>1, QuietBroker, ExecutingIsInCommand
  <2>3. CASE Fail(t)
    BY <1>2, <2>2, <2>3, FailDid
  <2>4. ASSUME NEW next \in {"returned", "confirm"},
               Become(t, [w EXCEPT !.pc = next, !.prepared = FALSE, !.sends = @ + 1])
        PROVE  WorkerDid(t) /\ AtHand(t)'
    <3> DEFINE w2 == [w EXCEPT !.pc = next, !.prepared = FALSE, !.sends = @ + 1]
    <3>1. w.sends = 0 /\ next \in Pcs
      BY <1>4, WorkerIsSane DEF Sane, Pcs
    <3>2. w2 = [w EXCEPT !.pc = next, !.prepared = FALSE, !.sends = 1]
      BY <3>1, <1>2 DEF Workers
    <3>3. /\ w2 \in Workers /\ w2.pc = next /\ w2.active = w.active /\ w2.claim = Nobody
          /\ w2.review = Nobody /\ w2.sends = 1 /\ w2.prepared = FALSE /\ w2.trusted = w.trusted
      <4> HIDE DEF w
      <4> QED BY <1>2, <3>1, <3>2 DEF Workers
    <3> HIDE DEF w2
    <3>4. Sane(w2, applied')
      BY <1>2, <1>4, <3>3 DEF Sane, Commanded, Resolving
    <3>5. Become(t, w2)
      BY <2>4 DEF w2
    <3> QED BY <1>2, <2>2, <3>3, <3>4, <3>5, BecomeDid
  <2> QED BY <2>1, <2>3, <2>4
<1> QED BY <1>3, <1>4 DEF Deploy

LEMMA ReviewReturnedDid ==
    ASSUME ApprovalInv, NEW t \in Tuis, ReviewReturned(t)
    PROVE  WorkerDid(t) /\ AtHand(t)'
<1>1. /\ UNCHANGED brokerVars /\ LinkOf(t) /\ UNCHANGED <<session, commands, applied>>
      /\ worker[t].pc = "returned"
      /\ Ask(t, Returned) \/ Fail(t)
  BY DEF ReviewReturned, Executing, Working, Read, Call, LinkOf
<1>2. /\ worker[t].active \in Claims /\ worker[t].claim = Nobody
      /\ worker[t].active.req \in applied'
  BY <1>1, WorkerIsSane DEF Sane, Commanded, Resolving
<1>3. InCommand(t)
  BY <1>1, QuietBroker, ExecutingIsInCommand
<1>4. CASE Ask(t, Returned)
  BY <1>2, <1>3, <1>4, AskDid
<1>5. CASE Fail(t)
  BY <1>2, <1>3, <1>5, FailDid
<1> QED BY <1>1, <1>4, <1>5

LEMMA ConfirmDid ==
    ASSUME ApprovalInv, NEW t \in Tuis, Confirm(t)
    PROVE  WorkerDid(t) /\ AtHand(t)'
<1>1. /\ UNCHANGED brokerVars /\ LinkOf(t) /\ UNCHANGED <<session, commands, applied>>
      /\ worker[t].pc = "confirm"
      /\ Go(t, "after") \/ Fail(t)
  BY DEF Confirm, Executing, Working, Renew, Read, Call, LinkOf
<1>2. /\ worker[t].active \in Claims /\ worker[t].claim = Nobody /\ worker[t].review = Nobody
      /\ worker[t].active.req \in applied /\ worker[t] \in Workers
  BY <1>1, WorkerIsSane DEF Sane, Commanded, Resolving
<1>3. InCommand(t)
  BY <1>1, QuietBroker, ExecutingIsInCommand
<1>4. CASE Go(t, "after")
  <2> DEFINE w2 == [worker[t] EXCEPT !.pc = "after"]
  <2>1. w2 \in Workers /\ Sane(w2, applied)
    BY <1>1, <1>2, WorkerIsSane, GoIsSane DEF Commanded, Resolving
  <2>2. w2.pc = "after" /\ w2.active = worker[t].active /\ w2.claim = worker[t].claim
    BY <1>2 DEF Workers
  <2>3. Become(t, w2)
    BY <1>4 DEF Go
  <2> HIDE DEF w2
  <2> QED BY <1>1, <1>3, <2>1, <2>2, <2>3, BecomeDid
<1>5. CASE Fail(t)
  BY <1>2, <1>3, <1>5, FailDid
<1> QED BY <1>1, <1>4, <1>5

LEMMA AnswerReviewDid ==
    ASSUME ApprovalInv, NEW t \in Tuis, AnswerReview(t)
    PROVE  WorkerDid(t) /\ AtHand(t)'
<1> DEFINE w == worker[t]
           next == IF w.pc = "decline" THEN "declined"
                   ELSE IF w.review.stage = Identity THEN "before" ELSE "after"
           w2 == [w EXCEPT !.review = Nobody, !.pc = next]
<1>1. /\ UNCHANGED brokerVars /\ LinkOf(t) /\ UNCHANGED <<session, commands, applied>>
      /\ worker[t].pc \in {"accept", "decline"}
      /\ \/ Become(t, w2)
         \/ /\ Lose(t)
            /\ \/ link' = [link EXCEPT ![t] = "broken"]
               \/ /\ link[t] = "up"
                  /\ ~ Holds(session[t], w.active.req, w.active.lease)
  BY DEF AnswerReview, Executing, Working, Renew, Read, Call, LinkOf
<1>2. InCommand(t)
  BY <1>1, QuietBroker, ExecutingIsInCommand
<1>3. w.active \in Claims /\ w.claim = Nobody /\ w \in Workers
  BY <1>1, WorkerIsSane DEF Sane, Commanded, Resolving
<1>4. CASE Become(t, w2)
  <2>1. /\ next \in {"declined", "before", "after"}
        /\ next = "after" => w.active.req \in applied
    BY <1>1, WorkerIsSane DEF Sane, Reviews
  <2> HIDE DEF next
  <2>2. /\ w2 \in Workers /\ w2.pc = next /\ w2.active = w.active /\ w2.claim = w.claim
        /\ w2.review = Nobody /\ w2.sends = w.sends /\ w2.prepared = w.prepared
        /\ w2.trusted = w.trusted
    <3>1. next \in Pcs
      BY <2>1 DEF Pcs
    <3> HIDE DEF w
    <3> QED BY <1>3, <3>1 DEF Workers
  <2> HIDE DEF w2
  <2>3. Sane(w2, applied')
    <3>1. Sane(w, applied)
      BY WorkerIsSane
    <3> QED BY <1>1, <1>3, <2>1, <2>2, <3>1 DEF Sane, Commanded, Resolving
  <2> QED BY <1>2, <1>4, <2>1, <2>2, <2>3, BecomeDid
<1>5. CASE Lose(t) /\ link' = [link EXCEPT ![t] = "broken"]
  <2>1. link'[t] # "up"
    BY <1>5 DEF ApprovalInv, TuiTypes
  <2> QED BY <1>2, <1>5, <2>1, LoseDid
<1>6. CASE Lose(t) /\ link[t] = "up" /\ ~ Holds(session[t], w.active.req, w.active.lease)
  <2>1. NothingHeld(t)
    BY <1>3, <1>6, NotRenewed
  <2>2. NothingHeld(t)'
    BY <1>1, <2>1, QuietBroker, NothingHeldStays
  <2> QED BY <1>2, <1>6, <2>2, LoseDid
<1> QED BY <1>1, <1>4, <1>5, <1>6

\* submit_host_followups() claims nothing.
LEMMA SubmitClaimsNothing ==
    ASSUME BrokerTypeOK, NEW r \in Requests, Submit(r)
    PROVE  NoNewClaim
BY DEF Submit, NoNewClaim, BrokerTypeOK

\* The command goes on as it is.
LEMMA StaysDid ==
    ASSUME ApprovalInv, NEW t \in Tuis, InCommand(t),
           worker[t].pc \notin {"loop", "claim", "refuse"}, Become(t, worker[t])
    PROVE  WorkerDid(t) /\ AtHand(t)'
BY WorkerIsSane, BecomeDid DEF InCommand

LEMMA ApplyDid ==
    ASSUME ApprovalInv, NEW t \in Tuis, Apply(t)
    PROVE  WorkerDid(t) /\ AtHand(t)'
<1> DEFINE w == worker[t]
           next == IF w.pc = "before" THEN [w EXCEPT !.pc = "details"]
                   ELSE TakeOut(w, "complete")
<1>1. /\ UNCHANGED brokerVars \/ \E r \in Requests : Submit(r)
      /\ LinkOf(t) /\ UNCHANGED <<session, commands, applied>>
      /\ worker[t].pc \in {"before", "after"}
      /\ Become(t, next) \/ Fail(t) \/ Become(t, worker[t])
  BY DEF Apply, Executing, Working, FollowUp, Local, Read, Call, LinkOf
<1>2. NoNewClaim
  BY <1>1, QuietBroker, SubmitClaimsNothing DEF ApprovalInv, BrokerInv
<1>3. InCommand(t)
  BY <1>1, <1>2, ExecutingIsInCommand
<1>4. /\ w.active \in Claims /\ w.claim = Nobody /\ w.review = Nobody /\ w \in Workers
      /\ w.pc = "after" => w.active.req \in applied
  BY <1>1, WorkerIsSane DEF Sane, Commanded, Resolving
<1>5. CASE Become(t, next)
  <2>1. CASE w.pc = "before"
    <3> DEFINE w2 == [w EXCEPT !.pc = "details"]
    <3>1. w2 \in Workers /\ Sane(w2, applied)
      BY <1>1, <1>4, WorkerIsSane, GoIsSane DEF Commanded, Resolving
    <3>2. w2.pc = "details" /\ w2.active = worker[t].active /\ w2.claim = worker[t].claim
      BY <1>4 DEF Workers
    <3>3. Become(t, w2)
      BY <1>5, <2>1
    <3> HIDE DEF w2
    <3> QED BY <1>1, <1>3, <3>1, <3>2, <3>3, BecomeDid
  <2>2. CASE w.pc = "after"
    <3> DEFINE w2 == TakeOut(w, "complete")
    <3>1. /\ w2 \in Workers /\ Sane(w2, applied) /\ w2.pc = "complete"
          /\ w2.claim = w.active /\ w2.active = Nobody
      BY <1>4, <2>2, TakeOutIsSane DEF Resolving
    <3>2. Become(t, w2)
      BY <1>5, <2>2
    <3> HIDE DEF w2
    <3> QED BY <1>1, <1>3, <1>4, <3>1, <3>2, BecomeDid
  <2> QED BY <1>1, <2>1, <2>2
<1>6. CASE Fail(t)
  BY <1>3, <1>4, <1>6, FailDid
<1>7. CASE Become(t, worker[t])
  BY <1>1, <1>3, <1>7, StaysDid
<1> QED BY <1>1, <1>5, <1>6, <1>7

LEMMA DeclineDid ==
    ASSUME ApprovalInv, NEW t \in Tuis, Decline(t)
    PROVE  WorkerDid(t) /\ AtHand(t)'
<1> DEFINE w == worker[t]
<1>1. /\ UNCHANGED brokerVars \/ \E r \in Requests : Submit(r)
      /\ LinkOf(t) /\ UNCHANGED <<session, commands, applied>>
      /\ worker[t].pc = "declined"
      /\ \/ Become(t, TakeOut(w, "reject")) \/ Become(t, worker[t])
         \/ Tell(t, [worker[t] EXCEPT !.pc = "loop"], "lost", Nobody)
  BY DEF Decline, Executing, Working, FollowUp, Local, Read, Call, LinkOf
<1>2. NoNewClaim
  BY <1>1, QuietBroker, SubmitClaimsNothing DEF ApprovalInv, BrokerInv
<1>3. InCommand(t)
  BY <1>1, <1>2, ExecutingIsInCommand
<1>4. w.active \in Claims /\ w.claim = Nobody /\ w.review = Nobody /\ w \in Workers
  BY <1>1, WorkerIsSane DEF Sane, Commanded, Resolving
<1>5. CASE Become(t, TakeOut(w, "reject"))
  <2> DEFINE w2 == TakeOut(w, "reject")
  <2>1. /\ w2 \in Workers /\ Sane(w2, applied) /\ w2.pc = "reject"
        /\ w2.claim = w.active /\ w2.active = Nobody
    BY <1>4, TakeOutIsSane DEF Resolving
  <2>2. Become(t, w2)
    BY <1>5
  <2> HIDE DEF w2
  <2> QED BY <1>1, <1>3, <1>4, <2>1, <2>2, BecomeDid
<1>6. CASE Become(t, worker[t])
  BY <1>1, <1>3, <1>6, StaysDid
<1>7. CASE Tell(t, [worker[t] EXCEPT !.pc = "loop"], "lost", Nobody)
  <2> DEFINE w2 == [worker[t] EXCEPT !.pc = "loop"]
  <2>1. w2 \in Workers /\ Sane(w2, applied)
    BY <1>1, <1>4, WorkerIsSane, GoIsSane DEF Commanded, Resolving
  <2>2. w2.pc = "loop" /\ w2.active = worker[t].active /\ w2.claim = worker[t].claim
    BY <1>4 DEF Workers
  <2>3. Tell(t, w2, "lost", Nobody) /\ Event("lost", Nobody) \in Events
    BY <1>7 DEF Event, Events
  <2> HIDE DEF w2
  <2> QED BY <1>1, <1>3, <2>1, <2>2, <2>3, TellDid
<1> QED BY <1>1, <1>5, <1>6, <1>7

LEMMA ResolveSettles ==
    ASSUME BrokerTypeOK, NEW s, NEW r \in Requests, NEW l, NEW decision \in Decisions,
           Resolve(s, r, l, decision)
    PROVE  NoNewClaim /\ status'[r] # "claimed" /\ r \in Over'
BY DEF Resolve, Settle, Holds, NoNewClaim, BrokerTypeOK, Over, Decisions

LEMMA ResolvedIsNothingHeld ==
    ASSUME ApprovalInv, NEW t \in Tuis, link[t] = "up", worker[t].pc \in Resolving,
           session'[t] = session[t], NEW decision \in Decisions,
           Resolve(session[t], worker[t].claim.req, worker[t].claim.lease, decision)
    PROVE  NothingHeld(t)'
<1> DEFINE c == worker[t].claim
<1>1. c \in Claims /\ worker[t].active = Nobody /\ c.req \in Requests
  BY WorkerIsSane DEF Sane, Claims
<1>2. NoNewClaim /\ status'[c.req] # "claimed"
  BY <1>1, ResolveSettles DEF ApprovalInv, BrokerInv
<1> SUFFICES ASSUME NEW r \in Requests, status'[r] = "claimed", owner'[r] = session'[t]
             PROVE  FALSE
  BY DEF NothingHeld
<1>3. status[r] = "claimed" /\ owner[r] = session[t]
  BY <1>2 DEF NoNewClaim
<1> DEFINE d == [req |-> r, lease |-> lease[r]]
<1>4. d \in Claims
  BY <1>3 DEF ApprovalInv, BrokerInv, BrokerTypeOK, LeasesGiven, Claims, Leases
<1>5. d \in {Nobody, c}
  BY <1>1, <1>3, WorkerIsSane DEF AtHand
<1>6. d = c
  BY <1>4, <1>5, NobodyIsNone
<1>7. r = c.req
  BY <1>6
<1> QED BY <1>2, <1>7

\* What resolve() did, where a worker answers for the claim it took out.
Answered(t, decision) ==
    Resolve(session[t], worker[t].claim.req, worker[t].claim.lease, decision)

LEMMA AnsweredClaimsNothing ==
    ASSUME ApprovalInv, NEW t \in Tuis, worker[t].pc \in Resolving,
           NEW decision \in Decisions, UNCHANGED brokerVars \/ Answered(t, decision)
    PROVE  NoNewClaim
<1>1. worker[t].claim.req \in Requests
  BY WorkerIsSane DEF Sane, Claims
<1> QED BY <1>1, QuietBroker, ResolveSettles DEF ApprovalInv, BrokerInv, Answered

\* After it, the worker's session holds nothing, if it is still connected.
LEMMA AnsweredIsNothingHeld ==
    ASSUME ApprovalInv, NEW t \in Tuis, worker[t].pc \in Resolving,
           NEW decision \in Decisions, UNCHANGED session,
           \/ link' = [link EXCEPT ![t] = "broken"]
           \/ link[t] = "up" /\ Answered(t, decision)
           \/ /\ link[t] = "up" /\ UNCHANGED brokerVars
              /\ ~ Holds(session[t], worker[t].claim.req, worker[t].claim.lease)
    PROVE  link'[t] = "up" => NothingHeld(t)'
<1>1. CASE link' = [link EXCEPT ![t] = "broken"]
  BY <1>1 DEF ApprovalInv, TuiTypes
<1>2. CASE link[t] = "up" /\ Answered(t, decision)
  BY <1>2, ResolvedIsNothingHeld DEF Answered
<1>3. CASE /\ link[t] = "up" /\ UNCHANGED brokerVars
           /\ ~ Holds(session[t], worker[t].claim.req, worker[t].claim.lease)
  <2>1. worker[t].active = Nobody
    BY WorkerIsSane DEF Sane
  <2>2. NothingHeld(t)
    BY <1>3, <2>1, NotHeldIsNothingHeld, NobodyIsNone
  <2> QED BY <1>3, <2>2, QuietBroker, NothingHeldStays
<1> QED BY <1>1, <1>2, <1>3

LEMMA ConcludeDid ==
    ASSUME ApprovalInv, NEW t \in Tuis, Conclude(t)
    PROVE  WorkerDid(t) /\ AtHand(t)'
<1> DEFINE w == worker[t]
           decision == IF w.pc = "complete" THEN "approved" ELSE "rejected"
<1>1. /\ LinkOf(t) /\ UNCHANGED <<session, commands, applied>>
      /\ worker[t].pc \in {"complete", "reject"}
      /\ UNCHANGED brokerVars \/ Answered(t, decision)
      /\ \/ link' = [link EXCEPT ![t] = "broken"]
         \/ link[t] = "up" /\ Answered(t, decision)
         \/ /\ link[t] = "up" /\ UNCHANGED brokerVars
            /\ ~ Holds(session[t], worker[t].claim.req, worker[t].claim.lease)
      /\ \/ Lose(t)
         \/ Tell(t, Idle, "over", w.claim.req) /\ Answered(t, decision)
  BY DEF Conclude, Executing, Working, Answer, Read, Call, LinkOf, Answered
<1>2. decision \in Decisions /\ w.pc \in Resolving /\ w.claim.req \in Requests
  BY <1>1, WorkerIsSane DEF Decisions, Resolving, Sane, Claims
<1> HIDE DEF decision
<1>3. InCommand(t)
  BY <1>1, <1>2, AnsweredClaimsNothing, ExecutingIsInCommand
<1>4. link'[t] = "up" => NothingHeld(t)'
  BY <1>1, <1>2, AnsweredIsNothingHeld
<1>5. CASE Lose(t)
  BY <1>3, <1>4, <1>5, LoseDid
<1>6. CASE Tell(t, Idle, "over", w.claim.req) /\ Answered(t, decision)
  <2>1. w.claim.req \in Over'
    BY <1>2, <1>6, ResolveSettles DEF Answered, ApprovalInv, BrokerInv
  <2>2. Event("over", w.claim.req) \in Events
    BY <1>2 DEF Event, Events
  <2> QED BY <1>3, <1>4, <1>6, <2>1, <2>2, ForgetDid
<1> QED BY <1>1, <1>5, <1>6

\* A claim is dropped between two commands.
LEMMA DroppedDid ==
    ASSUME ApprovalInv, NEW t \in Tuis, worker[t].pc \in {"loop", "claim", "refuse"},
           UNCHANGED commands, link'[t] = "up" => NothingHeld(t)',
           Tell(t, Idle, "dropped", Nobody)
    PROVE  WorkerDid(t) /\ AtHand(t)'
<1> DEFINE e == Event("dropped", Nobody)
<1>1. /\ worker' = [worker EXCEPT ![t] = Idle]
      /\ events' = [events EXCEPT ![t] = Append(@, e)]
  BY DEF Tell
<1>2. e \in Events /\ ~ Completes(e) /\ e.kind # "over"
  BY DEF Event, Events, Completes
<1>3. Idle \in Workers /\ Sane(Idle, applied') /\ Idle.pc = "loop"
  BY IdleIsSane DEF Idle
<1> HIDE DEF e
<1>4. Telling(t, Idle, e)
  <2>1. /\ UnderWay(Idle) = 0 /\ UnderWay(worker[t]) = 0
        /\ (IF Completes(e) THEN 1 ELSE 0) = 0
    BY <1>2, <1>3 DEF UnderWay
  <2> QED BY <1>1, <1>2, <2>1, WorkerIsSane DEF Telling
<1> QED BY <1>2, <1>3, <1>4, ForgetsNothing DEF WorkerDid

LEMMA GiveUpDid ==
    ASSUME ApprovalInv, NEW t \in Tuis, GiveUp(t)
    PROVE  WorkerDid(t) /\ AtHand(t)'
<1> DEFINE w == worker[t]
           kind == IF w.pc = "refuse" THEN "dropped" ELSE "lost"
<1>1. /\ LinkOf(t) /\ UNCHANGED <<session, commands, applied>>
      /\ worker[t].pc \in {"giveup", "refuse"}
      /\ UNCHANGED brokerVars \/ Answered(t, "rejected")
      /\ \/ link' = [link EXCEPT ![t] = "broken"]
         \/ link[t] = "up" /\ Answered(t, "rejected")
         \/ /\ link[t] = "up" /\ UNCHANGED brokerVars
            /\ ~ Holds(session[t], worker[t].claim.req, worker[t].claim.lease)
      /\ Tell(t, Idle, kind, Nobody)
  BY DEF GiveUp, Executing, Working, Answer, Read, Call, LinkOf, Answered
<1>2. "rejected" \in Decisions /\ w.pc \in Resolving
  BY <1>1 DEF Decisions, Resolving
<1>3. link'[t] = "up" => NothingHeld(t)'
  BY <1>1, <1>2, AnsweredIsNothingHeld
<1>4. CASE w.pc = "refuse"
  BY <1>1, <1>3, <1>4, DroppedDid
<1>5. CASE w.pc = "giveup"
  <2>1. InCommand(t)
    BY <1>1, <1>2, <1>5, AnsweredClaimsNothing, ExecutingIsInCommand
  <2>2. Lose(t)
    BY <1>1, <1>5 DEF Lose, Forget
  <2> QED BY <1>3, <2>1, <2>2, LoseDid
<1> QED BY <1>1, <1>4, <1>5

-----------------------------------------------------------------------------
(* The commands, and what the worker does between them.                    *)

LEMMA HeadAndTail ==
    ASSUME NEW S, NEW q \in Seq(S), q # <<>>
    PROVE  Head(q) \in S /\ Tail(q) \in Seq(S) /\ Len(Tail(q)) \in Nat /\ Len(Tail(q)) + 1 = Len(q)
OBVIOUS

LEMMA ReceiveIsInCommand ==
    ASSUME ApprovalInv, NEW t \in Tuis, NEW kind, Receive(t, kind)
    PROVE  /\ InCommand(t) /\ UNCHANGED brokerVars /\ UNCHANGED link /\ UNCHANGED session
           /\ UNCHANGED applied /\ worker[t].pc = "loop" /\ worker[t].claim = Nobody
           /\ Head(commands[t]) \in Commands /\ Head(commands[t]).kind = kind
<1>1. /\ UNCHANGED brokerVars /\ UNCHANGED link /\ UNCHANGED session /\ UNCHANGED applied
      /\ worker[t].pc = "loop" /\ commands[t] # <<>> /\ Head(commands[t]).kind = kind
      /\ commands' = [commands EXCEPT ![t] = Tail(@)]
  BY DEF Receive, Working, Local
<1>2. commands[t] \in Seq(Commands) /\ commands'[t] = Tail(commands[t])
  BY <1>1, WorkerIsSane
<1>3. /\ Head(commands[t]) \in Commands
      /\ Len(commands'[t]) \in Nat /\ Len(commands'[t]) + 1 = Len(commands[t])
  BY <1>1, <1>2, HeadAndTail
<1>4. worker[t].claim = Nobody
  BY <1>1, WorkerIsSane DEF Sane, Resolving
<1> QED BY <1>1, <1>3, <1>4, QuietBroker, WorkerIsSane DEF InCommand, UnderWay

LEMMA TakeWriteDid ==
    ASSUME ApprovalInv, NEW t \in Tuis, TakeWrite(t)
    PROVE  WorkerDid(t) /\ AtHand(t)'
<1>1. Event("saved", Nobody) \in Events
  BY DEF Event, Events
<1>2. Receive(t, "write") /\ Tell(t, worker[t], "saved", Nobody)
  BY DEF TakeWrite
<1>3. InCommand(t) /\ worker[t].pc = "loop" /\ UNCHANGED applied
  BY <1>2, ReceiveIsInCommand
<1> QED BY <1>1, <1>2, <1>3, WorkerIsSane, TellDid

LEMMA TakeReviewDid ==
    ASSUME ApprovalInv, NEW t \in Tuis, TakeReview(t)
    PROVE  WorkerDid(t) /\ AtHand(t)'
<1> DEFINE w == worker[t]
           c == Head(commands[t])
<1>1. Receive(t, "review")
  BY DEF TakeReview
<1>2. /\ InCommand(t) /\ w.pc = "loop" /\ UNCHANGED applied /\ w.claim = Nobody
      /\ c \in Commands /\ c.kind = "review"
  BY <1>1, ReceiveIsInCommand
<1>3. c.about \in Dialogs /\ c.about # Nobody
  BY <1>2, NobodyIsNone DEF Commands
<1>4. CASE w.active # Nobody /\ w.review = c.about
  <2> DEFINE next == IF c.yes THEN "accept" ELSE "decline"
             w2 == [w EXCEPT !.pc = next]
  <2>1. Become(t, w2) /\ next \in {"accept", "decline"}
    BY <1>4 DEF TakeReview, Go
  <2> HIDE DEF next, c
  <2>2. /\ w2 \in Workers /\ w2.pc = next /\ w2.active = w.active /\ w2.claim = w.claim
        /\ w2.review = w.review /\ w2.sends = w.sends /\ w2.prepared = w.prepared
        /\ w2.trusted = w.trusted
    <3>1. next \in Pcs /\ w \in Workers
      BY <2>1, WorkerIsSane DEF Pcs
    <3> HIDE DEF w
    <3> QED BY <3>1 DEF Workers
  <2> HIDE DEF w2
  <2>3. Sane(w2, applied')
    <3>1. Sane(w, applied) /\ w.active \in Claims
      BY <1>4, WorkerIsSane DEF Workers
    <3> QED BY <1>2, <1>3, <1>4, <2>1, <2>2, <3>1 DEF Sane, Commanded, Resolving
  <2> QED BY <1>2, <2>1, <2>2, <2>3, BecomeDid
<1>5. CASE ~ (w.active # Nobody /\ w.review = c.about)
  <2>1. Tell(t, w, "lost", Nobody)
    BY <1>5 DEF TakeReview
  <2>2. Event("lost", Nobody) \in Events
    BY DEF Event, Events
  <2> QED BY <1>2, <2>1, <2>2, WorkerIsSane, TellDid
<1> QED BY <1>4, <1>5

LEMMA TakeAnswerDid ==
    ASSUME ApprovalInv, NEW t \in Tuis, TakeAnswer(t)
    PROVE  WorkerDid(t) /\ AtHand(t)'
<1> DEFINE w == worker[t]
           c == Head(commands[t])
<1>1. Receive(t, "answer")
  BY DEF TakeAnswer
<1>2. /\ InCommand(t) /\ w.pc = "loop" /\ UNCHANGED applied /\ w.claim = Nobody
      /\ UNCHANGED brokerVars /\ UNCHANGED link /\ UNCHANGED session
      /\ c \in Commands /\ c.kind = "answer"
  BY <1>1, ReceiveIsInCommand
<1>3. c.about \in Dialogs
  BY <1>2 DEF Commands
<1>4. w \in Workers /\ Sane(w, applied) /\ (w.active # Nobody => w.active \in Claims)
  BY WorkerIsSane DEF Workers
<1>5. CASE w.active = Nobody /\ Lose(t)
  <2>1. link[t] = "up" => NothingHeld(t)
    BY <1>2, <1>5, NotHeldIsNothingHeld, NobodyIsNone
  <2>2. link'[t] = "up" => NothingHeld(t)'
    BY <1>2, <2>1, QuietBroker, NothingHeldStays
  <2> QED BY <1>2, <1>5, <2>2, LoseDid
<1>6. CASE w.active # Nobody /\ Fail(t)
  BY <1>2, <1>4, <1>6, FailDid
<1>7. ASSUME w.active # Nobody, w.review = Nobody, ~ w.trusted,
             NEW next \in {"identity", "details"},
             Become(t, [w EXCEPT !.pc = next, !.trusted = TRUE,
                                 !.prepared = TRUE, !.shown = c.about])
      PROVE  WorkerDid(t) /\ AtHand(t)'
  <2> DEFINE a == c.about
             w2 == [w EXCEPT !.pc = next, !.trusted = TRUE, !.prepared = TRUE, !.shown = a]
  <2>1. Become(t, w2)
    BY <1>7
  <2>2. a \in Dialogs /\ next \in Pcs
    BY <1>3 DEF Pcs
  <2> HIDE DEF a, c
  <2>3. /\ w2 \in Workers /\ w2.pc = next /\ w2.active = w.active /\ w2.claim = w.claim
        /\ w2.review = w.review /\ w2.sends = w.sends /\ w2.prepared = TRUE
        /\ w2.trusted = TRUE
    <3> HIDE DEF w
    <3> QED BY <1>4, <2>2 DEF Workers
  <2> HIDE DEF w2
  <2>4. Sane(w2, applied')
    BY <1>2, <1>4, <1>7, <2>3 DEF Sane, Commanded, Resolving
  <2> QED BY <1>2, <2>1, <2>3, <2>4, BecomeDid
<1>8. ASSUME w.active # Nobody, w.review = Nobody, w.trusted,
             Become(t, [w EXCEPT !.pc = "renew", !.shown = c.about])
      PROVE  WorkerDid(t) /\ AtHand(t)'
  <2> DEFINE a == c.about
             w2 == [w EXCEPT !.pc = "renew", !.shown = a]
  <2>1. Become(t, w2)
    BY <1>8
  <2>2. a \in Dialogs /\ "renew" \in Pcs
    BY <1>3 DEF Pcs
  <2> HIDE DEF a, c
  <2>3. /\ w2 \in Workers /\ w2.pc = "renew" /\ w2.active = w.active /\ w2.claim = w.claim
        /\ w2.review = w.review /\ w2.sends = w.sends /\ w2.prepared = w.prepared
        /\ w2.trusted = w.trusted
    <3> HIDE DEF w
    <3> QED BY <1>4, <2>2 DEF Workers
  <2> HIDE DEF w2
  <2>4. Sane(w2, applied')
    BY <1>2, <1>4, <1>8, <2>3 DEF Sane, Commanded, Resolving
  <2> QED BY <1>2, <2>1, <2>3, <2>4, BecomeDid
<1>9. ASSUME w.active # Nobody,
             Become(t, [TakeOut(w, "reject") EXCEPT !.shown = c.about])
      PROVE  WorkerDid(t) /\ AtHand(t)'
  <2> DEFINE a == c.about
             x == TakeOut(w, "reject")
             w2 == [x EXCEPT !.shown = a]
  <2>1. Become(t, w2)
    BY <1>9
  <2>2. a \in Dialogs
    BY <1>3
  <2>3. /\ x \in Workers /\ Sane(x, applied) /\ x.pc = "reject"
        /\ x.claim = w.active /\ x.active = Nobody
    BY <1>4, <1>9, TakeOutIsSane DEF Resolving
  <2> HIDE DEF a, c, x
  <2>4. /\ w2 \in Workers /\ w2.pc = x.pc /\ w2.active = x.active /\ w2.claim = x.claim
        /\ w2.review = x.review /\ w2.sends = x.sends /\ w2.prepared = x.prepared
        /\ w2.trusted = x.trusted
    BY <2>2, <2>3 DEF Workers
  <2> HIDE DEF w2
  <2>5. Sane(w2, applied')
    BY <1>2, <2>3, <2>4 DEF Sane
  <2> QED BY <1>2, <2>1, <2>3, <2>4, <2>5, BecomeDid
<1> QED BY <1>5, <1>6, <1>7, <1>8, <1>9 DEF TakeAnswer

\* The worker becomes w2 between two commands.
LEMMA IdlingDid ==
    ASSUME ApprovalInv, NEW t \in Tuis, worker[t].pc \in {"loop", "claim", "refuse"},
           UNCHANGED commands, NEW w2 \in Workers, Sane(w2, applied'),
           w2.pc \in {"loop", "claim", "refuse"}, Become(t, w2)
    PROVE  WorkerDid(t) /\ worker'[t] = w2
<1>1. worker' = [worker EXCEPT ![t] = w2] /\ UNCHANGED events /\ worker'[t] = w2
  BY WorkerIsSane DEF Become
<1>2. Silent(t, w2)
  BY <1>1, WorkerIsSane DEF Silent, UnderWay
<1> QED BY <1>1, <1>2 DEF WorkerDid

LEMMA ReconnectDid ==
    ASSUME ApprovalInv, NEW t \in Tuis, Reconnect(t)
    PROVE  WorkerDid(t) /\ AtHand(t)'
<1>1. /\ worker[t].pc = "loop" /\ Register(nextSession) /\ UNCHANGED <<commands, applied>>
      /\ session' = [session EXCEPT ![t] = nextSession]
      /\ Become(t, Idle) \/ Tell(t, Idle, "dropped", Nobody)
  BY DEF Reconnect, Working, Connect, Forget
<1>2. NothingHeld(t)'
  <2> SUFFICES ASSUME NEW r \in Requests, status'[r] = "claimed", owner'[r] = session'[t]
               PROVE  FALSE
    BY DEF NothingHeld
  <2>1. status[r] = "claimed" /\ owner[r] = nextSession
    BY <1>1 DEF Register, ApprovalInv, TuiTypes
  <2>2. nextSession \in 1..(nextSession - 1)
    BY <2>1 DEF ApprovalInv, BrokerInv, ClaimsAreOwned, SessionsApart
  <2> QED BY <2>2 DEF ApprovalInv, TuiTypes
<1>3. CASE Become(t, Idle)
  <2>1. Idle \in Workers /\ Sane(Idle, applied') /\ Idle.pc = "loop"
    BY IdleIsSane DEF Idle
  <2> QED BY <1>1, <1>2, <1>3, <2>1, IdlingDid, ForgetsNothing
<1>4. CASE Tell(t, Idle, "dropped", Nobody)
  BY <1>1, <1>2, <1>4, DroppedDid
<1> QED BY <1>1, <1>3, <1>4

LEMMA PendingClaimsNothing ==
    ASSUME NEW s, Pending(s) PROVE NoNewClaim
BY DEF Pending, NoNewClaim

LEMMA PollDid ==
    ASSUME ApprovalInv, NEW t \in Tuis, Poll(t)
    PROVE  WorkerDid(t) /\ AtHand(t)'
<1> DEFINE w == worker[t]
           td == queued[session[t]] \cap PendingIds
           w2 == [w EXCEPT !.pc = "claim", !.todo = td]
<1>1. w.pc = "loop" /\ UNCHANGED <<session, commands, applied>>
  BY DEF Poll, Working
<1>2. w \in Workers /\ Sane(w, applied') /\ w.claim = Nobody /\ td \in SUBSET Requests
  BY <1>1, WorkerIsSane DEF Sane, Resolving, PendingIds
<1>3. CASE /\ w.active # Nobody
           /\ Renew(t, w.active, Become(t, w), Tell(t, Forget(w), "dropped", Nobody))
  <2>1. /\ UNCHANGED brokerVars /\ LinkOf(t)
        /\ \/ Become(t, w)
           \/ /\ Tell(t, Idle, "dropped", Nobody)
              /\ \/ link' = [link EXCEPT ![t] = "broken"]
                 \/ /\ link[t] = "up"
                    /\ ~ Holds(session[t], w.active.req, w.active.lease)
    BY <1>3 DEF Renew, Read, Call, LinkOf, Forget
  <2>2. CASE Become(t, w)
    <3>1. WorkerDid(t) /\ worker'[t] = w
      BY <1>1, <1>2, <2>2, IdlingDid
    <3> QED BY <1>1, <2>1, <3>1, QuietBroker, LinkOnlyBreaks, KeepsAtHand, WorkerIsSane
  <2>3. CASE Tell(t, Idle, "dropped", Nobody) /\ link' = [link EXCEPT ![t] = "broken"]
    <3>1. link'[t] # "up"
      BY <2>3 DEF ApprovalInv, TuiTypes
    <3> QED BY <1>1, <2>3, <3>1, DroppedDid
  <2>4. CASE /\ Tell(t, Idle, "dropped", Nobody) /\ link[t] = "up"
             /\ ~ Holds(session[t], w.active.req, w.active.lease)
    <3>1. NothingHeld(t)
      BY <1>2, <2>4, NotRenewed
    <3>2. NothingHeld(t)'
      BY <1>1, <2>1, <3>1, QuietBroker, NothingHeldStays
    <3> QED BY <1>1, <2>4, <3>2, DroppedDid
  <2> QED BY <2>1, <2>2, <2>3, <2>4
<1>4. CASE /\ w.active = Nobody
           /\ Call(t, Pending(session[t]), Become(t, w2), Tell(t, Forget(w), "dropped", Nobody))
  <2>1. /\ UNCHANGED brokerVars \/ Pending(session[t])
        /\ LinkOf(t)
        /\ Become(t, w2) \/ Tell(t, Idle, "dropped", Nobody)
    BY <1>4 DEF Call, LinkOf, Forget
  <2>2. link[t] = "up" => NothingHeld(t)
    BY <1>2, <1>4, NotHeldIsNothingHeld, NobodyIsNone
  <2>3. NoNewClaim
    BY <2>1, QuietBroker, PendingClaimsNothing
  <2>4. link'[t] = "up" => NothingHeld(t)'
    BY <1>1, <2>1, <2>2, <2>3, NothingHeldStays, LinkOnlyBreaks
  <2>5. CASE Become(t, w2)
    <3> HIDE DEF td
    <3>1. /\ w2 \in Workers /\ w2.pc = "claim" /\ w2.active = w.active /\ w2.claim = w.claim
          /\ w2.review = w.review /\ w2.sends = w.sends /\ w2.prepared = w.prepared
          /\ w2.trusted = w.trusted
      <4>1. "claim" \in Pcs
        BY DEF Pcs
      <4> HIDE DEF w
      <4> QED BY <1>2, <4>1 DEF Workers
    <3> HIDE DEF w2
    <3>2. Sane(w2, applied')
      <4>1. w.review = Nobody
        BY <1>2, <1>4, NobodyIsNone, WorkerIsSane DEF Sane, Workers, Dialogs, Claims
      <4> QED BY <1>1, <1>2, <1>4, <3>1, <4>1 DEF Sane, Commanded, Resolving
    <3> QED BY <1>1, <2>4, <2>5, <3>1, <3>2, IdlingDid, ForgetsNothing
  <2>6. CASE Tell(t, Idle, "dropped", Nobody)
    BY <1>1, <2>4, <2>6, DroppedDid
  <2> QED BY <2>1, <2>5, <2>6
<1> QED BY <1>3, <1>4 DEF Poll

\* claim() leases this one request to the session, with the lease it returns.
LEMMA ClaimLeases ==
    ASSUME ApprovalInv, NEW t \in Tuis, NothingHeld(t), NEW r \in Requests,
           Claim(session[t], r), session'[t] = session[t], NEW w2,
           [req |-> r, lease |-> nextLease] \in {w2.active, w2.claim}, worker'[t] = w2
    PROVE  AtHand(t)'
<1>1. /\ status \in [Requests -> Statuses] /\ lease \in [Requests -> Nat]
      /\ owner \in [Requests -> Sessions \cup {Nobody}]
  BY DEF ApprovalInv, BrokerInv, BrokerTypeOK
<1> SUFFICES ASSUME NEW q \in Requests, status'[q] = "claimed", owner'[q] = session'[t]
             PROVE  [req |-> q, lease |-> lease'[q]] \in {worker'[t].active, worker'[t].claim}
  BY DEF AtHand
<1>2. CASE q = r
  BY <1>1, <1>2 DEF Claim
<1>3. CASE q # r
  <2>1. status[q] = "claimed" /\ owner[q] = session[t]
    BY <1>1, <1>3 DEF Claim
  <2> QED BY <2>1 DEF NothingHeld
<1> QED BY <1>2, <1>3

LEMMA ClaimNextDid ==
    ASSUME ApprovalInv, NEW t \in Tuis, ClaimNext(t)
    PROVE  WorkerDid(t) /\ AtHand(t)'
<1> DEFINE w == worker[t]
<1>1. w.pc = "claim" /\ UNCHANGED <<session, commands, applied>>
  BY DEF ClaimNext, Executing, Working
<1>2. /\ w \in Workers /\ Sane(w, applied') /\ w.claim = Nobody /\ w.active = Nobody
      /\ w.review = Nobody /\ w.todo \subseteq Requests
  BY <1>1, WorkerIsSane DEF Sane, Resolving, Workers
<1>3. link[t] = "up" => NothingHeld(t)
  BY <1>2, NotHeldIsNothingHeld, NobodyIsNone
<1>4. CASE Go(t, "loop") /\ Local
  <2> DEFINE w2 == [w EXCEPT !.pc = "loop"]
  <2>1. w2 \in Workers /\ Sane(w2, applied')
    BY <1>1, <1>2, GoIsSane DEF Resolving
  <2>2. w2.pc = "loop" /\ w2.active = w.active /\ w2.claim = w.claim
    BY <1>2 DEF Workers
  <2>3. Become(t, w2)
    BY <1>4 DEF Go
  <2> HIDE DEF w2
  <2>4. WorkerDid(t) /\ worker'[t] = w2
    BY <1>1, <2>1, <2>2, <2>3, IdlingDid
  <2>5. UNCHANGED brokerVars /\ UNCHANGED link
    BY <1>4 DEF Local
  <2> QED BY <1>1, <2>2, <2>4, <2>5, QuietBroker, KeepsAtHand, WorkerIsSane
<1>5. ASSUME NEW r \in w.todo
      PROVE  LET c == [req |-> r, lease |-> nextLease]
                 offer(stage) ==
                    Tell(t, [Idle EXCEPT !.active = c, !.trusted = stage = Final],
                         "offer", Shown(c, stage))
             IN  Call(t, Claim(session[t], r),
                      \/ offer(Trust)
                      \/ offer(Final)
                      \/ Become(t, [Idle EXCEPT !.pc = "refuse", !.claim = c]),
                      Tell(t, Idle, "dropped", Nobody))
                 => WorkerDid(t) /\ AtHand(t)'
  <2> DEFINE c == [req |-> r, lease |-> nextLease]
             offered(stage) == [Idle EXCEPT !.active = c, !.trusted = stage = Final]
             refused == [Idle EXCEPT !.pc = "refuse", !.claim = c]
  <2>1. c \in Claims /\ r \in Requests
    BY <1>2 DEF ApprovalInv, BrokerInv, BrokerTypeOK, Claims, Leases
  <2> SUFFICES ASSUME Call(t, Claim(session[t], r),
                      \/ Tell(t, offered(Trust), "offer", Shown(c, Trust))
                      \/ Tell(t, offered(Final), "offer", Shown(c, Final))
                      \/ Become(t, refused),
                      Tell(t, Idle, "dropped", Nobody))
               PROVE  WorkerDid(t) /\ AtHand(t)'
    OBVIOUS
  <2>2. \/ /\ Tell(t, Idle, "dropped", Nobody)
           /\ link' = [link EXCEPT ![t] = "broken"]
        \/ /\ link[t] = "up" /\ Claim(session[t], r)
           /\ \/ Tell(t, offered(Trust), "offer", Shown(c, Trust))
              \/ Tell(t, offered(Final), "offer", Shown(c, Final))
              \/ Become(t, refused)
    BY DEF Call
  <2>3. CASE Tell(t, Idle, "dropped", Nobody) /\ link' = [link EXCEPT ![t] = "broken"]
    <3>1. link'[t] # "up"
      BY <2>3 DEF ApprovalInv, TuiTypes
    <3> QED BY <1>1, <2>3, <3>1, DroppedDid
  <2>4. ASSUME NEW stage \in {Trust, Final}, link[t] = "up", Claim(session[t], r),
               Tell(t, offered(stage), "offer", Shown(c, stage))
        PROVE  WorkerDid(t) /\ AtHand(t)'
    <3> DEFINE tr == stage = Final
               w2 == [Idle EXCEPT !.active = c, !.trusted = tr]
               e == Event("offer", Shown(c, stage))
    <3>1. e \in Events /\ ~ Completes(e) /\ e.kind # "over"
      BY <2>1, ShownIsDialog DEF Event, Events, Completes, Trust, Final, Returned
    <3>2. /\ worker' = [worker EXCEPT ![t] = w2]
          /\ events' = [events EXCEPT ![t] = Append(@, e)]
      BY <2>4 DEF Tell
    <3>3. tr \in BOOLEAN
      OBVIOUS
    <3> HIDE DEF c, tr, e
    <3>4. /\ w2 \in Workers /\ w2.pc = "loop" /\ w2.active = c /\ w2.claim = Nobody
          /\ w2.review = Nobody /\ w2.sends = 0
      BY <2>1, <3>3 DEF Idle, Workers, Pcs
    <3> HIDE DEF w2
    <3>5. Sane(w2, applied')
      BY <2>1, <3>4 DEF Sane, Commanded, Resolving
    <3>6. Telling(t, w2, e)
      <4>1. UnderWay(w2) = 0 /\ UnderWay(w) = 0 /\ (IF Completes(e) THEN 1 ELSE 0) = 0
        BY <1>1, <3>1, <3>4 DEF UnderWay
      <4> QED BY <1>1, <3>1, <3>2, <4>1, WorkerIsSane DEF Telling
    <3>7. WorkerDid(t)
      BY <3>1, <3>4, <3>5, <3>6 DEF WorkerDid
    <3>8. worker'[t] = w2
      BY <3>2, WorkerIsSane
    <3>9. [req |-> r, lease |-> nextLease] \in {w2.active, w2.claim}
      BY <3>4 DEF c
    <3>10. AtHand(t)'
      BY <1>1, <1>3, <2>1, <2>4, <3>8, <3>9, ClaimLeases
    <3> QED BY <3>7, <3>10
  <2>5. CASE link[t] = "up" /\ Claim(session[t], r) /\ Become(t, refused)
    <3> HIDE DEF c
    <3>1. /\ refused \in Workers /\ refused.pc = "refuse" /\ refused.active = Nobody
          /\ refused.claim = c /\ refused.review = Nobody /\ refused.sends = 0
      BY <2>1 DEF Idle, Workers, Pcs
    <3> HIDE DEF refused
    <3>2. Sane(refused, applied')
      BY <2>1, <3>1 DEF Sane, Commanded, Resolving
    <3>3. WorkerDid(t) /\ worker'[t] = refused
      BY <1>1, <2>5, <3>1, <3>2, IdlingDid
    <3>4. [req |-> r, lease |-> nextLease] \in {refused.active, refused.claim}
      BY <3>1 DEF c
    <3>5. AtHand(t)'
      BY <1>1, <1>3, <2>1, <2>5, <3>3, <3>4, ClaimLeases
    <3> QED BY <3>3, <3>5
  <2> QED BY <2>2, <2>3, <2>4, <2>5
<1>6. ASSUME NEW r \in w.todo,
             Read(t, Become(t, [w EXCEPT !.todo = @ \ {r}]), Tell(t, Idle, "dropped", Nobody))
      PROVE  WorkerDid(t) /\ AtHand(t)'
  <2> DEFINE td == w.todo \ {r}
             w2 == [w EXCEPT !.todo = td]
  <2>1. /\ UNCHANGED brokerVars
        /\ \/ Tell(t, Idle, "dropped", Nobody) /\ link' = [link EXCEPT ![t] = "broken"]
           \/ Become(t, w2) /\ UNCHANGED link
    BY <1>6 DEF Read, Call
  <2>2. CASE Tell(t, Idle, "dropped", Nobody) /\ link' = [link EXCEPT ![t] = "broken"]
    <3>1. link'[t] # "up"
      BY <2>2 DEF ApprovalInv, TuiTypes
    <3> QED BY <1>1, <2>2, <3>1, DroppedDid
  <2>3. CASE Become(t, w2) /\ UNCHANGED link
    <3>1. td \in SUBSET Requests
      BY <1>2
    <3> HIDE DEF td
    <3>2. /\ w2 \in Workers /\ w2.pc = w.pc /\ w2.active = w.active /\ w2.claim = w.claim
          /\ w2.review = w.review /\ w2.sends = w.sends /\ w2.prepared = w.prepared
          /\ w2.trusted = w.trusted
      <4> HIDE DEF w
      <4> QED BY <1>2, <3>1 DEF Workers
    <3> HIDE DEF w2
    <3>3. Sane(w2, applied')
      BY <1>2, <3>2 DEF Sane
    <3>4. WorkerDid(t) /\ worker'[t] = w2
      BY <1>1, <2>3, <3>2, <3>3, IdlingDid
    <3> QED BY <1>1, <2>1, <2>3, <3>2, <3>4, QuietBroker, KeepsAtHand, WorkerIsSane
  <2> QED BY <2>1, <2>2, <2>3
<1> QED BY <1>4, <1>5, <1>6 DEF ClaimNext

LEMMA WorkerStepDid ==
    ASSUME ApprovalInv, NEW t \in Tuis, WorkerStep(t)
    PROVE  WorkerDid(t) /\ AtHand(t)'
BY ReconnectDid, TakeWriteDid, TakeAnswerDid, TakeReviewDid, PrepareIdentityDid, DetailsDid,
   DeployDid, ReviewReturnedDid, ConfirmDid, AnswerReviewDid, ApplyDid, DeclineDid,
   ConcludeDid, GiveUpDid, PollDid, ClaimNextDid DEF WorkerStep

-----------------------------------------------------------------------------
(* The broker under the TUIs.                                              *)

\* What a worker's step may do at the broker.
WorkerEffect(t) ==
    \/ UNCHANGED brokerVars
    \/ \E r \in Requests : Submit(r)
    \/ /\ link[t] = "up"
       /\ \/ Pending(session[t])
          \/ \E r \in Requests : Claim(session[t], r)
          \/ /\ worker[t].pc \in Resolving
             /\ \E decision \in Decisions :
                   /\ Answered(t, decision)
                   /\ decision = "approved" => worker[t].pc = "complete"

\* And around it, when it is no new connection.
WorkerFrame(t) ==
    /\ \/ UNCHANGED link
       \/ link[t] # "closed" /\ link' = [link EXCEPT ![t] = "broken"]
    /\ UNCHANGED <<session, nextSession, listener, ui>>
    /\ UNCHANGED ready \/ ready' = [ready EXCEPT ![t] = FALSE]
    /\ \/ UNCHANGED commands
       \/ commands[t] # <<>> /\ commands' = [commands EXCEPT ![t] = Tail(@)]
    /\ \/ UNCHANGED applied
       \/ worker[t].pc = "renew" /\ applied' = applied \cup {worker[t].active.req}

LEMMA WorkerActs ==
    ASSUME ApprovalInv, NEW t \in Tuis, WorkerStep(t), ~ Reconnect(t)
    PROVE  WorkerEffect(t) /\ WorkerFrame(t)
<1> USE DEF WorkerFrame, WorkerEffect
<1>1. CASE TakeWrite(t) \/ TakeAnswer(t) \/ TakeReview(t)
  BY <1>1 DEF TakeWrite, TakeAnswer, TakeReview, Receive, Working, Local
<1>2. CASE PrepareIdentity(t) \/ Details(t) \/ ReviewReturned(t) \/ Confirm(t)
  BY <1>2 DEF PrepareIdentity, Details, ReviewReturned, Confirm, Executing, Working, Renew, Read, Call
<1>3. CASE Deploy(t)
  BY <1>3 DEF Deploy, Executing, Working, Renew, Read, Call
<1>4. CASE AnswerReview(t)
  BY <1>4 DEF AnswerReview, Executing, Working, Renew, Read, Call
<1>5. CASE Apply(t) \/ Decline(t)
  BY <1>5 DEF Apply, Decline, FollowUp, Executing, Working, Local, Read, Call
<1>6. CASE Conclude(t)
  <2> DEFINE decision == IF worker[t].pc = "complete" THEN "approved" ELSE "rejected"
  <2>1. /\ WorkerFrame(t) /\ worker[t].pc \in Resolving
        /\ UNCHANGED brokerVars \/ (link[t] = "up" /\ Answered(t, decision))
    BY <1>6 DEF Conclude, Executing, Working, Answer, Answered, Read, Call, Resolving
  <2>2. decision \in Decisions /\ (decision = "approved" => worker[t].pc = "complete")
    BY DEF Decisions
  <2> HIDE DEF decision
  <2> QED BY <2>1, <2>2
<1>7. CASE GiveUp(t)
  <2>1. /\ WorkerFrame(t) /\ worker[t].pc \in Resolving
        /\ UNCHANGED brokerVars \/ (link[t] = "up" /\ Answered(t, "rejected"))
    BY <1>7 DEF GiveUp, Executing, Working, Answer, Answered, Read, Call, Resolving
  <2>2. "rejected" \in Decisions
    BY DEF Decisions
  <2> QED BY <2>1, <2>2
<1>8. CASE Poll(t)
  BY <1>8 DEF Poll, Working, Renew, Read, Call
<1>9. CASE ClaimNext(t)
  <2>1. worker[t].todo \subseteq Requests
    BY WorkerIsSane DEF Workers
  <2> QED BY <1>9, <2>1 DEF ClaimNext, Executing, Working, Local, Read, Call
<1> QED
  BY <1>1, <1>2, <1>3, <1>4, <1>5, <1>6, <1>7, <1>8, <1>9 DEF WorkerStep

\* A connection is new: its number was never used, and it holds nothing.
LEMMA NewSession ==
    ASSUME ApprovalInv, Connect
    PROVE  /\ nextSession \in Sessions /\ Register(nextSession) /\ nextSession' = nextSession + 1
           /\ nextSession \notin frontends /\ frontends' = frontends \cup {nextSession}
           /\ NoNewClaim /\ UNCHANGED status /\ nextSession # Nobody
           /\ \A t \in Tuis : session[t] # nextSession
<1>1. nextSession \in Sessions /\ Register(nextSession) /\ nextSession' = nextSession + 1
  BY DEF Connect
<1>2. /\ frontends' = frontends \cup {nextSession} /\ UNCHANGED status /\ NoNewClaim
  BY <1>1 DEF Register, NoNewClaim
<1>3. nextSession \notin 1..(nextSession - 1) /\ nextSession # Nobody
  BY <1>1, NobodyAssumption DEF ApprovalInv, TuiTypes
<1> QED BY <1>1, <1>2, <1>3 DEF ApprovalInv, SessionsApart

\* The worker of t that has it is told apart from every other.
LEMMA NewSessionApart ==
    ASSUME ApprovalInv, NEW t \in Tuis, Connect,
           session' = [session EXCEPT ![t] = nextSession], link' = [link EXCEPT ![t] = "up"]
    PROVE  /\ session' \in [Tuis -> Sessions \cup {Nobody}]
           /\ link' \in [Tuis -> {"closed", "up", "cut", "broken"}]
           /\ nextSession' \in Nat \ {0} /\ SessionsApart'
<1>1. /\ nextSession \in Nat \ {0} /\ session \in [Tuis -> Sessions \cup {Nobody}]
      /\ link \in [Tuis -> {"closed", "up", "cut", "broken"}] /\ SessionsApart
  BY DEF ApprovalInv, TuiTypes
<1>2. /\ nextSession \in Sessions /\ nextSession' = nextSession + 1
      /\ frontends' = frontends \cup {nextSession}
      /\ \A u \in Tuis : session[u] # nextSession
  BY NewSession
<1>3. /\ nextSession' \in Nat \ {0} /\ nextSession \in 1..(nextSession' - 1)
      /\ 1..(nextSession - 1) \subseteq 1..(nextSession' - 1)
  BY <1>1, <1>2
<1>4. \A u \in Tuis : /\ session'[u] = IF u = t THEN nextSession ELSE session[u]
                      /\ link'[u] = IF u = t THEN "up" ELSE link[u]
  BY <1>1
<1>5. SessionsApart'
  BY <1>1, <1>2, <1>3, <1>4 DEF SessionsApart
<1> QED BY <1>1, <1>2, <1>3, <1>5

\* A worker's step is an operation of the broker, or none.
LEMMA EffectIsBrokerStep ==
    ASSUME ApprovalInv, NEW t \in Tuis, WorkerEffect(t)
    PROVE  [BrokerNext]_brokerVars
<1>1. CASE UNCHANGED brokerVars
  BY <1>1
<1>2. CASE \E r \in Requests : Submit(r)
  BY <1>2 DEF BrokerNext
<1>3. CASE link[t] = "up"
  <2>1. session[t] \in Sessions
    BY <1>3 DEF ApprovalInv, SessionsApart
  <2>2. CASE Pending(session[t])
    BY <2>1, <2>2 DEF BrokerNext
  <2>3. CASE \E r \in Requests : Claim(session[t], r)
    BY <2>1, <2>3 DEF BrokerNext
  <2>4. ASSUME NEW decision \in Decisions, worker[t].pc \in Resolving, Answered(t, decision)
        PROVE  BrokerNext
    <3> DEFINE c == worker[t].claim
    <3>1. c.req \in Requests
      BY <2>4, WorkerIsSane DEF Sane, Claims
    <3>2. Resolve(session[t], c.req, lease[c.req], decision)
      BY <2>4 DEF Answered, Resolve, Holds
    <3> HIDE DEF c
    <3> QED BY <2>1, <3>1, <3>2 DEF BrokerNext
  <2> QED BY <1>1, <1>2, <1>3, <2>2, <2>3, <2>4 DEF WorkerEffect
<1> QED BY <1>1, <1>2, <1>3 DEF WorkerEffect

\* What it does to claims and answers: a new claim is t's, and a request is
\* approved only after its target applied a deployment.
LEMMA EffectOnRequests ==
    ASSUME ApprovalInv, NEW t \in Tuis, WorkerEffect(t), NEW r \in Requests
    PROVE  /\ status'[r] = "claimed" =>
                 \/ status[r] = "claimed" /\ owner'[r] = owner[r] /\ lease'[r] = lease[r]
                 \/ link[t] = "up" /\ owner'[r] = session[t]
           /\ status'[r] = "approved" => status[r] = "approved" \/ r \in applied
<1>1. /\ status \in [Requests -> Statuses] /\ lease \in [Requests -> Nat]
      /\ owner \in [Requests -> Sessions \cup {Nobody}]
  BY DEF ApprovalInv, BrokerInv, BrokerTypeOK
<1>2. CASE UNCHANGED brokerVars
  BY <1>2 DEF brokerVars
<1>3. ASSUME NEW q \in Requests, Submit(q)
      PROVE  /\ status'[r] = "claimed" =>
                  status[r] = "claimed" /\ owner'[r] = owner[r] /\ lease'[r] = lease[r]
             /\ status'[r] = "approved" => status[r] = "approved"
  BY <1>1, <1>3 DEF Submit
<1>4. CASE Pending(session[t])
  BY <1>4 DEF Pending
<1>5. ASSUME NEW q \in Requests, link[t] = "up", Claim(session[t], q)
      PROVE  /\ status'[r] = "claimed" =>
                   \/ status[r] = "claimed" /\ owner'[r] = owner[r] /\ lease'[r] = lease[r]
                   \/ link[t] = "up" /\ owner'[r] = session[t]
             /\ status'[r] = "approved" => status[r] = "approved"
  BY <1>1, <1>5 DEF Claim
<1>6. ASSUME worker[t].pc \in Resolving, NEW decision \in Decisions, Answered(t, decision),
             decision = "approved" => worker[t].pc = "complete"
      PROVE  /\ status'[r] = "claimed" =>
                  status[r] = "claimed" /\ owner'[r] = owner[r] /\ lease'[r] = lease[r]
             /\ status'[r] = "approved" => status[r] = "approved" \/ r \in applied
  <2> DEFINE q == worker[t].claim.req
  <2>1. q \in Requests /\ (worker[t].pc = "complete" => q \in applied)
    BY <1>6, WorkerIsSane DEF Sane, Claims
  <2>2. /\ status' = [status EXCEPT ![q] = decision]
        /\ lease' = [lease EXCEPT ![q] = 0] /\ owner' = [owner EXCEPT ![q] = Nobody]
    BY <1>6 DEF Answered, Resolve, Settle
  <2> HIDE DEF q
  <2> QED BY <1>1, <1>6, <2>1, <2>2 DEF Decisions
<1> QED BY <1>2, <1>3, <1>4, <1>5, <1>6 DEF WorkerEffect

\* A step of the broker settles no request twice: what is over stays over.
LEMMA OverStays ==
    ASSUME ApprovalInv, [BrokerNext]_brokerVars
    PROVE  Over \subseteq Over'
BY StaysAnswered DEF Stays, Over, ApprovalInv, BrokerInv

\* Others lose no claim of theirs by a step of t.
LEMMA OthersAtHand ==
    ASSUME ApprovalInv, NEW u \in Tuis, session'[u] = session[u], link'[u] = link[u],
           worker'[u] = worker[u],
           \A r \in Requests : status'[r] = "claimed" =>
               \/ status[r] = "claimed" /\ owner'[r] = owner[r] /\ lease'[r] = lease[r]
               \/ link[u] = "up" => owner'[r] # session[u]
    PROVE  AtHand(u)'
BY DEF ApprovalInv, AtHand

\* One more event, one more end if it reports one.
LEMMA EndsAppend ==
    ASSUME NEW es \in Seq(Events), NEW e
    PROVE  /\ IsFiniteSet(Ends(es)) /\ Cardinality(Ends(es)) \in Nat
           /\ Cardinality(Ends(Append(es, e)))
                 = Cardinality(Ends(es)) + (IF Completes(e) THEN 1 ELSE 0)
<1>1. Len(es) \in Nat /\ Len(Append(es, e)) = Len(es) + 1 /\ Append(es, e)[Len(es) + 1] = e
      /\ \A i \in 1..Len(es) : Append(es, e)[i] = es[i]
  OBVIOUS
<1>2. IsFiniteSet(Ends(es)) /\ Cardinality(Ends(es)) \in Nat
  <2>1. Ends(es) \subseteq 1..Len(es)
    BY DEF Ends
  <2>2. IsFiniteSet(1..Len(es))
    <3>1. 1 \in Int /\ Len(es) \in Int
      BY <1>1
    <3> QED BY <3>1, FS_Interval
  <2> QED BY <2>1, <2>2, FS_Subset, FS_CardinalityType
<1>3. CASE Completes(e)
  <2>1. Ends(Append(es, e)) = Ends(es) \cup {Len(es) + 1}
    <3> DEFINE fs == Append(es, e)
    <3>1. 1..Len(fs) = 1..Len(es) \cup {Len(es) + 1} /\ Completes(fs[Len(es) + 1])
      BY <1>1, <1>3
    <3>2. \A i \in 1..Len(es) : Completes(fs[i]) <=> Completes(es[i])
      BY <1>1
    <3> HIDE DEF fs
    <3>3. Ends(fs) = Ends(es) \cup {Len(es) + 1}
      BY <3>1, <3>2 DEF Ends
    <3> QED BY <3>3 DEF fs
  <2>2. Len(es) + 1 \notin Ends(es)
    BY <1>1 DEF Ends
  <2> QED BY <1>2, <1>3, <2>1, <2>2, FS_AddElement
<1>4. CASE ~ Completes(e)
  <2>1. Ends(Append(es, e)) = Ends(es)
    BY <1>1, <1>4 DEF Ends
  <2> QED BY <1>2, <1>4, <2>1
<1> QED BY <1>2, <1>3, <1>4

\* What a worker's step keeps of the TUIs, whatever it did at the broker.
LEMMA DidKeeps ==
    ASSUME ApprovalInv, NEW t \in Tuis, WorkerDid(t), Over \subseteq Over', UNCHANGED ui,
           commands' \in [Tuis -> Seq(Commands)], applied \subseteq applied',
           \A u \in Tuis \ {t} : commands'[u] = commands[u]
    PROVE  /\ worker' \in [Tuis -> Workers] /\ events' \in [Tuis -> Seq(Events)]
           /\ AllSane'
           /\ \A u \in Tuis : ToldOver(u)' /\ Balanced(u)'
           /\ \A u \in Tuis \ {t} : worker'[u] = worker[u]
<1>1. /\ worker \in [Tuis -> Workers] /\ events \in [Tuis -> Seq(Events)]
      /\ \A u \in Tuis : Sane(worker[u], applied) /\ ToldOver(u) /\ Balanced(u)
      /\ ui \in [Tuis -> Screens]
  BY DEF ApprovalInv, TuiTypes, AllSane
<1>2. PICK w2 \in Workers :
         /\ Sane(w2, applied')
         /\ Silent(t, w2) \/ \E e \in Events : Telling(t, w2, e)
  BY DEF WorkerDid
<1>3. /\ worker' = [worker EXCEPT ![t] = w2] /\ worker'[t] = w2
      /\ worker' \in [Tuis -> Workers]
      /\ \A u \in Tuis \ {t} : worker'[u] = worker[u]
  BY <1>1, <1>2 DEF Silent, Telling
<1>4. AllSane'
  <2> SUFFICES ASSUME NEW u \in Tuis PROVE Sane(worker'[u], applied')
    BY DEF AllSane
  <2>1. CASE u = t
    BY <1>2, <1>3, <2>1
  <2>2. CASE u # t
    BY <1>1, <1>3, <2>2, SaneGrows
  <2> QED BY <2>1, <2>2
<1>5. events' \in [Tuis -> Seq(Events)] /\ \A u \in Tuis \ {t} : events'[u] = events[u]
  <2>1. CASE UNCHANGED events
    BY <1>1, <2>1
  <2>2. ASSUME NEW e \in Events, events' = [events EXCEPT ![t] = Append(@, e)]
        PROVE  events' \in [Tuis -> Seq(Events)] /\ \A u \in Tuis \ {t} : events'[u] = events[u]
    <3>1. Append(events[t], e) \in Seq(Events)
      BY <1>1
    <3> QED BY <1>1, <2>2, <3>1
  <2> QED BY <1>2, <2>1, <2>2 DEF Silent, Telling
<1>6. ASSUME NEW u \in Tuis \ {t} PROVE ToldOver(u)' /\ Balanced(u)'
  BY <1>1, <1>3, <1>5 DEF ToldOver, Balanced
<1>7. ToldOver(t)' /\ Balanced(t)'
  <2>1. CASE Silent(t, w2)
    <3>1. UNCHANGED events /\ Len(commands'[t]) + UnderWay(w2) = Len(commands[t]) + UnderWay(worker[t])
      BY <2>1 DEF Silent
    <3> QED BY <1>1, <1>3, <3>1 DEF ToldOver, Balanced
  <2>2. ASSUME NEW e \in Events, Telling(t, w2, e) PROVE ToldOver(t)' /\ Balanced(t)'
    <3> DEFINE es == events[t]
               n == IF Completes(e) THEN 1 ELSE 0
    <3>1. /\ events'[t] = Append(es, e) /\ es \in Seq(Events)
          /\ Len(commands'[t]) + UnderWay(w2) + n = Len(commands[t]) + UnderWay(worker[t])
          /\ e.kind = "over" => e.about \in Over'
      BY <1>1, <2>2 DEF Telling
    <3>2. /\ Cardinality(Ends(es)) \in Nat /\ n \in {0, 1}
          /\ Cardinality(Ends(events'[t])) = Cardinality(Ends(es)) + n
      BY <3>1, EndsAppend
    <3>3. Balanced(t)'
      <4>1. /\ ui[t].busy = Len(commands[t]) + UnderWay(worker[t]) + Cardinality(Ends(es))
            /\ ui'[t].busy = ui[t].busy
        BY <1>1 DEF Balanced
      <4>2. /\ Len(commands[t]) \in Nat /\ Len(commands'[t]) \in Nat
            /\ UnderWay(w2) \in Nat /\ UnderWay(worker[t]) \in Nat
        BY WorkerIsSane DEF UnderWay
      <4> HIDE DEF n, es
      <4>3. ui'[t].busy = Len(commands'[t]) + UnderWay(w2) + Cardinality(Ends(events'[t]))
        BY <3>1, <3>2, <4>1, <4>2
      <4> QED BY <1>3, <4>3 DEF Balanced
    <3>4. ToldOver(t)'
      <4>1. ASSUME NEW i \in 1..Len(events'[t]), events'[t][i].kind = "over"
            PROVE  events'[t][i].about \in Over'
        <5>1. CASE i \in 1..Len(es)
          <6>1. events'[t][i] = es[i]
            BY <3>1, <5>1
          <6> QED BY <1>1, <4>1, <5>1, <6>1 DEF ToldOver
        <5>2. CASE i \notin 1..Len(es)
          <6>1. events'[t][i] = e
            BY <3>1, <4>1, <5>2
          <6> QED BY <3>1, <4>1, <6>1
        <5> QED BY <5>1, <5>2
      <4> QED BY <1>1, <4>1 DEF ToldOver
    <3> QED BY <3>3, <3>4
  <2> QED BY <1>2, <2>1, <2>2
<1> QED BY <1>3, <1>4, <1>5, <1>6, <1>7

LEMMA WorkerStepKeeps ==
    ASSUME ApprovalInv, NEW t \in Tuis, WorkerStep(t)
    PROVE  ApprovalInv' /\ [BrokerNext]_brokerVars
<1>1. WorkerDid(t) /\ AtHand(t)'
  BY WorkerStepDid
<1>2. TuiTypes /\ SessionsApart /\ ApprovedWasApplied
  BY DEF ApprovalInv
<1>3. CASE Reconnect(t)
  <2>1. /\ Connect /\ session' = [session EXCEPT ![t] = nextSession]
        /\ link' = [link EXCEPT ![t] = "up"] /\ ready' = [ready EXCEPT ![t] = TRUE]
        /\ UNCHANGED <<commands, applied, listener, ui>>
    BY <1>3 DEF Reconnect, Working
  <2>2. [BrokerNext]_brokerVars
    BY <2>1, NewSession DEF BrokerNext
  <2>3. BrokerInv' /\ Over \subseteq Over'
    BY <2>2, NextInv, OverStays DEF ApprovalInv
  <2>4. /\ worker' \in [Tuis -> Workers] /\ events' \in [Tuis -> Seq(Events)] /\ AllSane'
        /\ \A u \in Tuis : ToldOver(u)' /\ Balanced(u)'
        /\ \A u \in Tuis \ {t} : worker'[u] = worker[u]
    BY <1>1, <1>2, <2>1, <2>3, DidKeeps DEF TuiTypes
  <2>5. ready' \in [Tuis -> BOOLEAN]
    BY <1>2, <2>1 DEF TuiTypes
  <2>6. TuiTypes' /\ SessionsApart'
    BY <1>2, <2>1, <2>4, <2>5, NewSessionApart DEF TuiTypes
  <2>7. ApprovedWasApplied'
    BY <1>2, <2>1, NewSession DEF ApprovedWasApplied
  <2>8. \A u \in Tuis \ {t} : AtHand(u)'
    BY <1>2, <2>1, <2>4, NewSession, OthersAtHand DEF NoNewClaim, TuiTypes
  <2> QED BY <1>1, <2>2, <2>3, <2>4, <2>6, <2>7, <2>8 DEF ApprovalInv
<1>4. CASE ~ Reconnect(t)
  <2>1. WorkerEffect(t) /\ WorkerFrame(t)
    BY <1>4, WorkerActs
  <2>2. [BrokerNext]_brokerVars
    BY <2>1, EffectIsBrokerStep
  <2>3. BrokerInv' /\ Over \subseteq Over'
    BY <2>2, NextInv, OverStays DEF ApprovalInv
  <2>4. applied \subseteq applied' /\ applied' \subseteq Requests
    <3>1. worker[t].pc = "renew" => worker[t].active.req \in Requests
      BY WorkerIsSane DEF Sane, Commanded, Claims
    <3> QED BY <1>2, <2>1, <3>1 DEF WorkerFrame, TuiTypes
  <2>5. /\ commands' \in [Tuis -> Seq(Commands)]
        /\ \A u \in Tuis \ {t} : commands'[u] = commands[u]
    <3>1. CASE UNCHANGED commands
      BY <1>2, <3>1 DEF TuiTypes
    <3>2. CASE commands[t] # <<>> /\ commands' = [commands EXCEPT ![t] = Tail(@)]
      <4>1. Tail(commands[t]) \in Seq(Commands)
        BY <1>2, <3>2, HeadAndTail DEF TuiTypes
      <4> QED BY <1>2, <3>2, <4>1 DEF TuiTypes
    <3> QED BY <2>1, <3>1, <3>2 DEF WorkerFrame
  <2>6. /\ worker' \in [Tuis -> Workers] /\ events' \in [Tuis -> Seq(Events)] /\ AllSane'
        /\ \A u \in Tuis : ToldOver(u)' /\ Balanced(u)'
        /\ \A u \in Tuis \ {t} : worker'[u] = worker[u]
    <3>1. UNCHANGED ui
      BY <2>1 DEF WorkerFrame
    <3> QED BY <1>1, <2>3, <2>4, <2>5, <3>1, DidKeeps
  <2>7. TuiTypes'
    BY <1>2, <2>1, <2>4, <2>5, <2>6 DEF TuiTypes, WorkerFrame
  <2>8. frontends' = frontends
    BY <2>1 DEF WorkerEffect, Submit, Pending, Claim, Answered, Resolve, brokerVars
  <2>9. SessionsApart'
    BY <1>2, <2>1, <2>8 DEF TuiTypes, SessionsApart, WorkerFrame
  <2>10. ApprovedWasApplied'
    BY <1>2, <2>1, <2>4, EffectOnRequests DEF ApprovedWasApplied
  <2>11. ASSUME NEW u \in Tuis \ {t} PROVE AtHand(u)'
    <3>1. session'[u] = session[u] /\ link'[u] = link[u] /\ worker'[u] = worker[u]
      BY <1>2, <2>1, <2>6 DEF TuiTypes, WorkerFrame
    <3>2. link[u] = "up" /\ link[t] = "up" => session[t] # session[u]
      BY <1>2, NobodyAssumption DEF SessionsApart
    <3>3. \A r \in Requests : status'[r] = "claimed" =>
               \/ status[r] = "claimed" /\ owner'[r] = owner[r] /\ lease'[r] = lease[r]
               \/ link[u] = "up" => owner'[r] # session[u]
      BY <2>1, <3>2, EffectOnRequests
    <3> QED BY <3>1, <3>3, OthersAtHand
  <2> QED BY <1>1, <2>2, <2>3, <2>6, <2>7, <2>9, <2>10, <2>11 DEF ApprovalInv
<1> QED BY <1>3, <1>4

-----------------------------------------------------------------------------
(* Connections, and what happens to requests by themselves.                *)

LEMMA OutsideKeeps ==
    ASSUME ApprovalInv, [BrokerNext]_brokerVars, NoNewClaim,
           UNCHANGED <<session, worker, commands, events, ui, applied>>,
           TuiTypes', SessionsApart',
           \A u \in Tuis : link'[u] = "up" => link[u] = "up",
           \A r \in Requests : status'[r] = "approved" => status[r] = "approved"
    PROVE  ApprovalInv'
<1>1. BrokerInv' /\ Over \subseteq Over'
  BY NextInv, OverStays DEF ApprovalInv
<1>2. AllSane' /\ \A u \in Tuis : Balanced(u)'
  BY DEF ApprovalInv, AllSane, Balanced
<1>3. \A u \in Tuis : ToldOver(u)'
  BY <1>1 DEF ApprovalInv, ToldOver
<1>4. \A u \in Tuis : AtHand(u)'
  BY KeepsAtHand DEF ApprovalInv
<1>5. ApprovedWasApplied'
  BY DEF ApprovalInv, ApprovedWasApplied
<1> QED BY <1>1, <1>2, <1>3, <1>4, <1>5 DEF ApprovalInv

LEMMA OpenKeeps ==
    ASSUME ApprovalInv, NEW t \in Tuis, Open(t)
    PROVE  ApprovalInv' /\ [BrokerNext]_brokerVars
<1>1. /\ Connect /\ session' = [session EXCEPT ![t] = nextSession]
      /\ link' = [link EXCEPT ![t] = "up"]
      /\ UNCHANGED <<listener, ready, worker, commands, events, ui, applied>>
  BY DEF Open
<1>2. [BrokerNext]_brokerVars
  BY <1>1, NewSession DEF BrokerNext
<1>3. BrokerInv' /\ Over \subseteq Over'
  BY <1>2, NextInv, OverStays DEF ApprovalInv
<1>4. TuiTypes' /\ SessionsApart'
  BY <1>1, NewSessionApart DEF ApprovalInv, TuiTypes
<1>5. ASSUME NEW u \in Tuis PROVE AtHand(u)'
  <2>1. CASE u = t
    <3> SUFFICES ASSUME NEW r \in Requests, status'[r] = "claimed", owner'[r] = session'[t]
                 PROVE  FALSE
      BY <2>1 DEF AtHand
    <3>1. session'[t] = nextSession
      BY <1>1 DEF ApprovalInv, TuiTypes
    <3>2. status[r] = "claimed" /\ owner[r] = nextSession
      BY <1>1, <3>1, NewSession DEF NoNewClaim
    <3> QED BY <1>1, <3>2, NewSession DEF ApprovalInv, BrokerInv, ClaimsAreOwned
  <2>2. CASE u # t
    <3>1. session'[u] = session[u] /\ link'[u] = link[u] /\ worker'[u] = worker[u]
      BY <1>1, <2>2 DEF ApprovalInv, TuiTypes
    <3> QED BY <1>1, <3>1, NewSession, OthersAtHand DEF NoNewClaim
  <2> QED BY <2>1, <2>2
<1>6. AllSane' /\ \A u \in Tuis : Balanced(u)'
  BY <1>1 DEF ApprovalInv, AllSane, Balanced
<1>7. \A u \in Tuis : ToldOver(u)'
  BY <1>1, <1>3 DEF ApprovalInv, ToldOver
<1>8. ApprovedWasApplied'
  BY <1>1, NewSession DEF ApprovalInv, ApprovedWasApplied
<1> QED BY <1>2, <1>3, <1>4, <1>5, <1>6, <1>7, <1>8 DEF ApprovalInv

LEMMA SubscribeKeeps ==
    ASSUME ApprovalInv, NEW t \in Tuis, Subscribe(t)
    PROVE  ApprovalInv' /\ [BrokerNext]_brokerVars
<1>1. /\ Connect /\ listener' = [listener EXCEPT ![t] = nextSession]
      /\ UNCHANGED <<link, session, ready, worker, commands, events, ui, applied>>
  BY DEF Subscribe
<1>2. [BrokerNext]_brokerVars
  BY <1>1, NewSession DEF BrokerNext
<1>3. TuiTypes'
  BY <1>1, NewSession DEF ApprovalInv, TuiTypes
<1>4. SessionsApart'
  <2>1. 1..(nextSession - 1) \subseteq 1..(nextSession' - 1) /\ nextSession \in 1..(nextSession' - 1)
    BY <1>1, NewSession DEF ApprovalInv, TuiTypes
  <2> QED BY <1>1, <2>1, NewSession DEF ApprovalInv, SessionsApart
<1>5. \A r \in Requests : status'[r] = "approved" => status[r] = "approved"
  BY <1>1, NewSession
<1> QED BY <1>1, <1>2, <1>3, <1>4, <1>5, NewSession, OutsideKeeps

LEMMA ListenKeeps ==
    ASSUME ApprovalInv, NEW t \in Tuis, Listen(t)
    PROVE  ApprovalInv' /\ [BrokerNext]_brokerVars
<1> DEFINE news == ready[t] \/ queued'[listener[t]] # {}
<1>1. /\ listener[t] # Nobody /\ Pending(listener[t])
      /\ ready' = [ready EXCEPT ![t] = news]
      /\ UNCHANGED <<link, session, listener, nextSession, worker, commands, events, ui, applied>>
  BY DEF Listen
<1>2. [BrokerNext]_brokerVars
  <2>1. listener[t] \in Sessions
    BY <1>1 DEF ApprovalInv, TuiTypes
  <2> QED BY <1>1, <2>1 DEF BrokerNext
<1>3. ready' \in [Tuis -> BOOLEAN]
  <2>1. news \in BOOLEAN
    OBVIOUS
  <2> HIDE DEF news
  <2> QED BY <1>1, <2>1 DEF ApprovalInv, TuiTypes
<1> HIDE DEF news
<1>4. TuiTypes'
  BY <1>1, <1>3 DEF ApprovalInv, TuiTypes
<1>5. SessionsApart' /\ NoNewClaim
      /\ \A r \in Requests : status'[r] = "approved" => status[r] = "approved"
  BY <1>1 DEF Pending, ApprovalInv, SessionsApart, NoNewClaim
<1> QED BY <1>1, <1>2, <1>4, <1>5, OutsideKeeps

LEMMA CutKeeps ==
    ASSUME ApprovalInv, NEW t \in Tuis, Cut(t)
    PROVE  ApprovalInv' /\ [BrokerNext]_brokerVars
<1>1. /\ UNCHANGED brokerVars
      /\ UNCHANGED <<session, ready, nextSession, worker, commands, events, ui, applied>>
      /\ \/ link[t] = "up" /\ link' = [link EXCEPT ![t] = "cut"] /\ UNCHANGED listener
         \/ listener' = [listener EXCEPT ![t] = Nobody] /\ UNCHANGED link
  BY DEF Cut
<1>2. TuiTypes' /\ \A u \in Tuis : link'[u] = "up" => link[u] = "up"
  BY <1>1 DEF ApprovalInv, TuiTypes
<1>3. \A u \in Tuis : link'[u] # "closed" => link[u] # "closed"
  BY <1>1 DEF ApprovalInv, TuiTypes
<1>4. SessionsApart'
  BY <1>1, <1>3 DEF ApprovalInv, SessionsApart, brokerVars
<1>5. \A r \in Requests : status'[r] = "approved" => status[r] = "approved"
  BY <1>1 DEF brokerVars
<1> QED BY <1>1, <1>2, <1>4, <1>5, QuietBroker, OutsideKeeps

LEMMA BackendKeeps ==
    ASSUME ApprovalInv, BackendStep
    PROVE  ApprovalInv' /\ [BrokerNext]_brokerVars
<1>1. /\ UNCHANGED <<link, session, listener, ready, nextSession, worker, commands, events, ui,
                     applied>>
      /\ \/ \E r \in Requests : Submit(r) \/ Cancel(r) \/ Expire(r)
         \/ \E s \in Sessions : Disconnect(s)
  BY DEF BackendStep, Hangup, tuiVars
<1>2. [BrokerNext]_brokerVars
  BY <1>1 DEF BrokerNext
<1>3. /\ status \in [Requests -> Statuses] /\ lease \in [Requests -> Nat]
      /\ owner \in [Requests -> Sessions \cup {Nobody}]
  BY DEF ApprovalInv, BrokerInv, BrokerTypeOK
<1>4. /\ NoNewClaim /\ frontends' \subseteq frontends
      /\ \A r \in Requests : status'[r] = "approved" => status[r] = "approved"
  <2>1. ASSUME NEW q \in Requests, Submit(q) \/ Cancel(q) \/ Expire(q)
        PROVE  /\ NoNewClaim /\ frontends' \subseteq frontends
               /\ \A r \in Requests : status'[r] = "approved" => status[r] = "approved"
    BY <1>3, <2>1 DEF Submit, Cancel, Expire, Settle, NoNewClaim
  <2>2. ASSUME NEW s \in Sessions, Disconnect(s)
        PROVE  /\ NoNewClaim /\ frontends' \subseteq frontends
               /\ \A r \in Requests : status'[r] = "approved" => status[r] = "approved"
    BY <1>3, <2>2 DEF Disconnect, NoNewClaim
  <2> QED BY <1>1, <2>1, <2>2
<1>5. TuiTypes' /\ SessionsApart'
  BY <1>1, <1>4 DEF ApprovalInv, TuiTypes, SessionsApart
<1> QED BY <1>1, <1>2, <1>4, <1>5, OutsideKeeps

-----------------------------------------------------------------------------
(* Events are handled one after the other.  Induction over them goes by    *)
(* the first that does not do what is claimed of all.                      *)

Less == {p \in Nat \X Nat : p[1] < p[2]}

LEMMA LessIsWellFounded == IsWellFoundedOn(Less, Nat)
BY NatLessThanWellFounded, Zenon DEF OpToRel, Less

LEMMA FirstExists ==
    ASSUME NEW n \in Nat, NEW T \in SUBSET (0..n), T # {}
    PROVE  \E k \in T : \A j \in 0..(k - 1) : j \notin T
<1>1. T \in SUBSET Nat
  OBVIOUS
<1>2. PICK k \in T : \A m \in T : <<m, k>> \notin Less
  BY <1>1, LessIsWellFounded, WFMin
<1>3. ASSUME NEW m \in T, m < k PROVE FALSE
  <2>1. <<m, k>> \in Nat \X Nat /\ <<m, k>>[1] = m /\ <<m, k>>[2] = k
    BY <1>1
  <2> QED BY <1>2, <1>3, <2>1 DEF Less
<1> QED BY <1>1, <1>2, <1>3

\* g lists the UI after each of the first n events.
Lists(u, es, n, g) ==
    g = [i \in 0..n |-> IF i = 0 THEN u ELSE Handle(g[i - 1], es[i])]

LEMMA ListExists ==
    ASSUME NEW u, NEW es, NEW n \in Nat
    PROVE  \E g : Lists(u, es, n, g)
<1> DEFINE T == {k \in 0..n : ~ \E g : Lists(u, es, k, g)}
<1> SUFFICES ASSUME T # {} PROVE FALSE
  OBVIOUS
<1>1. PICK k \in T : \A j \in 0..(k - 1) : j \notin T
  BY FirstExists
<1>2. k # 0
  <2>1. Lists(u, es, 0, [i \in 0..0 |-> u])
    BY DEF Lists
  <2> QED BY <1>1, <2>1
<1>3. k \in Nat /\ k - 1 \in 0..n /\ k - 1 \in 0..(k - 1)
  BY <1>1, <1>2
<1>4. PICK g : Lists(u, es, k - 1, g)
  BY <1>1, <1>3
<1> DEFINE h == [i \in 0..k |-> IF i = k THEN Handle(g[k - 1], es[k]) ELSE g[i]]
<1>5. Lists(u, es, k, h)
  <2> SUFFICES ASSUME NEW i \in 0..k
               PROVE  h[i] = IF i = 0 THEN u ELSE Handle(h[i - 1], es[i])
    BY DEF Lists
  <2>1. CASE i = 0
    BY <1>2, <1>3, <1>4, <2>1 DEF Lists
  <2>2. CASE i = k
    BY <1>2, <1>3, <1>4, <2>2 DEF Lists
  <2>3. CASE i # 0 /\ i # k
    <3>1. i \in 0..(k - 1) /\ i - 1 \in 0..(k - 1) /\ i - 1 # k /\ i - 1 \in 0..k
      BY <1>3, <2>3
    <3> QED BY <1>4, <2>3, <3>1 DEF Lists
  <2> QED BY <2>1, <2>2, <2>3
<1> QED BY <1>1, <1>5

\* The recursion of Handled is well-defined.
LEMMA HandledIs ==
    ASSUME NEW u, NEW es, Len(es) \in Nat
    PROVE  /\ Handled(u, es)[0] = u
           /\ \A i \in 1..Len(es) :
                 Handled(u, es)[i] = Handle(Handled(u, es)[i - 1], es[i])
<1>1. \E g : Lists(u, es, Len(es), g)
  BY ListExists
<1>2. Lists(u, es, Len(es), CHOOSE g : Lists(u, es, Len(es), g))
  BY <1>1
<1>3. Handled(u, es) = CHOOSE g : Lists(u, es, Len(es), g)
  BY DEF Handled, Lists
<1> DEFINE h == Handled(u, es)
<1>4. h = [i \in 0..Len(es) |-> IF i = 0 THEN u ELSE Handle(h[i - 1], es[i])]
  BY <1>2, <1>3 DEF Lists
<1> HIDE DEF h
<1>5. h[0] = u /\ \A i \in 1..Len(es) : h[i] = Handle(h[i - 1], es[i])
  <2>1. 0 \in 0..Len(es) /\ \A i \in 1..Len(es) : i \in 0..Len(es) /\ i # 0
    OBVIOUS
  <2> QED BY <1>4, <2>1
<1> QED BY <1>5 DEF h

LEMMA OfferKeeps ==
    ASSUME NEW u \in Screens, NEW d \in Dialogs
    PROVE  /\ Offer(u, d) \in Screens
           /\ Offer(u, d).busy = u.busy /\ Offer(u, d).completed = u.completed
<1>1. /\ u.waiting \in SUBSET Dialogs
      /\ \A D \in SUBSET Dialogs :
            /\ [u EXCEPT !.waiting = D] \in Screens
            /\ [u EXCEPT !.waiting = D].busy = u.busy
            /\ [u EXCEPT !.waiting = D].completed = u.completed
  BY DEF Screens
<1>2. /\ [u EXCEPT !.dialog = d] \in Screens
      /\ [u EXCEPT !.dialog = d].busy = u.busy
      /\ [u EXCEPT !.dialog = d].completed = u.completed
  BY DEF Screens
<1> DEFINE q == CHOOSE q \in u.waiting : q.req = d.req
<1>3. \/ Offer(u, d) = u
      \/ Offer(u, d) = [u EXCEPT !.waiting = (@ \ {q}) \cup {d}]
      \/ Offer(u, d) = [u EXCEPT !.dialog = d]
      \/ Offer(u, d) = [u EXCEPT !.waiting = @ \cup {d}]
  BY DEF Offer
<1> HIDE DEF q
<1>4. (u.waiting \ {q}) \cup {d} \in SUBSET Dialogs /\ u.waiting \cup {d} \in SUBSET Dialogs
  BY <1>1
<1> QED BY <1>1, <1>2, <1>3, <1>4

LEMMA HandleKeeps ==
    ASSUME NEW u \in Screens, NEW e \in Events
    PROVE  /\ Handle(u, e) \in Screens
           /\ Handle(u, e).busy = u.busy - (IF Completes(e) THEN 1 ELSE 0)
           /\ \/ Handle(u, e).completed = u.completed
              \/ e.kind = "over" /\ Handle(u, e).completed = u.completed \cup {e.about}
<1> DEFINE n == IF Completes(e) THEN 1 ELSE 0
           v == IF Completes(e) THEN [u EXCEPT !.busy = @ - 1] ELSE u
           closed == [v EXCEPT !.dialog = Nobody]
<1>1. v \in Screens /\ v.busy = u.busy - n /\ v.completed = u.completed
  <2>1. CASE Completes(e)
    BY <2>1 DEF Screens
  <2>2. CASE ~ Completes(e)
    <3>1. u.busy \in Int
      BY DEF Screens
    <3> QED BY <2>2, <3>1
  <2> QED BY <2>1, <2>2
<1> HIDE DEF v, n
<1>2. closed \in Screens /\ closed.busy = v.busy /\ closed.completed = v.completed
  BY <1>1 DEF Screens
<1> HIDE DEF closed
<1>3. e.kind \in {"saved", "lost", "dropped", "offer", "next", "over"}
  BY DEF Events
<1>4. CASE e.kind = "offer"
  <2>1. e.about \in Dialogs
    BY <1>4 DEF Events
  <2>2. Handle(u, e) = [v EXCEPT !.backlog = Append(@, e.about)]
    BY <1>4 DEF Handle, v
  <2>3. Append(v.backlog, e.about) \in Seq(Dialogs)
    BY <1>1, <2>1 DEF Screens
  <2> DEFINE b == Append(v.backlog, e.about)
  <2> HIDE DEF b
  <2>4. Handle(u, e) = [v EXCEPT !.backlog = b] /\ b \in Seq(Dialogs)
    BY <2>2, <2>3 DEF b
  <2> QED BY <1>1, <2>4 DEF Screens, n
<1>5. CASE e.kind = "saved"
  <2>1. Handle(u, e) = v
    BY <1>5 DEF Handle, v
  <2> QED BY <1>1, <2>1 DEF n
<1>6. CASE e.kind = "next"
  <2>1. e.about \in Dialogs
    BY <1>6 DEF Events
  <2>2. Handle(u, e) = Offer(closed, e.about)
    BY <1>6 DEF Handle, v, closed
  <2> QED BY <1>1, <1>2, <2>1, <2>2, OfferKeeps DEF n
<1>7. CASE e.kind \in {"lost", "dropped"}
  <2>1. Handle(u, e) = [closed EXCEPT !.waiting = {}]
    BY <1>7 DEF Handle, v, closed
  <2> QED BY <1>1, <1>2, <2>1 DEF Screens, n
<1>8. CASE e.kind = "over"
  <2> DEFINE c == closed.completed \cup {e.about}
             W == {d \in closed.waiting : d.req # e.about}
  <2>1. Handle(u, e) = [closed EXCEPT !.completed = c, !.waiting = W]
    BY <1>8 DEF Handle, v, closed
  <2>2. c \in SUBSET Requests /\ W \in SUBSET Dialogs /\ c = u.completed \cup {e.about}
    BY <1>1, <1>2, <1>8 DEF Screens, Events
  <2> HIDE DEF c, W
  <2>3. Handle(u, e) \in Screens /\ Handle(u, e).busy = closed.busy /\ Handle(u, e).completed = c
    BY <1>2, <2>1, <2>2 DEF Screens
  <2> QED BY <1>1, <1>2, <1>8, <2>2, <2>3 DEF n
<1> QED BY <1>3, <1>4, <1>5, <1>6, <1>7, <1>8

\* The first i of them that report an end, and the requests they report over.
EndsUpTo(es, i) == {j \in 1..i : Completes(es[j])}
ReportedOver(es) == {r \in Requests : \E j \in 1..Len(es) : es[j].kind = "over" /\ es[j].about = r}

LEMMA OneMoreEnd ==
    ASSUME NEW es, NEW i \in Nat, i # 0,
           IsFiniteSet(EndsUpTo(es, i - 1)), Cardinality(EndsUpTo(es, i - 1)) \in Nat
    PROVE  /\ IsFiniteSet(EndsUpTo(es, i)) /\ Cardinality(EndsUpTo(es, i)) \in Nat
           /\ Cardinality(EndsUpTo(es, i))
                 = Cardinality(EndsUpTo(es, i - 1)) + (IF Completes(es[i]) THEN 1 ELSE 0)
<1>1. 1..i = 1..(i - 1) \cup {i} /\ i \notin 1..(i - 1)
  OBVIOUS
<1>2. CASE Completes(es[i])
  <2>1. EndsUpTo(es, i) = EndsUpTo(es, i - 1) \cup {i} /\ i \notin EndsUpTo(es, i - 1)
    BY <1>1, <1>2 DEF EndsUpTo
  <2> QED BY <1>2, <2>1, FS_AddElement
<1>3. CASE ~ Completes(es[i])
  <2>1. EndsUpTo(es, i) = EndsUpTo(es, i - 1)
    BY <1>1, <1>3 DEF EndsUpTo
  <2> QED BY <1>3, <2>1
<1> QED BY <1>2, <1>3

\* The UI after the first i events.
AfterEvents(u, es, i) ==
    /\ Handled(u, es)[i] \in Screens
    /\ IsFiniteSet(EndsUpTo(es, i)) /\ Cardinality(EndsUpTo(es, i)) \in Nat
    /\ Handled(u, es)[i].busy = u.busy - Cardinality(EndsUpTo(es, i))
    /\ Handled(u, es)[i].completed \subseteq u.completed \cup ReportedOver(es)

LEMMA HandledKeeps ==
    ASSUME NEW u \in Screens, NEW es \in Seq(Events)
    PROVE  /\ Handled(u, es)[Len(es)] \in Screens
           /\ Handled(u, es)[Len(es)].busy = u.busy - Cardinality(Ends(es))
           /\ Handled(u, es)[Len(es)].completed \subseteq u.completed \cup ReportedOver(es)
<1>0. Len(es) \in Nat /\ u.busy \in Int
  BY DEF Screens
<1> DEFINE T == {k \in 0..Len(es) : ~ AfterEvents(u, es, k)}
<1>1. T = {}
  <2> SUFFICES ASSUME T # {} PROVE FALSE
    OBVIOUS
  <2>1. PICK k \in T : \A j \in 0..(k - 1) : j \notin T
    BY <1>0, FirstExists
  <2>2. CASE k = 0
    <3>1. EndsUpTo(es, 0) = {}
      BY DEF EndsUpTo
    <3>2. Handled(u, es)[0] = u
      BY <1>0, HandledIs
    <3>3. IsFiniteSet(EndsUpTo(es, 0)) /\ Cardinality(EndsUpTo(es, 0)) = 0
      BY <3>1, FS_EmptySet
    <3>4. u.busy = u.busy - Cardinality(EndsUpTo(es, 0)) /\ Cardinality(EndsUpTo(es, 0)) \in Nat
      BY <1>0, <3>3
    <3>5. AfterEvents(u, es, 0)
      BY <3>2, <3>3, <3>4 DEF AfterEvents
    <3> QED BY <2>1, <2>2, <3>5
  <2>3. CASE k # 0
    <3> DEFINE v == Handled(u, es)[k - 1]
               e == es[k]
    <3>1. k \in 1..Len(es) /\ k \in Nat /\ k - 1 \in 0..Len(es) /\ k - 1 \in 0..(k - 1)
      BY <1>0, <2>1, <2>3
    <3>2. AfterEvents(u, es, k - 1)
      BY <2>1, <3>1
    <3>3. e \in Events
      BY <3>1
    <3>4. Handled(u, es)[k] = Handle(v, e)
      BY <1>0, <3>1, HandledIs
    <3>5. /\ IsFiniteSet(EndsUpTo(es, k)) /\ Cardinality(EndsUpTo(es, k)) \in Nat
          /\ Cardinality(EndsUpTo(es, k))
                = Cardinality(EndsUpTo(es, k - 1)) + (IF Completes(e) THEN 1 ELSE 0)
      BY <2>3, <3>1, <3>2, OneMoreEnd DEF AfterEvents
    <3>6. v \in Screens
      BY <3>2 DEF AfterEvents
    <3> HIDE DEF v, e
    <3>7. /\ Handle(v, e) \in Screens
          /\ Handle(v, e).busy = v.busy - (IF Completes(e) THEN 1 ELSE 0)
          /\ \/ Handle(v, e).completed = v.completed
             \/ e.kind = "over" /\ Handle(v, e).completed = v.completed \cup {e.about}
      BY <3>3, <3>6, HandleKeeps
    <3>8. e.kind = "over" => e.about \in ReportedOver(es)
      <4>1. e.kind = "over" => e.about \in Requests
        BY <3>3 DEF Events
      <4> QED BY <3>1, <4>1 DEF ReportedOver, e
    <3>9. Handle(v, e).completed \subseteq u.completed \cup ReportedOver(es)
      BY <3>2, <3>7, <3>8 DEF AfterEvents, v
    <3>10. Handle(v, e).busy = u.busy - Cardinality(EndsUpTo(es, k))
      <4>1. v.busy = u.busy - Cardinality(EndsUpTo(es, k - 1))
            /\ Cardinality(EndsUpTo(es, k - 1)) \in Nat
        BY <3>2 DEF AfterEvents, v
      <4>2. CASE Completes(e)
        BY <1>0, <3>5, <3>7, <4>1, <4>2
      <4>3. CASE ~ Completes(e)
        BY <1>0, <3>5, <3>7, <4>1, <4>3
      <4> QED BY <4>2, <4>3
    <3>11. AfterEvents(u, es, k)
      BY <3>4, <3>5, <3>7, <3>9, <3>10 DEF AfterEvents
    <3> QED BY <2>1, <3>11
  <2> QED BY <2>2, <2>3
<1>2. AfterEvents(u, es, Len(es))
  BY <1>0, <1>1
<1> QED BY <1>2 DEF AfterEvents, EndsUpTo, Ends

-----------------------------------------------------------------------------
(* What the operator does, and the ticks of the UI.                        *)

\* A step of t's UI that leaves the broker, the connections and the workers alone.
LEMMA ScreenKeeps ==
    ASSUME ApprovalInv, NEW t \in Tuis, NEW v \in Screens, NEW cs \in Seq(Commands),
           NEW es \in Seq(Events),
           UNCHANGED <<brokerVars, link, session, listener, ready, nextSession, worker, applied>>,
           ui' = [ui EXCEPT ![t] = v], commands' = [commands EXCEPT ![t] = cs],
           events' = [events EXCEPT ![t] = es],
           v.busy = Len(cs) + UnderWay(worker[t]) + Cardinality(Ends(es)),
           v.completed \subseteq Over,
           \A i \in 1..Len(es) : es[i].kind = "over" => es[i].about \in Over
    PROVE  ApprovalInv' /\ [BrokerNext]_brokerVars
<1>1. TuiTypes /\ BrokerInv
  BY DEF ApprovalInv
<1>2. [BrokerNext]_brokerVars
  OBVIOUS
<1>3. BrokerInv' /\ Over' = Over
  BY <1>1, <1>2, NextInv DEF Over, brokerVars
<1>4. TuiTypes'
  BY <1>1 DEF TuiTypes
<1>5. AllSane' /\ SessionsApart' /\ ApprovedWasApplied'
  BY DEF ApprovalInv, AllSane, SessionsApart, ApprovedWasApplied, brokerVars
<1>6. ASSUME NEW u \in Tuis PROVE AtHand(u)' /\ ToldOver(u)' /\ Balanced(u)'
  <2>1. AtHand(u)'
    BY DEF ApprovalInv, AtHand, brokerVars
  <2>2. CASE u = t
    <3>1. ui'[t] = v /\ commands'[t] = cs /\ events'[t] = es /\ worker'[t] = worker[t]
      BY <1>1 DEF TuiTypes
    <3>2. ToldOver(t)'
      BY <1>3, <3>1 DEF ToldOver
    <3>3. Balanced(t)'
      BY <3>1 DEF Balanced
    <3> QED BY <2>1, <2>2, <3>2, <3>3
  <2>3. CASE u # t
    <3>1. ui'[u] = ui[u] /\ commands'[u] = commands[u] /\ events'[u] = events[u]
          /\ worker'[u] = worker[u]
      BY <1>1, <2>3 DEF TuiTypes
    <3>2. ToldOver(u) /\ Balanced(u)
      BY DEF ApprovalInv
    <3>3. ToldOver(u)'
      BY <1>3, <3>1, <3>2 DEF ToldOver
    <3>4. Balanced(u)'
      BY <3>1, <3>2 DEF Balanced
    <3> QED BY <2>1, <3>3, <3>4
  <2> QED BY <2>2, <2>3
<1> QED BY <1>2, <1>3, <1>4, <1>5, <1>6 DEF ApprovalInv

\* What a UI shows, and has sent and will be told.
LEMMA ScreenNow ==
    ASSUME ApprovalInv, NEW t \in Tuis
    PROVE  /\ ui \in [Tuis -> Screens] /\ ui[t] \in Screens
           /\ commands \in [Tuis -> Seq(Commands)] /\ commands[t] \in Seq(Commands)
           /\ events \in [Tuis -> Seq(Events)] /\ events[t] \in Seq(Events)
           /\ ui[t].busy = Len(commands[t]) + UnderWay(worker[t]) + Cardinality(Ends(events[t]))
           /\ ui[t].completed \subseteq Over
           /\ \A i \in 1..Len(events[t]) :
                 events[t][i].kind = "over" => events[t][i].about \in Over
           /\ Len(commands[t]) \in Nat /\ UnderWay(worker[t]) \in {0, 1}
           /\ Cardinality(Ends(events[t])) \in Nat
<1>1. /\ ui \in [Tuis -> Screens] /\ ui[t] \in Screens
      /\ commands \in [Tuis -> Seq(Commands)] /\ commands[t] \in Seq(Commands)
      /\ events \in [Tuis -> Seq(Events)] /\ events[t] \in Seq(Events)
  BY DEF ApprovalInv, TuiTypes
<1>2. ToldOver(t) /\ Balanced(t)
  BY DEF ApprovalInv
<1>3. Len(commands[t]) \in Nat
  BY <1>1
<1>4. UnderWay(worker[t]) \in {0, 1}
  BY DEF UnderWay
<1>5. Cardinality(Ends(events[t])) \in Nat
  BY <1>1, EndsAppend
<1> QED BY <1>1, <1>2, <1>3, <1>4, <1>5 DEF ToldOver, Balanced

\* A step that changes only the dialogs.
LEMMA DialogsKeep ==
    ASSUME ApprovalInv, NEW t \in Tuis, NEW v \in Screens,
           v.busy = ui[t].busy, v.completed = ui[t].completed,
           AtScreen, UNCHANGED commands, ui' = [ui EXCEPT ![t] = v]
    PROVE  ApprovalInv' /\ [BrokerNext]_brokerVars
<1>1. /\ commands' = [commands EXCEPT ![t] = commands[t]]
      /\ events' = [events EXCEPT ![t] = events[t]]
  BY ScreenNow DEF AtScreen
<1>2. /\ v.busy = Len(commands[t]) + UnderWay(worker[t]) + Cardinality(Ends(events[t]))
      /\ v.completed \subseteq Over
      /\ \A i \in 1..Len(events[t]) : events[t][i].kind = "over" => events[t][i].about \in Over
      /\ commands[t] \in Seq(Commands) /\ events[t] \in Seq(Events)
  BY ScreenNow
<1>3. UNCHANGED <<brokerVars, link, session, listener, ready, nextSession, worker, applied>>
  BY DEF AtScreen
<1> QED BY <1>1, <1>2, <1>3, ScreenKeeps

\* A step that sends the command c.
LEMMA SendKeeps ==
    ASSUME ApprovalInv, NEW t \in Tuis, NEW v \in Screens, NEW c \in Commands,
           v.busy = ui[t].busy + 1, v.completed = ui[t].completed,
           AtScreen, ui' = [ui EXCEPT ![t] = v],
           commands' = [commands EXCEPT ![t] = Append(@, c)]
    PROVE  ApprovalInv' /\ [BrokerNext]_brokerVars
<1> DEFINE cs == Append(commands[t], c)
<1>1. /\ commands' = [commands EXCEPT ![t] = cs]
      /\ events' = [events EXCEPT ![t] = events[t]]
  BY ScreenNow DEF AtScreen
<1>2. cs \in Seq(Commands) /\ Len(cs) = Len(commands[t]) + 1
  BY ScreenNow
<1> HIDE DEF cs
<1>3. /\ v.busy = Len(cs) + UnderWay(worker[t]) + Cardinality(Ends(events[t]))
      /\ v.completed \subseteq Over
      /\ \A i \in 1..Len(events[t]) : events[t][i].kind = "over" => events[t][i].about \in Over
      /\ events[t] \in Seq(Events)
  <2>1. /\ ui[t].busy = Len(commands[t]) + UnderWay(worker[t]) + Cardinality(Ends(events[t]))
        /\ Len(commands[t]) \in Nat /\ UnderWay(worker[t]) \in {0, 1}
        /\ Cardinality(Ends(events[t])) \in Nat
    BY ScreenNow
  <2> DEFINE l == Len(commands[t])
             w == UnderWay(worker[t])
             n == Cardinality(Ends(events[t]))
  <2>2. l \in Int /\ w \in Int /\ n \in Int /\ v.busy = (l + w + n) + 1 /\ Len(cs) = l + 1
    BY <1>2, <2>1
  <2>3. v.busy = Len(cs) + w + n
    <3> HIDE DEF l, w, n
    <3> QED BY <2>2
  <2> QED BY <2>3, ScreenNow
<1>4. UNCHANGED <<brokerVars, link, session, listener, ready, nextSession, worker, applied>>
  BY DEF AtScreen
<1> QED BY <1>1, <1>2, <1>3, <1>4, ScreenKeeps

LEMMA TickKeeps ==
    ASSUME ApprovalInv, NEW t \in Tuis, Tick(t)
    PROVE  ApprovalInv' /\ [BrokerNext]_brokerVars
<1> DEFINE u == Handled(ui[t], events[t])[Len(events[t])]
           v == IF u.backlog = <<>> THEN u
                ELSE Offer([u EXCEPT !.backlog = Tail(@)], Head(u.backlog))
<1>1. /\ events' = [events EXCEPT ![t] = <<>>]
      /\ ui' = [ui EXCEPT ![t] = v]
      /\ UNCHANGED <<brokerVars, link, session, listener, ready, nextSession, worker, commands, applied>>
  BY DEF Tick
<1>2. /\ u \in Screens
      /\ u.busy = ui[t].busy - Cardinality(Ends(events[t]))
      /\ u.completed \subseteq ui[t].completed \cup ReportedOver(events[t])
  BY ScreenNow, HandledKeeps
<1> HIDE DEF u
<1>3. v \in Screens /\ v.busy = u.busy /\ v.completed = u.completed
  <2>1. CASE u.backlog = <<>>
    BY <1>2, <2>1
  <2>2. CASE u.backlog # <<>>
    <3> DEFINE b == Tail(u.backlog)
               x == [u EXCEPT !.backlog = b]
    <3>1. u.backlog \in Seq(Dialogs)
      BY <1>2 DEF Screens
    <3>2. b \in Seq(Dialogs) /\ Head(u.backlog) \in Dialogs
      BY <2>2, <3>1
    <3> HIDE DEF b
    <3>3. x \in Screens /\ x.busy = u.busy /\ x.completed = u.completed
      BY <1>2, <3>2 DEF Screens
    <3>4. v = Offer(x, Head(u.backlog))
      BY <2>2 DEF b
    <3> HIDE DEF x, v
    <3> QED BY <3>2, <3>3, <3>4, OfferKeeps
  <2> QED BY <2>1, <2>2
<1> HIDE DEF v
<1>4. v.completed \subseteq Over
  <2>1. ReportedOver(events[t]) \subseteq Over
    BY ScreenNow DEF ReportedOver
  <2> QED BY <1>2, <1>3, <2>1, ScreenNow
<1> DEFINE es == <<>>
<1>5. es \in Seq(Events) /\ Len(es) = 0 /\ Cardinality(Ends(es)) = 0
  <2>1. es \in Seq(Events) /\ Len(es) = 0
    OBVIOUS
  <2>2. Ends(es) = {}
    BY <2>1 DEF Ends
  <2> QED BY <2>1, <2>2, FS_EmptySet
<1>6. events' = [events EXCEPT ![t] = es]
  BY <1>1
<1> HIDE DEF es
<1>7. v.busy = Len(commands[t]) + UnderWay(worker[t]) + Cardinality(Ends(es))
  <2>1. /\ ui[t].busy = Len(commands[t]) + UnderWay(worker[t]) + Cardinality(Ends(events[t]))
        /\ Len(commands[t]) \in Nat /\ UnderWay(worker[t]) \in {0, 1}
        /\ Cardinality(Ends(events[t])) \in Nat
    BY ScreenNow
  <2> QED BY <1>2, <1>3, <1>5, <2>1
<1>8. commands' = [commands EXCEPT ![t] = commands[t]] /\ commands[t] \in Seq(Commands)
  BY <1>1, ScreenNow
<1>9. \A i \in 1..Len(es) : es[i].kind = "over" => es[i].about \in Over
  BY <1>5
<1> QED BY <1>1, <1>3, <1>4, <1>5, <1>6, <1>7, <1>8, <1>9, ScreenKeeps

LEMMA ShowKeeps ==
    ASSUME ApprovalInv, NEW t \in Tuis, Show(t)
    PROVE  ApprovalInv' /\ [BrokerNext]_brokerVars
<1>1. PICK d \in ui[t].waiting : ui' = [ui EXCEPT ![t].dialog = d, ![t].waiting = @ \ {d}]
  BY DEF Show
<1> DEFINE W == ui[t].waiting \ {d}
           v == [ui[t] EXCEPT !.dialog = d, !.waiting = W]
<1>2. ui[t] \in Screens /\ ui[t].waiting \in SUBSET Dialogs
  BY ScreenNow DEF Screens
<1>3. d \in Dialogs /\ W \in SUBSET Dialogs
  BY <1>2
<1>4. ui' = [ui EXCEPT ![t] = v]
  BY <1>1, ScreenNow DEF Screens
<1>5. v \in Screens /\ v.busy = ui[t].busy /\ v.completed = ui[t].completed
  <2> HIDE DEF W
  <2> QED BY <1>2, <1>3 DEF Screens
<1> HIDE DEF v
<1> QED BY <1>4, <1>5, DialogsKeep DEF Show

LEMMA MinimiseKeeps ==
    ASSUME ApprovalInv, NEW t \in Tuis, Minimise(t)
    PROVE  ApprovalInv' /\ [BrokerNext]_brokerVars
<1> DEFINE W == ui[t].waiting \cup {ui[t].dialog}
           v == [ui[t] EXCEPT !.dialog = Nobody, !.waiting = W]
<1>1. ui[t] \in Screens /\ ui[t].waiting \in SUBSET Dialogs /\ ui[t].dialog \in Dialogs
  BY ScreenNow DEF Screens, Minimise
<1>2. ui' = [ui EXCEPT ![t] = v]
  BY ScreenNow DEF Minimise, Screens
<1>3. v \in Screens /\ v.busy = ui[t].busy /\ v.completed = ui[t].completed
  <2>1. W \in SUBSET Dialogs
    BY <1>1
  <2> HIDE DEF W
  <2> QED BY <1>1, <2>1 DEF Screens
<1> HIDE DEF v
<1> QED BY <1>2, <1>3, DialogsKeep DEF Minimise

LEMMA WriteKeeps ==
    ASSUME ApprovalInv, NEW t \in Tuis, Write(t)
    PROVE  ApprovalInv' /\ [BrokerNext]_brokerVars
<1> DEFINE c == [kind |-> "write"]
           n == ui[t].busy + 1
           v == [ui[t] EXCEPT !.busy = n]
<1>1. ui[t] \in Screens /\ n \in Int
  BY ScreenNow DEF Screens
<1>2. ui' = [ui EXCEPT ![t] = v] /\ commands' = [commands EXCEPT ![t] = Append(@, c)] /\ AtScreen
  BY ScreenNow DEF Write, Screens
<1>3. c \in Commands
  BY DEF Commands
<1>4. v \in Screens /\ v.busy = ui[t].busy + 1 /\ v.completed = ui[t].completed
  <2>1. v \in Screens /\ v.busy = n /\ v.completed = ui[t].completed
    <3> HIDE DEF n
    <3> QED BY <1>1 DEF Screens
  <2> QED BY <2>1
<1> HIDE DEF v, c
<1> QED BY <1>2, <1>3, <1>4, SendKeeps

\* queue() of an answer to the dialog.
LEMMA AnswerSent ==
    ASSUME ApprovalInv, NEW t \in Tuis, NEW c \in Commands, NEW next \in Dialogs \cup {Nobody},
           Send(t, c, next), AtScreen
    PROVE  ApprovalInv' /\ [BrokerNext]_brokerVars
<1> DEFINE v == [ui[t] EXCEPT !.busy = 1, !.dialog = next]
<1>1. ui[t] \in Screens /\ ui[t].busy = 0 /\ 1 \in Int
  BY ScreenNow DEF Send
<1>2. ui' = [ui EXCEPT ![t] = v] /\ commands' = [commands EXCEPT ![t] = Append(@, c)]
  BY ScreenNow DEF Send, Screens
<1>3. v \in Screens /\ v.busy = 1 /\ v.completed = ui[t].completed
  BY <1>1 DEF Screens
<1> HIDE DEF v
<1>4. v.busy = ui[t].busy + 1
  BY <1>1, <1>3
<1> QED BY <1>2, <1>3, <1>4, SendKeeps

LEMMA AnswersAreCommands ==
    ASSUME NEW d \in Dialogs, NEW yes \in BOOLEAN
    PROVE  /\ [kind |-> "answer", yes |-> yes, about |-> d] \in Commands
           /\ d.stage \in Reviews => [kind |-> "review", yes |-> yes, about |-> d] \in Commands
BY DEF Commands

LEMMA PressYesKeeps ==
    ASSUME ApprovalInv, NEW t \in Tuis, PressYes(t)
    PROVE  ApprovalInv' /\ [BrokerNext]_brokerVars
<1> DEFINE d == ui[t].dialog
           answer == [kind |-> "answer", yes |-> TRUE, about |-> d]
           review == [kind |-> "review", yes |-> TRUE, about |-> d]
<1>1. d \in Dialogs /\ ui[t] \in Screens
  BY ScreenNow DEF Screens, PressYes
<1>2. answer \in Commands /\ (d.stage \in Reviews => review \in Commands)
  BY <1>1, AnswersAreCommands
<1>3. /\ \/ Send(t, answer, Nobody)
         \/ ui' = [ui EXCEPT ![t].dialog = Nobody] /\ UNCHANGED commands
         \/ d.stage \in Reviews /\ Send(t, review, Nobody)
      /\ AtScreen
  BY DEF PressYes
<1> HIDE DEF answer, review
<1>4. CASE ui' = [ui EXCEPT ![t].dialog = Nobody] /\ UNCHANGED commands
  <2> DEFINE v == [ui[t] EXCEPT !.dialog = Nobody]
  <2>1. ui' = [ui EXCEPT ![t] = v]
    BY <1>4, ScreenNow DEF Screens
  <2>2. v \in Screens /\ v.busy = ui[t].busy /\ v.completed = ui[t].completed
    BY <1>1 DEF Screens
  <2> HIDE DEF v
  <2> QED BY <1>3, <1>4, <2>1, <2>2, DialogsKeep
<1> QED BY <1>2, <1>3, <1>4, AnswerSent

LEMMA PressNoKeeps ==
    ASSUME ApprovalInv, NEW t \in Tuis, PressNo(t)
    PROVE  ApprovalInv' /\ [BrokerNext]_brokerVars
<1> DEFINE d == ui[t].dialog
           answer == [kind |-> "answer", yes |-> FALSE, about |-> d]
           review == [kind |-> "review", yes |-> FALSE, about |-> d]
<1>1. d \in Dialogs
  BY ScreenNow DEF Screens, PressNo
<1>2. answer \in Commands /\ (d.stage \in Reviews => review \in Commands)
  BY <1>1, AnswersAreCommands
<1>3. /\ Send(t, answer, d) \/ (d.stage \in Reviews /\ Send(t, review, Nobody))
      /\ AtScreen
  BY DEF PressNo
<1> HIDE DEF answer, review, d
<1> QED BY <1>1, <1>2, <1>3, AnswerSent

-----------------------------------------------------------------------------
(* The invariant.                                                          *)

LEMMA ApprovalInit == Init => ApprovalInv
<1> SUFFICES ASSUME Init PROVE ApprovalInv
  OBVIOUS
<1> DEFINE screen == [dialog |-> Nobody, waiting |-> {}, backlog |-> <<>>,
                      completed |-> {}, busy |-> 0]
<1>1. BrokerInv /\ frontends = {} /\ \A r \in Requests : status[r] = "absent"
  BY InitInv DEF Init, BrokerInit
<1>2. /\ link = [t \in Tuis |-> "closed"] /\ session = [t \in Tuis |-> Nobody]
      /\ listener = [t \in Tuis |-> Nobody] /\ ready = [t \in Tuis |-> FALSE]
      /\ nextSession = 1 /\ worker = [t \in Tuis |-> Idle]
      /\ commands = [t \in Tuis |-> <<>>] /\ events = [t \in Tuis |-> <<>>]
      /\ ui = [t \in Tuis |-> screen] /\ applied = {}
  BY DEF Init
<1>3. screen \in Screens /\ screen.busy = 0 /\ screen.completed = {}
  BY DEF Screens
<1> HIDE DEF screen
<1>4. TuiTypes
  <2>1. worker \in [Tuis -> Workers]
    BY <1>2, IdleIsSane
  <2>2. commands \in [Tuis -> Seq(Commands)] /\ events \in [Tuis -> Seq(Events)]
    BY <1>2
  <2> QED BY <1>2, <1>3, <2>1, <2>2 DEF TuiTypes
<1>5. AllSane
  BY <1>2, IdleIsSane DEF AllSane
<1>6. SessionsApart
  BY <1>1, <1>2 DEF SessionsApart
<1>7. ApprovedWasApplied
  BY <1>1 DEF ApprovedWasApplied
<1>8. ASSUME NEW t \in Tuis PROVE AtHand(t) /\ ToldOver(t) /\ Balanced(t)
  <2>1. link[t] = "closed" /\ ui[t] = screen /\ events[t] = <<>> /\ commands[t] = <<>>
        /\ worker[t].pc = "loop"
    BY <1>2 DEF Idle
  <2>2. AtHand(t) /\ ToldOver(t)
    BY <1>3, <2>1 DEF AtHand, ToldOver
  <2>3. Ends(events[t]) = {} /\ UnderWay(worker[t]) = 0 /\ Len(commands[t]) = 0
    BY <2>1 DEF Ends, UnderWay
  <2>4. Balanced(t)
    <3>1. Cardinality(Ends(events[t])) = 0 /\ ui[t].busy = 0
      BY <1>3, <2>1, <2>3, FS_EmptySet
    <3> QED BY <2>3, <3>1 DEF Balanced
  <2> QED BY <2>2, <2>4
<1> QED BY <1>1, <1>4, <1>5, <1>6, <1>7, <1>8 DEF ApprovalInv

LEMMA ApprovalStep ==
    ASSUME ApprovalInv, [Next]_vars
    PROVE  ApprovalInv' /\ [BrokerNext]_brokerVars
<1>1. CASE UNCHANGED vars
  <2>1. UNCHANGED <<brokerVars, link, session, listener, ready, nextSession, worker, commands,
                    events, ui, applied>>
    BY <1>1 DEF vars, tuiVars
  <2>2. TuiTypes' /\ SessionsApart' /\ \A r \in Requests : status'[r] = status[r]
    BY <2>1 DEF ApprovalInv, TuiTypes, SessionsApart, brokerVars
  <2> QED BY <2>1, <2>2, QuietBroker, OutsideKeeps
<1>2. CASE BackendStep
  BY <1>2, BackendKeeps
<1>3. ASSUME NEW t \in Tuis, Open(t) \/ Subscribe(t) \/ Listen(t) \/ Cut(t)
      PROVE  ApprovalInv' /\ [BrokerNext]_brokerVars
  BY <1>3, OpenKeeps, SubscribeKeeps, ListenKeeps, CutKeeps
<1>4. ASSUME NEW t \in Tuis, WorkerStep(t)
      PROVE  ApprovalInv' /\ [BrokerNext]_brokerVars
  BY <1>4, WorkerStepKeeps
<1>5. ASSUME NEW t \in Tuis, UiStep(t)
      PROVE  ApprovalInv' /\ [BrokerNext]_brokerVars
  BY <1>5, TickKeeps, ShowKeeps, MinimiseKeeps, WriteKeeps, PressYesKeeps, PressNoKeeps
     DEF UiStep
<1> QED BY <1>1, <1>2, <1>3, <1>4, <1>5 DEF Next

-----------------------------------------------------------------------------
(* The theorems.                                                           *)

(***************************************************************************)
(* The inductive invariant holds, however many TUIs there are, and         *)
(* whatever breaks, expires or is pressed meanwhile.                       *)
(***************************************************************************)
THEOREM ApprovalInvariant == Spec => []ApprovalInv
<1>1. ApprovalInv /\ [Next]_vars => ApprovalInv'
  BY ApprovalStep
<1> QED BY <1>1, ApprovalInit, PTL DEF Spec

(***************************************************************************)
(* The TUIs, with their threads and broken connections, use the broker     *)
(* only as ApprovalBroker says: what is proved there of every waiting,     *)
(* claimed and answered request holds of the composed system.              *)
(***************************************************************************)
THEOREM TuisUseTheBroker == Spec => BrokerSpec
<1>1. Init => BrokerInit
  BY DEF Init
<1>2. ApprovalInv /\ [Next]_vars => [BrokerNext]_brokerVars
  BY ApprovalStep
<1> QED BY <1>1, <1>2, ApprovalInvariant, PTL DEF Spec, BrokerSpec

(***************************************************************************)
(* Every thread keeps its types; the UI never counts below zero commands,  *)
(* so that every command that pump() takes off was sent and not yet ended. *)
(***************************************************************************)
THEOREM ApprovalTypeCorrect == Spec => []TypeOK
<1>1. ApprovalInv => TypeOK
  <2> SUFFICES ASSUME ApprovalInv PROVE TypeOK
    OBVIOUS
  <2>1. BrokerTypeOK /\ TuiTypes
    BY DEF ApprovalInv, BrokerInv
  <2>2. ASSUME NEW t \in Tuis
        PROVE  /\ worker[t].pc \in Pcs
               /\ worker[t].active \in Claims \cup {Nobody}
               /\ worker[t].claim \in Claims \cup {Nobody}
               /\ worker[t].review \in Dialogs \cup {Nobody}
               /\ worker[t].todo \subseteq Requests
               /\ ui[t].dialog \in Dialogs \cup {Nobody}
               /\ ui[t].waiting \subseteq Dialogs
               /\ ui[t].busy \in Nat
    <3>1. worker[t] \in Workers /\ ui[t] \in Screens
      BY <2>1 DEF TuiTypes
    <3>2. ui[t].busy \in Nat
      <4>1. /\ ui[t].busy = Len(commands[t]) + UnderWay(worker[t]) + Cardinality(Ends(events[t]))
            /\ Len(commands[t]) \in Nat /\ UnderWay(worker[t]) \in {0, 1}
            /\ Cardinality(Ends(events[t])) \in Nat
        BY ScreenNow
      <4> QED BY <4>1
    <3> QED BY <3>1, <3>2 DEF Workers, Screens
  <2> QED BY <2>1, <2>2 DEF TypeOK, TuiTypes
<1> QED BY <1>1, ApprovalInvariant, PTL

(***************************************************************************)
(* deploy_active() sends at most once under a claim, whatever is answered  *)
(* again, fails or is lost.                                                *)
(***************************************************************************)
THEOREM EachClaimSendsOnce == Spec => []SentOnce
<1>1. ApprovalInv => SentOnce
  <2> SUFFICES ASSUME ApprovalInv, NEW t \in Tuis PROVE worker[t].sends <= 1
    BY DEF SentOnce
  <2>1. worker[t] \in Workers
    BY DEF ApprovalInv, TuiTypes
  <2> QED BY <2>1 DEF Workers
<1> QED BY <1>1, ApprovalInvariant, PTL

(***************************************************************************)
(* A staged host review is always of the claim the worker holds, lease     *)
(* included: reconnect_if_broken(), approval_inner() and                   *)
(* poll_approval_inner() leave none behind.                                *)
(***************************************************************************)
THEOREM ReviewsAreOfTheClaim == Spec => []ReviewIsOfClaim
<1>1. ApprovalInv => ReviewIsOfClaim
  BY DEF ApprovalInv, AllSane, Sane, ReviewIsOfClaim
<1> QED BY <1>1, ApprovalInvariant, PTL

(***************************************************************************)
(* No request is resolved as deployed, by any TUI, before its target       *)
(* applied a deployment (complete_host_deployment).                        *)
(***************************************************************************)
THEOREM ApprovedMeansApplied == Spec => []ApprovedWasApplied
<1>1. ApprovalInv => ApprovedWasApplied
  BY DEF ApprovalInv
<1> QED BY <1>1, ApprovalInvariant, PTL

(***************************************************************************)
(* What the broker leases to a connected TUI its worker holds, under the   *)
(* same lease: no claim is left to expire unseen.                          *)
(***************************************************************************)
THEOREM ClaimsStayAtHand == Spec => []ClaimIsAtHand
<1>1. ApprovalInv => ClaimIsAtHand
  BY DEF ApprovalInv, AtHand, ClaimIsAtHand
<1> QED BY <1>1, ApprovalInvariant, PTL

(***************************************************************************)
(* completed_approvals holds only requests that are over for good, also    *)
(* after a report that was delayed: the UI hides none that waits.          *)
(***************************************************************************)
THEOREM CompletedRequestsAreOver == Spec => []CompletedIsOver
<1>1. ApprovalInv => CompletedIsOver
  BY DEF ApprovalInv, ToldOver, Over, CompletedIsOver
<1> QED BY <1>1, ApprovalInvariant, PTL
=============================================================================
