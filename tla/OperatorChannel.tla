--------------------------- MODULE OperatorChannel ---------------------------
(***************************************************************************)
(* Requests that wait for an operator, from crates/core/src/backend/       *)
(* secrets.rs (the backend) and crates/manager/src/operator_channel.rs     *)
(* (the TUI).                                                              *)
(*                                                                         *)
(* A requester's thread claims a slot, waits for an attached TUI, sends    *)
(* its job to the most recently attached one and polls its reply channel.  *)
(* Every operator session has a thread that works off an inbox of jobs and *)
(* withdrawals (from requester threads) and of answers and cancellations   *)
(* (from the TUI, through a reader thread).  On the TUI, a handler thread  *)
(* per request waits for the operator's decision, works and answers.       *)
(* Threads run at any speed; requesters leave, connections break and TUIs  *)
(* close at any moment.                                                    *)
(*                                                                         *)
(* Abstractions.  A request stands for its id and for the connection that  *)
(* carries it.  A frame the session thread writes is handled by the TUI at *)
(* once: it was in a FIFO already, the inbox.  What the operator returns   *)
(* is "approved" or "denied".  Progress frames and heartbeats carry no     *)
(* state; that writing them can fail is the same as peer_done.             *)
(*                                                                         *)
(* A definition marked "Slip" is a plausible mistake in the definition it  *)
(* precedes; no specification uses it.                                     *)
(***************************************************************************)
EXTENDS Integers, Sequences, FiniteSets, Functions

CONSTANTS
    Requests,     \* requests, each made once
    Sessions,     \* operator connections, numbered in the order they attach
    Tuis,         \* TUI processes
    Owners,       \* the possible functions from sessions to the TUIs they are of
    Nobody,       \* no session, no TUI
    MaxPending,   \* MAX_PENDING
    Kinds         \* the kinds of requests that are made

AllKinds == {"secrets", "login", "closure", "artifacts", "confirm"}

ASSUME RequestsAssumption == IsFiniteSet(Requests)
ASSUME PendingAssumption == MaxPending \in Nat \ {0}
ASSUME KindsAssumption == Kinds \subseteq AllKinds
ASSUME SessionsAssumption == Sessions \subseteq Nat
ASSUME OwnersAssumption == Owners \subseteq [Sessions -> Tuis]
ASSUME NobodyAssumption == Nobody \notin Sessions \cup Tuis

VARIABLES
    pc,        \* pc[r]: where the requester thread of r is
    kind,      \* kind[r]: what r asks for
    op,        \* op[r]: the session r was sent to last
    replies,   \* replies[r]: the reply channel of r
    deadline,  \* deadline[r]: whether r may time out
    gone,      \* gone[r]: the requester hung up
    result,    \* result[r]: how r ended
    granted,   \* granted[r]: r's connection remembers its login approval
    pending    \* the claimed slots

VARIABLES
    sess,      \* sess[s]: where the session thread of s is
    tui,       \* tui[s]: the process at the other end of s
    attached,  \* the sessions in the registry `attached`
    peers,     \* the sessions in `operator_peers`
    registry,  \* registry[r]: the TUI that owns closure request r
    inbox,     \* inbox[s]: the inbox of s
    waiting    \* waiting[s]: requests sent to the TUI and not yet answered

VARIABLES
    up,        \* up[s]: the TUI's end of s is open
    handler,   \* handler[s][r]: the handler thread of r
    signers    \* signers[t]: the login approvals whose signer runs

requestVars == <<pc, kind, op, replies, deadline, gone, result, granted, pending>>
sessionVars == <<sess, tui, attached, peers, registry, inbox, waiting>>
tuiVars == <<up, handler, signers>>
vars == <<requestVars, sessionVars, tuiVars>>

Message == [type : {"job", "withdraw", "grantEnded", "cancel", "approved", "denied"},
            req : Requests]
           \cup [type : {"closed"}, req : {Nobody}]
Msg(type, r) == [type |-> type, req |-> r]
Answers == {"approved", "denied"}

Pcs == {"idle", "claim", "seek", "number", "register", "send", "await", "polled", "done"}

\* Where a requester thread holds its slot.
Held == Pcs \ {"idle", "claim", "done"}

TypeOK ==
    /\ pc \in [Requests -> Pcs]
    /\ kind \in [Requests -> AllKinds]
    /\ op \in [Requests -> Sessions \cup {Nobody}]
    /\ replies \in [Requests -> Seq({"approved", "denied", "cancel"})]
    /\ deadline \in [Requests -> BOOLEAN]
    /\ gone \in [Requests -> BOOLEAN]
    /\ result \in [Requests -> {"none", "approved", "denied", "error"}]
    /\ granted \in [Requests -> BOOLEAN]
    /\ pending \in 0..MaxPending
    /\ sess \in [Sessions -> {"off", "open", "closing", "detached", "over"}]
    /\ tui \in [Sessions -> Tuis]
    /\ attached \subseteq Sessions
    /\ peers \subseteq Sessions
    /\ registry \in [Requests -> Tuis \cup {Nobody}]
    /\ inbox \in [Sessions -> Seq(Message)]
    /\ waiting \in [Sessions -> SUBSET Requests]
    /\ up \in [Sessions -> BOOLEAN]
    /\ handler \in [Sessions -> [Requests -> {"none", "counting", "asking", "check", "work"}]]
    /\ signers \in [Tuis -> SUBSET Requests]

Init ==
    /\ pc = [r \in Requests |-> "idle"]
    /\ kind \in [Requests -> Kinds]
    /\ op = [r \in Requests |-> Nobody]
    /\ replies = [r \in Requests |-> <<>>]
    /\ deadline = [r \in Requests |-> FALSE]
    /\ gone = [r \in Requests |-> FALSE]
    /\ result = [r \in Requests |-> "none"]
    /\ granted = [r \in Requests |-> FALSE]
    /\ pending = 0
    /\ sess = [s \in Sessions |-> "off"]
    /\ tui \in Owners
    /\ attached = {}
    /\ peers = {}
    /\ registry = [r \in Requests |-> Nobody]
    /\ inbox = [s \in Sessions |-> <<>>]
    /\ waiting = [s \in Sessions |-> {}]
    /\ up = [s \in Sessions |-> FALSE]
    /\ handler = [s \in Sessions |-> [r \in Requests |-> "none"]]
    /\ signers = [t \in Tuis |-> {}]

-----------------------------------------------------------------------------
(* The registry and the channels.                                          *)

IsAttached(s) == s \in attached
Latest(s) == IsAttached(s) /\ \A z \in attached : z <= s

\* The inbox can be sent to until the session thread returns.
Alive(s) == s # Nobody /\ sess[s] \notin {"off", "over"}
Post(s, m) == inbox' = IF Alive(s) THEN [inbox EXCEPT ![s] = Append(@, m)] ELSE inbox

\* SecretRequest::countdown: a confirmation waits however long it takes.
Countdown(r) == kind[r] # "confirm"

-----------------------------------------------------------------------------
(* The requester thread: request_operator_with_id and what it calls.       *)

At(r, from, to) == pc[r] = from /\ pc' = [pc EXCEPT ![r] = to]

\* Slip: the closure request is left registered.
FinishRegistered(r, how) ==
    /\ pc' = [pc EXCEPT ![r] = "done"]
    /\ result' = [result EXCEPT ![r] = how]
    /\ granted' = [granted EXCEPT ![r] = how = "approved" /\ kind[r] = "login"]
    /\ pending' = IF pc[r] \in Held THEN pending - 1 ELSE pending
    /\ UNCHANGED registry

\* The thread returns: the slot is released and Registered is dropped.
Finish(r, how) ==
    /\ pc' = [pc EXCEPT ![r] = "done"]
    /\ result' = [result EXCEPT ![r] = how]
    /\ granted' = [granted EXCEPT ![r] = how = "approved" /\ kind[r] = "login"]
    /\ pending' = IF pc[r] \in Held THEN pending - 1 ELSE pending
    /\ registry' = [registry EXCEPT ![r] = Nobody]

\* A confirmation fails at once when no TUI is attached.
Ask(r) ==
    /\ pc[r] = "idle"
    /\ IF kind[r] = "confirm" /\ attached = {}
       THEN Finish(r, "error")
       ELSE At(r, "idle", "claim") /\ UNCHANGED <<result, granted, pending, registry>>
    /\ UNCHANGED <<kind, op, replies, deadline, gone, sess, tui, attached, peers,
                   inbox, waiting, tuiVars>>

Claim(r) ==
    /\ pc[r] = "claim"
    /\ IF pending < MaxPending
       THEN /\ At(r, "claim", "seek")
            /\ pending' = pending + 1
            /\ UNCHANGED <<result, granted, registry>>
       ELSE Finish(r, "error")
    /\ UNCHANGED <<kind, op, replies, deadline, gone, sess, tui, attached, peers,
                   inbox, waiting, tuiVars>>

\* The step before a job is sent: a closure request is registered first.
Sending(r) == IF kind[r] = "closure" THEN "register" ELSE "send"

\* wait_for_operator: the most recently attached TUI, once there is one ...
Seek(r) ==
    /\ At(r, "seek", IF op[r] = Nobody THEN "number" ELSE Sending(r))
    /\ \E s \in Sessions : Latest(s) /\ op' = [op EXCEPT ![r] = s]
    /\ UNCHANGED <<kind, replies, deadline, gone, result, granted, pending,
                   sessionVars, tuiVars>>

\* ... unless the requester leaves first.
SeekGone(r) ==
    /\ pc[r] = "seek" /\ attached = {} /\ gone[r]
    /\ Finish(r, "error")
    /\ UNCHANGED <<kind, op, replies, deadline, gone, sess, tui, attached, peers,
                   inbox, waiting, tuiVars>>

\* The procedure numbers the step and the artifacts are opened; both may refuse.
Number(r) ==
    /\ pc[r] = "number"
    /\ \/ At(r, "number", Sending(r)) /\ UNCHANGED <<result, granted, pending, registry>>
       \/ Finish(r, "error")
    /\ UNCHANGED <<kind, op, replies, deadline, gone, sess, tui, attached, peers,
                   inbox, waiting, tuiVars>>

\* A closure request is registered for the TUI it goes to, or fails.
Register(r) ==
    /\ pc[r] = "register"
    /\ IF op[r] \in peers
       THEN /\ At(r, "register", "send")
            /\ registry' = [registry EXCEPT ![r] = tui[op[r]]]
            /\ UNCHANGED <<result, granted, pending>>
       ELSE Finish(r, "error")
    /\ UNCHANGED <<kind, op, replies, deadline, gone, sess, tui, attached, peers,
                   inbox, waiting, tuiVars>>

\* Slip: a declined confirmation keeps its slot.
LostKeepingSlot(r) ==
    /\ IF kind[r] = "confirm"
       THEN /\ pc' = [pc EXCEPT ![r] = "done"]
            /\ result' = [result EXCEPT ![r] = "error"]
       ELSE pc' = [pc EXCEPT ![r] = "seek"] /\ UNCHANGED result
    /\ UNCHANGED <<granted, pending, registry>>

\* That TUI went away: a confirmation is declined, the rest wait for another.
Lost(r) ==
    IF kind[r] = "confirm" THEN Finish(r, "error")
    ELSE /\ pc' = [pc EXCEPT ![r] = "seek"]
         /\ UNCHANGED <<result, granted, pending, registry>>

Send(r) ==
    /\ pc[r] = "send"
    /\ IF Alive(op[r])
       THEN /\ At(r, "send", "await")
            /\ Post(op[r], Msg("job", r))
            /\ deadline' = [deadline EXCEPT ![r] = Countdown(r)]
            /\ UNCHANGED <<attached, result, granted, pending, registry>>
       ELSE /\ attached' = attached \ {op[r]}
            /\ Lost(r)
            /\ UNCHANGED <<inbox, deadline>>
    /\ UNCHANGED <<kind, op, replies, gone, sess, tui, peers, waiting, tuiVars>>

\* wait_for_answer: recv_timeout delivers what is there ...
TakeAnswer(r) ==
    /\ pc[r] = "await" /\ replies[r] # <<>> /\ Head(replies[r]) \in Answers
    /\ Finish(r, Head(replies[r]))
    /\ replies' = [replies EXCEPT ![r] = Tail(@)]
    /\ UNCHANGED <<kind, op, deadline, gone, sess, tui, attached, peers, inbox,
                   waiting, tuiVars>>

TakeCancel(r) ==
    /\ pc[r] = "await" /\ replies[r] # <<>> /\ Head(replies[r]) = "cancel"
    /\ replies' = [replies EXCEPT ![r] = Tail(@)]
    /\ deadline' = [deadline EXCEPT ![r] = FALSE]
    /\ UNCHANGED <<pc, kind, op, gone, result, granted, pending, sessionVars, tuiVars>>

\* ... or times out.
Poll(r) ==
    /\ replies[r] = <<>>
    /\ At(r, "await", "polled")
    /\ UNCHANGED <<kind, op, replies, deadline, gone, result, granted, pending,
                   sessionVars, tuiVars>>

Withdraw(r) == Finish(r, "error") /\ Post(op[r], Msg("withdraw", r))

\* Slip: a newer TUI takes the request over from one that is attached.
LookLatest(r) ==
    /\ pc[r] = "polled"
    /\ \/ /\ ~Latest(op[r])
          /\ Lost(r) /\ UNCHANGED inbox
       \/ /\ IsAttached(op[r]) /\ (gone[r] \/ deadline[r])
          /\ Withdraw(r)
       \/ /\ IsAttached(op[r]) /\ ~gone[r]
          /\ At(r, "polled", "await")
          /\ UNCHANGED <<result, granted, pending, registry, inbox>>
    /\ UNCHANGED <<kind, op, replies, deadline, gone, sess, tui, attached, peers,
                   waiting, tuiVars>>

\* Slip: a requester that left is only noticed by its deadline.
LookTimed(r) ==
    /\ pc[r] = "polled"
    /\ \/ /\ ~IsAttached(op[r])
          /\ Lost(r) /\ UNCHANGED inbox
       \/ /\ IsAttached(op[r]) /\ deadline[r]
          /\ Withdraw(r)
       \/ /\ IsAttached(op[r])
          /\ At(r, "polled", "await")
          /\ UNCHANGED <<result, granted, pending, registry, inbox>>
    /\ UNCHANGED <<kind, op, replies, deadline, gone, sess, tui, attached, peers,
                   waiting, tuiVars>>

\* After a timeout: is the TUI still there, the requester, the deadline?
Look(r) ==
    /\ pc[r] = "polled"
    /\ \/ /\ ~IsAttached(op[r])
          /\ Lost(r) /\ UNCHANGED inbox
       \/ /\ IsAttached(op[r]) /\ (gone[r] \/ deadline[r])
          /\ Withdraw(r)
       \/ /\ IsAttached(op[r]) /\ ~gone[r]
          /\ At(r, "polled", "await")
          /\ UNCHANGED <<result, granted, pending, registry, inbox>>
    /\ UNCHANGED <<kind, op, replies, deadline, gone, sess, tui, attached, peers,
                   waiting, tuiVars>>

\* The requester hangs up.
Leave(r) ==
    /\ pc[r] # "idle" /\ ~gone[r]
    /\ gone' = [gone EXCEPT ![r] = TRUE]
    /\ UNCHANGED <<pc, kind, op, replies, deadline, result, granted, pending,
                   sessionVars, tuiVars>>

\* handle_client: a connection that ends ends its login approvals.
EndGrants(r) ==
    /\ pc[r] = "done" /\ gone[r] /\ granted[r]
    /\ granted' = [granted EXCEPT ![r] = FALSE]
    /\ inbox' = [s \in Sessions |-> IF IsAttached(s) /\ Alive(s)
                                    THEN Append(inbox[s], Msg("grantEnded", r))
                                    ELSE inbox[s]]
    /\ UNCHANGED <<pc, kind, op, replies, deadline, gone, result, pending, sess, tui,
                   attached, peers, registry, waiting, tuiVars>>

-----------------------------------------------------------------------------
(* The session thread: attach.                                             *)

\* One operator channel per TUI at a time; it reconnects after a loss.
Attach(s) ==
    /\ sess[s] = "off"
    /\ \A z \in Sessions : z < s => sess[z] # "off"
    /\ \A z \in Sessions : tui[z] = tui[s] => ~up[z]
    /\ sess' = [sess EXCEPT ![s] = "open"]
    /\ peers' = peers \cup {s}
    /\ attached' = attached \cup {s}
    /\ up' = [up EXCEPT ![s] = TRUE]
    /\ UNCHANGED <<requestVars, tui, registry, inbox, waiting, handler, signers>>

\* The next message of the inbox.
Serve(s, types) ==
    /\ sess[s] = "open" /\ inbox[s] # <<>> /\ Head(inbox[s]).type \in types
    /\ inbox' = [inbox EXCEPT ![s] = Tail(@)]

ServeJob(s) ==
    LET r == Head(inbox[s]).req IN
    /\ Serve(s, {"job"})
    /\ waiting' = [waiting EXCEPT ![s] = @ \cup {r}]
    /\ handler' = IF up[s] THEN [handler EXCEPT ![s][r] =
                                   IF Countdown(r) THEN "counting" ELSE "asking"]
                  ELSE handler
    /\ UNCHANGED <<requestVars, sess, tui, attached, peers, registry, up, signers>>

\* A handler that still asks gives up (and its denial reaches nobody).
ServeWithdraw(s) ==
    LET r == Head(inbox[s]).req IN
    /\ Serve(s, {"withdraw"})
    /\ waiting' = [waiting EXCEPT ![s] = @ \ {r}]
    /\ handler' = IF r \in waiting[s] /\ handler[s][r] \in {"counting", "asking"}
                  THEN [handler EXCEPT ![s][r] = "none"] ELSE handler
    /\ UNCHANGED <<requestVars, sess, tui, attached, peers, registry, up, signers>>

\* An answer counts once, for a request that waits.
ServeAnswer(s) ==
    LET r == Head(inbox[s]).req IN
    /\ Serve(s, Answers)
    /\ IF r \in waiting[s]
       THEN /\ waiting' = [waiting EXCEPT ![s] = @ \ {r}]
            /\ registry' = [registry EXCEPT ![r] = Nobody]
            /\ replies' = IF pc[r] = "done" THEN replies
                          ELSE [replies EXCEPT ![r] = Append(@, Head(inbox[s]).type)]
       ELSE UNCHANGED <<waiting, registry, replies>>
    /\ UNCHANGED <<pc, kind, op, deadline, gone, result, granted, pending, sess, tui,
                   attached, peers, tuiVars>>

ServeCancel(s) ==
    LET r == Head(inbox[s]).req IN
    /\ Serve(s, {"cancel"})
    /\ replies' = IF r \in waiting[s] /\ pc[r] # "done"
                  THEN [replies EXCEPT ![r] = Append(@, "cancel")] ELSE replies
    /\ UNCHANGED <<pc, kind, op, deadline, gone, result, granted, pending, sess, tui,
                   attached, peers, registry, waiting, tuiVars>>

ServeGrantEnded(s) ==
    LET r == Head(inbox[s]).req IN
    /\ Serve(s, {"grantEnded"})
    /\ signers' = IF up[s] THEN [signers EXCEPT ![tui[s]] = @ \ {r}] ELSE signers
    /\ UNCHANGED <<requestVars, sess, tui, attached, peers, registry, waiting, up, handler>>

\* Slip: the waiting requests are dropped before the session is unlisted.
CloseDropping(s) ==
    /\ \/ Serve(s, {"closed"})
       \/ sess[s] = "open" /\ ~up[s] /\ UNCHANGED inbox
    /\ sess' = [sess EXCEPT ![s] = "closing"]
    /\ waiting' = [waiting EXCEPT ![s] = {}]
    /\ UNCHANGED <<requestVars, tui, attached, peers, registry, tuiVars>>

\* The loop ends: the TUI hung up, or a write to it failed.
Close(s) ==
    /\ \/ Serve(s, {"closed"})
       \/ sess[s] = "open" /\ ~up[s] /\ UNCHANGED inbox
    /\ sess' = [sess EXCEPT ![s] = "closing"]
    /\ UNCHANGED <<requestVars, tui, attached, peers, registry, waiting, tuiVars>>

\* Out of `attached`; then out of the peers, and the inbox is dropped.
Unlist(s) ==
    /\ sess[s] = "closing"
    /\ sess' = [sess EXCEPT ![s] = "detached"]
    /\ attached' = attached \ {s}
    /\ UNCHANGED <<requestVars, tui, peers, registry, inbox, waiting, tuiVars>>

Drop(s) ==
    /\ sess[s] = "detached"
    /\ sess' = [sess EXCEPT ![s] = "over"]
    /\ peers' = peers \ {s}
    /\ waiting' = [waiting EXCEPT ![s] = {}]
    /\ inbox' = [inbox EXCEPT ![s] = <<>>]
    /\ UNCHANGED <<requestVars, tui, attached, registry, tuiVars>>

-----------------------------------------------------------------------------
(* The TUI: the dispatcher and the handler threads.                        *)

\* A frame of the TUI reaches the inbox while the connection is up.
Upward(s, m) == IF up[s] THEN Post(s, m) ELSE UNCHANGED inbox

CancelCountdown(s, r) ==
    /\ handler[s][r] = "counting"
    /\ handler' = [handler EXCEPT ![s][r] = "asking"]
    /\ Upward(s, Msg("cancel", r))
    /\ UNCHANGED <<requestVars, sess, tui, attached, peers, registry, waiting, up, signers>>

\* The operator approves; a closure request is checked before it is signed.
Approve(s, r) ==
    /\ handler[s][r] \in {"counting", "asking"}
    /\ handler' = [handler EXCEPT ![s][r] =
                     IF kind[r] = "closure" THEN "check" ELSE "work"]
    /\ UNCHANGED <<requestVars, sessionVars, up, signers>>

\* The operator, the countdown or a failure denies.
Deny(s, r) ==
    /\ handler[s][r] \in {"counting", "asking", "work"}
    /\ handler' = [handler EXCEPT ![s][r] = "none"]
    /\ Upward(s, Msg("denied", r))
    /\ UNCHANGED <<requestVars, sess, tui, attached, peers, registry, waiting, up, signers>>

\* check_closure, on a connection of its own: the request is still registered
\* for this process and its requester is there.
CheckClosure(s, r) ==
    /\ handler[s][r] = "check"
    /\ IF registry[r] = tui[s] /\ ~gone[r]
       THEN /\ handler' = [handler EXCEPT ![s][r] = "work"]
            /\ UNCHANGED <<registry, inbox>>
       ELSE /\ handler' = [handler EXCEPT ![s][r] = "none"]
            /\ Upward(s, Msg("denied", r))
            /\ registry' = IF registry[r] = tui[s]
                           THEN [registry EXCEPT ![r] = Nobody] ELSE registry
    /\ UNCHANGED <<requestVars, sess, tui, attached, peers, waiting, up, signers>>

\* The values are decrypted or signed, or a login signer runs; the answer.
FinishWork(s, r) ==
    /\ handler[s][r] = "work"
    /\ handler' = [handler EXCEPT ![s][r] = "none"]
    /\ signers' = IF kind[r] = "login"
                  THEN [signers EXCEPT ![tui[s]] = @ \cup {r}] ELSE signers
    /\ Upward(s, Msg("approved", r))
    /\ UNCHANGED <<requestVars, sess, tui, attached, peers, registry, waiting, up>>

\* The connection is lost: asking handlers end without answering on it.
LoseChannel(s) ==
    /\ up[s]
    /\ up' = [up EXCEPT ![s] = FALSE]
    /\ Post(s, Msg("closed", Nobody))
    /\ handler' = [handler EXCEPT ![s] = [r \in Requests |->
                     IF @[r] \in {"counting", "asking"} THEN "none" ELSE @[r]]]
    /\ UNCHANGED <<requestVars, sess, tui, attached, peers, registry, waiting, signers>>

\* The TUI closes: asking handlers deny, in any order, before the connection
\* closes, and the process exits with its signers.
CloseTui(s) ==
    LET asked == {r \in Requests : handler[s][r] \in {"counting", "asking"}} IN
    /\ up[s]
    /\ up' = [up EXCEPT ![s] = FALSE]
    /\ \E order \in [1..Cardinality(asked) -> asked] :
         /\ IsInjective(order)
         /\ inbox' = IF Alive(s)
                     THEN [inbox EXCEPT ![s] =
                             (@ \o [i \in DOMAIN order |-> Msg("denied", order[i])])
                                \o <<Msg("closed", Nobody)>>]
                     ELSE inbox
    /\ handler' = [z \in Sessions |-> IF tui[z] = tui[s]
                     THEN [r \in Requests |-> "none"] ELSE handler[z]]
    /\ signers' = [signers EXCEPT ![tui[s]] = {}]
    /\ UNCHANGED <<requestVars, sess, tui, attached, peers, registry, waiting>>

-----------------------------------------------------------------------------
RequesterStep(r) ==
    \/ Claim(r) \/ Seek(r) \/ SeekGone(r) \/ Number(r) \/ Register(r)
    \/ Send(r) \/ TakeAnswer(r) \/ TakeCancel(r) \/ Poll(r) \/ Look(r) \/ EndGrants(r)

SessionStep(s) ==
    \/ ServeJob(s) \/ ServeWithdraw(s) \/ ServeAnswer(s) \/ ServeCancel(s)
    \/ ServeGrantEnded(s) \/ Close(s) \/ Unlist(s) \/ Drop(s)

\* What a handler does without the operator.
HandlerStep(s, r) == CheckClosure(s, r) \/ FinishWork(s, r)

Next ==
    \/ \E r \in Requests : Ask(r) \/ RequesterStep(r) \/ Leave(r)
    \/ \E s \in Sessions :
         \/ Attach(s) \/ SessionStep(s) \/ LoseChannel(s) \/ CloseTui(s)
         \/ \E r \in Requests :
              CancelCountdown(s, r) \/ Approve(s, r) \/ Deny(s, r) \/ HandlerStep(s, r)

\* The backend's threads run.  Nothing is assumed of operators, requesters,
\* deadlines or TUIs.
Fairness ==
    /\ \A r \in Requests : WF_vars(RequesterStep(r))
    /\ \A s \in Sessions : WF_vars(SessionStep(s))

Spec == Init /\ [][Next]_vars
FairSpec == Spec /\ Fairness

-----------------------------------------------------------------------------
(* Properties.                                                             *)

InInbox(s, types, r) ==
    \E m \in Range(inbox[s]) : m.type \in types /\ m.req = r

\* The request is before the operator of s, or on its way there.
AskedAt(s, r) == r \in waiting[s] \/ InInbox(s, {"job"}, r)

\* Two attached TUIs never ask about the same request: an operator who has a
\* request on screen is the only one whose answer counts (request_operator
\* moves on only when the TUI is out of the registry).
OneAsked ==
    \A r \in Requests : \A s, z \in attached :
      AskedAt(s, r) /\ AskedAt(z, r) => s = z

\* No request is forgotten: while its thread waits on an attached TUI, the
\* request is in that session's hands or its answer is in the reply channel.
NoneForgotten ==
    \A r \in Requests : pc[r] \in {"await", "polled"} /\ IsAttached(op[r]) =>
      \/ AskedAt(op[r], r)
      \/ Range(replies[r]) \cap Answers # {}

\* The slots that are counted are those of threads that are in a request:
\* none leaks on any of the error paths, and none is released twice.
SlotsMatch == pending = Cardinality({r \in Requests : pc[r] \in Held})

\* A closure request is registered only while its thread is in it, and once
\* it is sent, only for the process it was sent to: whenever check_closure
\* looks, no other TUI passes, and none for a request that is over by then
\* (one that ends between the look and the signature is not covered).
ClosureOwner ==
    \A r \in Requests : registry[r] # Nobody =>
      /\ pc[r] \in Held /\ kind[r] = "closure"
      /\ pc[r] \in {"send", "await", "polled"} => registry[r] = tui[op[r]]

\* A requester that leaves does not stay in a slot, whatever TUIs do.
LeavingEnds == \A r \in Requests : gone[r] ~> pc[r] = "done"

\* "The TUI drops a request that no longer waits" (secrets.rs, on withdraw):
\* once a request is over and the inbox is worked off, no TUI asks about it.
OverIsDropped ==
    \A r \in Requests, s \in Sessions :
      pc[r] = "done" /\ sess[s] = "open" /\ handler[s][r] \in {"counting", "asking"} =>
        inbox[s] # <<>>

\* "When the requester's connection closes, the backend sends
\* SshLoginGrantEnded on the operator channel and the TUI stops the signer"
\* (PROTOCOL.md): once that is done and nothing is on its way, none runs.
GrantsEnd ==
    \A r \in Requests : pc[r] = "done" /\ gone[r] /\ ~granted[r] =>
      \A t \in Tuis : r \in signers[t] =>
        \E s \in Sessions : InInbox(s, {"grantEnded", "approved"}, r)
=============================================================================
