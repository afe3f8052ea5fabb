------------------------- MODULE DeploymentApproval -------------------------
(***************************************************************************)
(* How a TUI takes a deployment request from the broker, shows it, and     *)
(* deploys what the operator approves: the worker thread (crates/manager/  *)
(* src/async_ui.rs, controller.rs, controller/writer/approval.rs,          *)
(* controller/host_mutations.rs), the listener thread (controller/         *)
(* background.rs) and the UI thread (ui/drive.rs, ui/approval.rs,          *)
(* model/dialogs.rs).                                                      *)
(*                                                                         *)
(* A worker step is one exchange with the backend and what follows it up   *)
(* to the next one: in between other TUIs act, leases expire, connections  *)
(* break and the operator answers.  An exchange on a breaking connection   *)
(* fails, whether the backend acted on it or not.                          *)
(*                                                                         *)
(* Abstractions.  A dialog stands for its request, its stage and the lease *)
(* it was made under; the code keeps no lease there, but the token of a    *)
(* review, which names the same batch, and only that is compared.  What    *)
(* depends on stored values, the schema or the target is a choice: a step  *)
(* may fail, a review may be needed, a follow-up may be due.  A dialog     *)
(* that waits opens when the operator's screen allows it.                  *)
(*                                                                         *)
(* A definition marked "Slip" is a plausible mistake in the definition it  *)
(* precedes; no specification uses it.                                     *)
(***************************************************************************)
EXTENDS ApprovalBroker, Integers, Sequences

CONSTANTS
    Tuis,          \* TUI processes
    MaxFaults,     \* bound: leases that expire, connections that break
    MaxWrites      \* bound: values the operator saves meanwhile

VARIABLES
    link,          \* the worker's connection, as it is and as the worker sees it
    session,       \* its session at the backend
    listener,      \* the session of the listener thread
    ready,         \* approvals_ready
    nextSession,   \* next_session
    worker,        \* what the worker thread does and holds
    commands,      \* from the UI to the worker
    events,        \* from the worker to the UI
    ui,            \* the UI thread: dialogs, and commands not yet completed
    applied,       \* the requests whose target applied a deployment
    faults, writes

tuiVars == <<link, session, listener, ready, nextSession, worker, commands,
             events, ui, applied, faults, writes>>
vars == <<brokerVars, tuiVars>>

\* next_lease counts them, from 1.
Leases == Nat \ {0}

(***************************************************************************)
(* The stages of a dialog, in the order of approval_stage(): trust the     *)
(* host key, review the host's identity, deploy, review what the host      *)
(* returned.                                                               *)
(***************************************************************************)
Trust == 0
Identity == 1
Final == 2
Returned == 3
Reviews == {Identity, Returned}

Dialogs == [req : Requests, stage : Trust..Returned, lease : Leases]

Claims == [req : Requests, lease : Leases]

\* Option::None of a claim, a dialog or a review is told from every Some.
ASSUME NoneAssumption == Nobody \notin Claims \cup Dialogs

\* The exchange the worker makes next; "loop" when it has none under way.
Pcs == {"loop", "claim", "refuse", "identity", "details", "renew", "returned",
        "confirm", "accept", "decline", "before", "after", "declined",
        "complete", "reject", "giveup"}

(***************************************************************************)
(* The worker: its claim with target_approved, prepared and the times it   *)
(* was sent; the staged review; the claim it is about to resolve; the      *)
(* requests it was listed; and the dialog whose answer it executes.        *)
(***************************************************************************)
Idle == [pc |-> "loop", active |-> Nobody, trusted |-> FALSE,
         prepared |-> FALSE, sends |-> 0, review |-> Nobody, claim |-> Nobody,
         todo |-> {}, shown |-> Nobody]

Init ==
    /\ BrokerInit
    /\ link = [t \in Tuis |-> "closed"]
    /\ session = [t \in Tuis |-> Nobody]
    /\ listener = [t \in Tuis |-> Nobody]
    /\ ready = [t \in Tuis |-> FALSE]
    /\ nextSession = 1
    /\ worker = [t \in Tuis |-> Idle]
    /\ commands = [t \in Tuis |-> <<>>]
    /\ events = [t \in Tuis |-> <<>>]
    /\ ui = [t \in Tuis |-> [dialog |-> Nobody, waiting |-> {}, backlog |-> <<>>,
                             completed |-> {}, busy |-> 0]]
    /\ applied = {}
    /\ faults = 0 /\ writes = 0

-----------------------------------------------------------------------------
(* The connections.                                                        *)

\* A new connection registers as a frontend.
Connect == /\ nextSession \in Sessions
           /\ Register(nextSession)
           /\ nextSession' = nextSession + 1

\* The TUI starts.
Open(t) ==
    /\ link[t] = "closed"
    /\ Connect
    /\ session' = [session EXCEPT ![t] = nextSession]
    /\ link' = [link EXCEPT ![t] = "up"]
    /\ UNCHANGED <<listener, ready, worker, commands, events, ui, applied,
                   faults, writes>>

\* The listener thread connects, again after a loss.
Subscribe(t) ==
    /\ link[t] # "closed"
    /\ listener[t] = Nobody
    /\ Connect
    /\ listener' = [listener EXCEPT ![t] = nextSession]
    /\ UNCHANGED <<link, session, ready, worker, commands, events, ui, applied,
                   faults, writes>>

(***************************************************************************)
(* It peeks at what waits, every second or when a request is announced,    *)
(* and wakes the worker up.                                                *)
(***************************************************************************)
Listen(t) ==
    /\ listener[t] # Nobody
    /\ Pending(listener[t])
    /\ ready' = [ready EXCEPT ![t] = @ \/ queued'[listener[t]] # {}]
    /\ UNCHANGED <<link, session, listener, nextSession, worker, commands,
                   events, ui, applied, faults, writes>>

Cut(t) ==
    /\ faults < MaxFaults
    /\ faults' = faults + 1
    /\ \/ /\ link[t] = "up"
          /\ link' = [link EXCEPT ![t] = "cut"]
          /\ UNCHANGED listener
       \/ /\ listener[t] # Nobody
          /\ listener' = [listener EXCEPT ![t] = Nobody]
          /\ UNCHANGED link
    /\ UNCHANGED <<brokerVars, session, ready, nextSession, worker, commands,
                   events, ui, applied, writes>>

\* The backend notices that a connection ended.
Hangup(s) ==
    /\ s \in frontends
    /\ \A t \in Tuis : listener[t] # s /\ (session[t] = s => link[t] # "up")
    /\ Disconnect(s)
    /\ UNCHANGED tuiVars

(***************************************************************************)
(* An exchange of t's worker with the backend, that has an effect there.   *)
(* If the connection breaks under it, the worker sees an error.            *)
(***************************************************************************)
Call(t, effect, reply, failure) ==
    \/ /\ link[t] = "up" /\ effect /\ reply
       /\ UNCHANGED <<link, faults>>
    \/ /\ link[t] = "up" /\ faults < MaxFaults
       /\ effect /\ failure
       /\ link' = [link EXCEPT ![t] = "broken"] /\ faults' = faults + 1
    \/ /\ link[t] \in {"cut", "broken"}
       /\ failure
       /\ link' = [link EXCEPT ![t] = "broken"]
       /\ UNCHANGED <<brokerVars, faults>>

\* An exchange that only reads.
Read(t, reply, failure) == Call(t, UNCHANGED brokerVars, reply, failure)

\* No exchange.
Local == UNCHANGED <<brokerVars, link, faults>>

\* renew_for()
Renew(t, c, held, failure) ==
    IF Holds(session[t], c.req, c.lease) THEN Read(t, held, failure)
    ELSE Read(t, failure, failure)

\* client.resolve()
Answer(t, c, decision, done, failure) ==
    IF Holds(session[t], c.req, c.lease)
    THEN Call(t, Resolve(session[t], c.req, c.lease, decision), done, failure)
    ELSE Read(t, failure, failure)

-----------------------------------------------------------------------------
(* The worker.                                                             *)

\* The frame of a worker step at one of the given places.
Working(t, pcs) ==
    /\ worker[t].pc \in pcs
    /\ UNCHANGED <<listener, ui, writes>>

\* Of one in which it executes a command.
Executing(t, pcs) ==
    /\ Working(t, pcs)
    /\ UNCHANGED <<session, ready, nextSession, commands>>

Event(kind, about) == [kind |-> kind, about |-> about]

\* The worker becomes w and tells the UI.
Tell(t, w, kind, about) ==
    /\ worker' = [worker EXCEPT ![t] = w]
    /\ events' = [events EXCEPT ![t] = Append(@, Event(kind, about))]

Become(t, w) == worker' = [worker EXCEPT ![t] = w] /\ UNCHANGED events
Go(t, next) == Become(t, [worker[t] EXCEPT !.pc = next])

Shown(c, stage) == [req |-> c.req, lease |-> c.lease, stage |-> stage]

\* Slip: a staged review outlives the claim it was made under.
ForgetClaim(w) == [Idle EXCEPT !.review = w.review]

\* The claim is gone, with everything prepared and staged for it.
Forget(w) == Idle

\* The claim is taken out, to be resolved next.
TakeOut(w, next) == [Forget(w) EXCEPT !.claim = w.active, !.pc = next]

\* The command failed: the request is resolved with the reason.
Fail(t) == Become(t, TakeOut(worker[t], "giveup"))

\* The command failed and the claim is forgotten.
Lose(t) == Tell(t, Forget(worker[t]), "lost", Nobody)

\* The command leads to the next dialog, for a review with its token.
Ask(t, stage) ==
    LET d == Shown(worker[t].active, stage)
    IN  Tell(t, [worker[t] EXCEPT !.pc = "loop", !.shown = Nobody,
                    !.review = IF stage \in Reviews THEN d ELSE Nobody],
             "next", d)

\* reconnect_if_broken(): nothing prepared for the old claim is used again.
Reconnect(t) ==
    /\ Working(t, {"loop"})
    /\ link[t] = "broken"
    /\ Connect
    /\ session' = [session EXCEPT ![t] = nextSession]
    /\ link' = [link EXCEPT ![t] = "up"]
    /\ ready' = [ready EXCEPT ![t] = TRUE]
    /\ IF worker[t].active = Nobody THEN Become(t, Forget(worker[t]))
       ELSE Tell(t, Forget(worker[t]), "dropped", Nobody)
    /\ UNCHANGED <<commands, applied, faults>>

\* The worker receives a command of this kind.
Receive(t, kind) ==
    /\ Working(t, {"loop"})
    /\ link[t] \in {"up", "cut"}
    /\ commands[t] # <<>> /\ Head(commands[t]).kind = kind
    /\ commands' = [commands EXCEPT ![t] = Tail(@)]
    /\ Local
    /\ UNCHANGED <<session, ready, nextSession, applied>>

\* A command that is not about a deployment, such as saving a value.
TakeWrite(t) ==
    /\ Receive(t, "write")
    /\ Tell(t, worker[t], "saved", Nobody)

(***************************************************************************)
(* approval_inner(), answer_approval().  The answer names no request.      *)
(* Step 1 trusts the host key and opens the one connection to the target;  *)
(* step 2 deploys, once the lease was renewed.                             *)
(***************************************************************************)
TakeAnswer(t) ==
    LET w == worker[t]
        c == Head(commands[t])
    IN  /\ Receive(t, "answer")
        /\ \/ w.active = Nobody /\ Lose(t)
           \/ w.active # Nobody /\ w.review # Nobody /\ Fail(t)
           \/ /\ w.active # Nobody /\ w.review = Nobody /\ c.yes /\ ~w.trusted
              /\ \/ Fail(t)
                 \/ \E next \in {"identity", "details"} :
                       Become(t, [w EXCEPT !.pc = next, !.trusted = TRUE,
                                           !.prepared = TRUE, !.shown = c.about])
           \/ /\ w.active # Nobody /\ w.review = Nobody /\ c.yes /\ w.trusted
              /\ Become(t, [w EXCEPT !.pc = "renew", !.shown = c.about])
           \/ /\ w.active # Nobody /\ w.review = Nobody /\ ~c.yes
              /\ Become(t, [TakeOut(w, "reject") EXCEPT !.shown = c.about])

\* approve_host_mutations_inner(): a wrong token changes nothing.
TakeReview(t) ==
    LET w == worker[t]
        c == Head(commands[t])
    IN  /\ Receive(t, "review")
        /\ IF w.active # Nobody /\ w.review = c.about
           THEN Go(t, IF c.yes THEN "accept" ELSE "decline")
           ELSE Tell(t, w, "lost", Nobody)

\* prepare_identity_for_active()
PrepareIdentity(t) ==
    /\ Executing(t, {"identity"})
    /\ UNCHANGED applied
    /\ Renew(t, worker[t].active,
             Ask(t, Identity) \/ Go(t, "before") \/ Fail(t), Fail(t))

\* deployment_details_after_identity()
Details(t) ==
    /\ Executing(t, {"details"})
    /\ UNCHANGED applied
    /\ Read(t, Ask(t, Final) \/ Fail(t), Fail(t))

\* Slip: the connection is kept, and what may have failed is sent again.
DeployRetrying(t) ==
    LET w == worker[t]
    IN  /\ Executing(t, {"renew"})
        /\ w.prepared /\ w.sends < 2
        /\ applied' = applied \cup {w.active.req}
        /\ Renew(t, w.active, Become(t, [w EXCEPT !.sends = @ + 1]), Lose(t))

(***************************************************************************)
(* deploy_active(), after renew_for(): refused before anything is sent, or *)
(* sent over the prepared connection, which is used up.  When that fails   *)
(* the target may have applied it all the same.  What the host returned is *)
(* then reviewed, or saved at once.                                        *)
(***************************************************************************)
Deploy(t) ==
    LET w == worker[t]
    IN  /\ Executing(t, {"renew"})
        /\ \/ Renew(t, w.active, Fail(t), Lose(t)) /\ UNCHANGED applied
           \/ /\ w.prepared
              /\ applied' = applied \cup {w.active.req}
              /\ Renew(t, w.active,
                    \/ Fail(t)
                    \/ \E next \in {"returned", "confirm"} :
                          Become(t, [w EXCEPT !.pc = next, !.prepared = FALSE,
                                              !.sends = @ + 1]),
                    FALSE)

\* host_mutation_review() of what the host returned.
ReviewReturned(t) ==
    /\ Executing(t, {"returned"})
    /\ UNCHANGED applied
    /\ Read(t, Ask(t, Returned) \/ Fail(t), Fail(t))

\* Nothing to review: the lease is checked again before anything is saved.
Confirm(t) ==
    /\ Executing(t, {"confirm"})
    /\ UNCHANGED applied
    /\ Renew(t, worker[t].active, Go(t, "after"), Fail(t))

\* approve_host_mutations_inner(), once the token was compared.
AnswerReview(t) ==
    LET w == worker[t]
        next == IF w.pc = "decline" THEN "declined"
                ELSE IF w.review.stage = Identity THEN "before" ELSE "after"
    IN  /\ Executing(t, {"accept", "decline"})
        /\ UNCHANGED applied
        /\ Renew(t, w.active,
                 Become(t, [w EXCEPT !.review = Nobody, !.pc = next]), Lose(t))

\* submit_host_followups(): a changed value is deployed to who uses it.
FollowUp(t, done, refused) ==
    \/ done /\ Local
    \/ \E r \in Requests :
          Call(t, Submit(r), done \/ Become(t, worker[t]), refused)
    \/ /\ Cardinality(Entries) >= MaxRequests
       /\ Read(t, refused, refused)

\* Slip: the saved identity is taken for the deployment.
ApplyCompleting(t) ==
    LET next == TakeOut(worker[t], "complete")
    IN  /\ Executing(t, {"before", "after"})
        /\ UNCHANGED applied
        /\ FollowUp(t, Become(t, next) \/ Fail(t), Fail(t))

\* apply_host_mutations(), before or after the deployment.
Apply(t) ==
    LET w == worker[t]
        next == IF w.pc = "before" THEN [w EXCEPT !.pc = "details"]
                ELSE TakeOut(w, "complete")
    IN  /\ Executing(t, {"before", "after"})
        /\ UNCHANGED applied
        /\ FollowUp(t, Become(t, next) \/ Fail(t), Fail(t))

(***************************************************************************)
(* The operator declined the review: what was committed before has its     *)
(* follow-ups, then the request is rejected.  When a follow-up cannot be   *)
(* submitted, the command fails and the claim stays.                       *)
(***************************************************************************)
Decline(t) ==
    /\ Executing(t, {"declined"})
    /\ UNCHANGED applied
    /\ FollowUp(t, Become(t, TakeOut(worker[t], "reject")),
                Tell(t, [worker[t] EXCEPT !.pc = "loop"], "lost", Nobody))

\* Slip: the request counts as finished even if the answer did not arrive.
ConcludeRegardless(t) ==
    LET w == worker[t]
        over == Tell(t, Idle, "over", w.claim.req)
    IN  /\ Executing(t, {"complete", "reject"})
        /\ UNCHANGED applied
        /\ Answer(t, w.claim, IF w.pc = "complete" THEN "approved" ELSE "rejected",
                  over, over)

\* The request is resolved: complete_host_deployment(), or a rejection.
Conclude(t) ==
    LET w == worker[t]
        decision == IF w.pc = "complete" THEN "approved" ELSE "rejected"
    IN  /\ Executing(t, {"complete", "reject"})
        /\ UNCHANGED applied
        /\ Answer(t, w.claim, decision, Tell(t, Idle, "over", w.claim.req), Lose(t))

\* Slip: a request that could not be set up is left claimed.
GiveUpSilently(t) ==
    LET w == worker[t]
    IN  /\ Executing(t, {"giveup", "refuse"})
        /\ UNCHANGED applied
        /\ IF w.pc = "refuse" THEN Local /\ Tell(t, Idle, "dropped", Nobody)
           ELSE Answer(t, w.claim, "rejected", Lose(t), Lose(t))

\* A failed command or setup: the request is rejected, if that can be told.
GiveUp(t) ==
    LET w == worker[t]
        told == Tell(t, Idle, IF w.pc = "refuse" THEN "dropped" ELSE "lost", Nobody)
    IN  /\ Executing(t, {"giveup", "refuse"})
        /\ UNCHANGED applied
        /\ Answer(t, w.claim, "rejected", told, told)

(***************************************************************************)
(* poll_approval_inner(), in every turn of the loop: the lease of the      *)
(* claim is renewed when that is due; without a claim the waiting requests *)
(* are listed, if there are news of them.  A command may have arrived      *)
(* since the turn looked for one.                                          *)
(***************************************************************************)
Poll(t) ==
    LET w == worker[t]
        lost == Tell(t, Forget(w), "dropped", Nobody)
    IN  /\ Working(t, {"loop"})
        /\ link[t] \in {"up", "cut"}
        /\ UNCHANGED <<session, nextSession, commands, applied>>
        /\ \/ /\ w.active # Nobody /\ UNCHANGED ready
              /\ Renew(t, w.active, Become(t, w), lost)
           \/ /\ w.active = Nobody /\ ready[t]
              /\ ready' = [ready EXCEPT ![t] = FALSE]
              /\ Call(t, Pending(session[t]),
                      Become(t, [w EXCEPT !.pc = "claim",
                                   !.todo = queued[session[t]] \cap PendingIds]),
                      lost)

(***************************************************************************)
(* poll_and_claim_step(), then the rest of poll_approval_inner().  Another *)
(* frontend may have been faster.  A claimed request is shown, or refused  *)
(* if its setup fails; with nothing to deploy there is no step 1.          *)
(***************************************************************************)
ClaimNext(t) ==
    LET w == worker[t]
        failed == Tell(t, Idle, "dropped", Nobody)
    IN  /\ Executing(t, {"claim"})
        /\ UNCHANGED applied
        /\ \/ w.todo = {} /\ Go(t, "loop") /\ Local
           \/ \E r \in w.todo :
                 LET c == [req |-> r, lease |-> nextLease]
                     offer(stage) ==
                        Tell(t, [Idle EXCEPT !.active = c, !.trusted = stage = Final],
                             "offer", Shown(c, stage))
                 IN  \/ Call(t, Claim(session[t], r),
                             \/ offer(Trust)
                             \/ offer(Final)
                             \/ Become(t, [Idle EXCEPT !.pc = "refuse", !.claim = c]),
                             failed)
                     \/ /\ status[r] # "pending"
                        /\ Read(t, Become(t, [w EXCEPT !.todo = @ \ {r}]), failed)

WorkerStep(t) ==
    \/ Reconnect(t) \/ TakeWrite(t) \/ TakeAnswer(t) \/ TakeReview(t)
    \/ PrepareIdentity(t) \/ Details(t) \/ Deploy(t) \/ ReviewReturned(t)
    \/ Confirm(t) \/ AnswerReview(t) \/ Apply(t) \/ Decline(t)
    \/ Conclude(t) \/ GiveUp(t) \/ Poll(t) \/ ClaimNext(t)

-----------------------------------------------------------------------------
(* The UI.                                                                 *)

(***************************************************************************)
(* offer_approval(): a dialog of the same request is replaced by a later   *)
(* stage only.                                                             *)
(***************************************************************************)
Offer(u, d) ==
    IF d.req \in u.completed THEN u
    ELSE IF \E q \in u.waiting : q.req = d.req
    THEN LET q == CHOOSE q \in u.waiting : q.req = d.req
         IN  IF \/ d.stage > q.stage
                \/ d.stage = q.stage /\ (d.stage \in Reviews => d = q)
             THEN [u EXCEPT !.waiting = (@ \ {q}) \cup {d}]
             ELSE u
    ELSE IF u.dialog # Nobody /\ u.dialog.req = d.req
    THEN IF d.stage > u.dialog.stage THEN [u EXCEPT !.dialog = d] ELSE u
    ELSE [u EXCEPT !.waiting = @ \cup {d}]

\* Slip: a dropped request completes a command too.
CompletesDropped(e) == e.kind # "offer"

\* The events that end a command, which pump() takes off its queue.
Completes(e) == e.kind \in {"saved", "next", "lost", "over"}

\* apply_completion() and pump().
Handle(u0, e) ==
    LET u == IF Completes(e) THEN [u0 EXCEPT !.busy = @ - 1] ELSE u0
        closed == [u EXCEPT !.dialog = Nobody]
    IN  CASE e.kind = "offer" -> [u EXCEPT !.backlog = Append(@, e.about)]
          [] e.kind = "saved" -> u
          [] e.kind = "next" -> Offer(closed, e.about)
          [] e.kind \in {"lost", "dropped"} -> [closed EXCEPT !.waiting = {}]
          [] e.kind = "over" ->
                [closed EXCEPT !.completed = @ \cup {e.about},
                               !.waiting = {d \in @ : d.req # e.about}]

\* The UI after each of the events es, the 0th being u.
Handled(u, es) ==
    LET h[i \in 0..Len(es)] == IF i = 0 THEN u ELSE Handle(h[i - 1], es[i])
    IN  h

\* A tick of drive(): every completion is handled before one new request.
Tick(t) ==
    LET u == Handled(ui[t], events[t])[Len(events[t])]
    IN  /\ events[t] # <<>> \/ ui[t].backlog # <<>>
        /\ events' = [events EXCEPT ![t] = <<>>]
        /\ ui' = [ui EXCEPT ![t] =
                IF u.backlog = <<>> THEN u
                ELSE Offer([u EXCEPT !.backlog = Tail(@)], Head(u.backlog))]
        /\ UNCHANGED <<brokerVars, link, session, listener, ready, nextSession,
                       worker, commands, applied, faults, writes>>

\* The frame of what the operator does in the UI.
AtScreen == UNCHANGED <<brokerVars, link, session, listener, ready, nextSession,
                        worker, events, applied, faults>>

\* show_pending_approval(), restore_next(): a waiting dialog opens.
Show(t) ==
    /\ ui[t].dialog = Nobody
    /\ \E d \in ui[t].waiting :
          ui' = [ui EXCEPT ![t].dialog = d, ![t].waiting = @ \ {d}]
    /\ AtScreen /\ UNCHANGED <<commands, writes>>

\* minimise()
Minimise(t) ==
    /\ ui[t].dialog # Nobody
    /\ ui' = [ui EXCEPT ![t].dialog = Nobody,
                        ![t].waiting = @ \cup {ui[t].dialog}]
    /\ AtScreen /\ UNCHANGED <<commands, writes>>

\* A value is saved; queue() lets no other command in until it is done.
Write(t) ==
    /\ link[t] # "closed" /\ ui[t].dialog = Nobody
    /\ writes < MaxWrites
    /\ writes' = writes + 1
    /\ commands' = [commands EXCEPT ![t] = Append(@, [kind |-> "write"])]
    /\ ui' = [ui EXCEPT ![t].busy = @ + 1]
    /\ AtScreen

\* queue(): the command c is sent, the dialog becomes next.
Send(t, c, next) ==
    /\ ui[t].busy = 0
    /\ commands' = [commands EXCEPT ![t] = Append(@, c)]
    /\ ui' = [ui EXCEPT ![t].busy = 1, ![t].dialog = next]

(***************************************************************************)
(* The operator presses y.  While a command runs it is refused; a review   *)
(* then stays open, the other dialogs close.                               *)
(***************************************************************************)
PressYes(t) ==
    LET d == ui[t].dialog
    IN  /\ d # Nobody
        /\ \/ /\ d.stage \notin Reviews
              /\ Send(t, [kind |-> "answer", yes |-> TRUE, about |-> d], Nobody)
           \/ /\ d.stage \notin Reviews /\ ui[t].busy > 0
              /\ ui' = [ui EXCEPT ![t].dialog = Nobody]
              /\ UNCHANGED commands
           \/ /\ d.stage \in Reviews
              /\ Send(t, [kind |-> "review", yes |-> TRUE, about |-> d], Nobody)
        /\ AtScreen /\ UNCHANGED writes

\* The operator presses n.  A dialog that is no review stays open.
PressNo(t) ==
    LET d == ui[t].dialog
    IN  /\ d # Nobody
        /\ \/ /\ d.stage \notin Reviews
              /\ Send(t, [kind |-> "answer", yes |-> FALSE, about |-> d], d)
           \/ /\ d.stage \in Reviews
              /\ Send(t, [kind |-> "review", yes |-> FALSE, about |-> d], Nobody)
        /\ AtScreen /\ UNCHANGED writes

UiStep(t) ==
    Tick(t) \/ Show(t) \/ Minimise(t) \/ Write(t) \/ PressYes(t) \/ PressNo(t)

-----------------------------------------------------------------------------
(* The specification.                                                      *)

\* deployment::request(), and what happens to requests by themselves.
BackendStep ==
    \/ \E r \in Requests : (Submit(r) \/ Cancel(r)) /\ UNCHANGED tuiVars
    \/ /\ faults < MaxFaults
       /\ faults' = faults + 1
       /\ \E r \in Requests : Expire(r)
       /\ UNCHANGED <<link, session, listener, ready, nextSession, worker,
                      commands, events, ui, applied, writes>>
    \/ \E s \in Sessions : Hangup(s)

Next ==
    \/ BackendStep
    \/ \E t \in Tuis :
          \/ Open(t) \/ Subscribe(t) \/ Listen(t) \/ Cut(t)
          \/ WorkerStep(t) \/ UiStep(t)

Spec == Init /\ [][Next]_vars

(***************************************************************************)
(* Threads make progress: the worker's loop and every exchange or          *)
(* connection it makes end, the listener connects and looks every second,  *)
(* the UI ticks, and the backend notices closed connections.  Operators    *)
(* and requesters owe nothing.                                             *)
(***************************************************************************)
Fairness ==
    /\ \A t \in Tuis :
          /\ WF_vars(WorkerStep(t)) /\ WF_vars(Tick(t))
          /\ WF_vars(Subscribe(t)) /\ WF_vars(Listen(t))
    /\ \A s \in Sessions : WF_vars(Hangup(s))

FairSpec == Spec /\ Fairness

-----------------------------------------------------------------------------
(* Properties.                                                             *)

TypeOK ==
    /\ BrokerTypeOK
    /\ link \in [Tuis -> {"closed", "up", "cut", "broken"}]
    /\ session \in [Tuis -> Sessions \cup {Nobody}]
    /\ listener \in [Tuis -> Sessions \cup {Nobody}]
    /\ ready \in [Tuis -> BOOLEAN]
    /\ \A t \in Tuis :
          /\ worker[t].pc \in Pcs
          /\ worker[t].active \in Claims \cup {Nobody}
          /\ worker[t].claim \in Claims \cup {Nobody}
          /\ worker[t].review \in Dialogs \cup {Nobody}
          /\ worker[t].todo \subseteq Requests
          /\ ui[t].dialog \in Dialogs \cup {Nobody}
          /\ ui[t].waiting \subseteq Dialogs
          /\ ui[t].busy \in Nat
    /\ applied \subseteq Requests

(***************************************************************************)
(* Under one claim a deployment is sent at most once, whatever the         *)
(* operator answers: "It is never reopened: each connection costs the      *)
(* operator an agent prompt" (deploy_active).                              *)
(***************************************************************************)
SentOnce == \A t \in Tuis : worker[t].sends <= 1

(***************************************************************************)
(* Host-provided changes wait for a review only under the claim they were  *)
(* staged for, whatever ended the claims before it: lost leases, broken    *)
(* connections and failures drop them (reconnect_if_broken, approval_inner *)
(* and poll_approval_inner each reset host_mutations).                     *)
(***************************************************************************)
ReviewIsOfClaim ==
    \A t \in Tuis :
        worker[t].review # Nobody =>
            worker[t].active = [req |-> worker[t].review.req,
                                lease |-> worker[t].review.lease]

(***************************************************************************)
(* The requester is told of a deployment only if the target applied one,   *)
(* whichever TUI resolved the request and whatever failed on the way.      *)
(***************************************************************************)
ApprovedWasApplied ==
    \A r \in Requests : status[r] = "approved" => r \in applied

(***************************************************************************)
(* A claim is never left behind: what the broker leases to a TUI that is   *)
(* connected, its worker has at hand, to be renewed or resolved.  ("never  *)
(* leave the operator renewing a request that cannot appear" needs it.)    *)
(***************************************************************************)
ClaimIsAtHand ==
    \A t \in Tuis, r \in Requests :
        /\ status[r] = "claimed"
        /\ link[t] = "up" /\ owner[r] = session[t]
        => \E c \in {worker[t].active, worker[t].claim} :
              c = [req |-> r, lease |-> lease[r]]

(***************************************************************************)
(* A request that the UI will not show again, because this TUI finished    *)
(* it, never waits for this TUI again (completed_approvals).               *)
(***************************************************************************)
CompletedIsOver ==
    \A t \in Tuis : \A r \in ui[t].completed :
        status[r] \in Decisions \cup {"cancelled"}

(***************************************************************************)
(* A request that waits does not keep waiting while a TUI is free: the     *)
(* listener's look, the flag it sets and the list the worker reads never   *)
(* miss it, whichever of the connections broke meanwhile.                  *)
(***************************************************************************)
PendingIsTaken ==
    \A r \in Requests :
        status[r] = "pending" ~>
            \/ status[r] # "pending"
            \/ \A t \in Tuis : link[t] = "closed" \/ worker[t].active # Nobody

(***************************************************************************)
(* A yes is executed for the claim whose dialog the operator answered.     *)
(* apply_completion() relies on it when a claim is lost: "The TUI claims   *)
(* one deployment at a time: a minimised copy is the lost one."            *)
(***************************************************************************)
AnswerIsForClaim ==
    \A t \in Tuis :
        worker[t].pc \in {"identity", "details", "renew"}
            /\ worker[t].shown # Nobody
        => worker[t].shown.lease = worker[t].active.lease
=============================================================================
