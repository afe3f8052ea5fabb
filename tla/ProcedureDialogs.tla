-------------------------- MODULE ProcedureDialogs --------------------------
(***************************************************************************)
(* Procedures in the TUI: manager/src/model/procedures.rs, the dialogs of  *)
(* model/dialogs.rs, the request modal of ui/secret_request.rs and the     *)
(* outcomes ui/drive.rs applies, over the backend's ProcedureTable.        *)
(*                                                                         *)
(* The model of the TUI is the record `ui'; every operation of the code    *)
(* on `&mut Model' is an operator from such a record to the next one.  The *)
(* order of task bar entries, notices and texts are abstracted.  One drive *)
(* iteration (Tick) takes in all that has arrived: events first, then      *)
(* prompts, then outcomes.                                                 *)
(***************************************************************************)
EXTENDS ProcedureTable

CONSTANTS Requests,      \* what requesters ask: prompts and deployments
          Deployments,   \* those that are deployments
          Confirmations, \* those that are confirmations
          Home(_),       \* the procedure a request belongs to, or Alone
          Alone,
          Declared(_)    \* the steps a procedure declares, 0 for none

\* A confirmation is about a step of a procedure and is no deployment.
ASSUME ProcedureNames ==
    /\ IsFiniteSet(Procs)
    /\ Procs \intersect Requests = {} /\ Alone \notin Procs /\ "none" \notin Procs \union Requests
    /\ Deployments \subseteq Requests /\ {"browse", "dialog"} \intersect Deployments = {}
    /\ Confirmations \subseteq Requests \ Deployments
    /\ \A r \in Requests : Home(r) \in Procs \union {Alone}
    /\ \A r \in Confirmations : Home(r) \in Procs
    /\ \A p \in Procs : Declared(p) \in Nat

VARIABLES ask,     \* request -> where it is in the backend
          number,  \* request -> the step it was numbered
          ui       \* the TUI's model

procedureVars == <<tableVars, ask, number, ui>>

Dialogs == Procs \union Requests
Owner(r) == IF Home(r) = Alone THEN r ELSE Home(r)
Implicit(id) == id \notin Procs
NoDialog == "none"

NewProcedure == [here |-> FALSE, step |-> 0, prompts |-> <<>>, minimised |-> FALSE,
                 flashing |-> FALSE, aside |-> FALSE, ended |-> FALSE, exit |-> "unknown",
                 between |-> "none", flight |-> {}, finished |-> <<>>, reported |-> FALSE]

\* u with the dialog p for id.
Put(u, id, p) == [u EXCEPT !.proc[id] = p]

\* The sequence s without x, as a recursive function that can be reasoned about.
Without(s, x) ==
    LET kept[i \in 0..Len(s)] ==
            IF i = 0 THEN <<>> ELSE IF s[i] = x THEN kept[i - 1] ELSE Append(kept[i - 1], s[i])
    IN  kept[Len(s)]

Succeeded(o) == o \in {"done", "warning"}
Warned(p) == \E i \in DOMAIN p.finished : p.finished[i].outcome = "warning"
AllSucceeded(p) == \A i \in DOMAIN p.finished : Succeeded(p.finished[i].outcome)
\* needs_acknowledgement: a failure, or a success with warnings.
NeedsAck(p) == p.between = "bad" \/ (p.between = "ok" /\ Warned(p))
EndedEarly(id, p) == ~Implicit(id) /\ Declared(id) > 0 /\ p.step < Declared(id)
LastStepDone(id, p) ==
    /\ p.finished # <<>> /\ Succeeded(Last(p.finished).outcome)
    /\ ~Implicit(id) /\ Declared(id) > 0 /\ Last(p.finished).n >= Declared(id)

\* `mode' is "browse", "dialog", or the deployment whose approval is open.
ApprovalOf(u, id) == u.mode \in Deployments /\ Owner(u.mode) = id
HasPending(u, id) == \E i \in DOMAIN u.pending : Owner(u.pending[i]) = id
OnScreen(u, id) == u.foreground = id /\ ~u.proc[id].minimised
ShownPrompt(u) == u.foreground # NoDialog /\ OnScreen(u, u.foreground)
                  /\ u.proc[u.foreground].prompts # <<>>
BetweenShown(u) == /\ u.mode = "browse" /\ u.foreground # NoDialog
                   /\ OnScreen(u, u.foreground)
                   /\ u.proc[u.foreground].prompts = <<>>
                   /\ u.proc[u.foreground].between # "none"
ForegroundBusy(u) ==
    \/ u.mode # "browse" \/ ShownPrompt(u)
    \/ BetweenShown(u) /\ LET p == u.proc[u.foreground] IN p.between # "ok" \/ Warned(p)
Waiting(u, id) == \/ u.proc[id].prompts # <<>> \/ NeedsAck(u.proc[id])
                  \/ HasPending(u, id) \/ ApprovalOf(u, id)

-----------------------------------------------------------------------------
\* Mutant: a tidy that keeps only what still asks.
TidyAsking(u) ==
    LET gone == {id \in Dialogs :
                   /\ u.proc[id].here /\ (Implicit(id) \/ u.proc[id].ended)
                   /\ u.proc[id].prompts = <<>> /\ ~HasPending(u, id) /\ ~ApprovalOf(u, id)
                   /\ ~(OnScreen(u, id) /\ u.proc[id].between \in {"ok", "bad"})}
    IN  [u EXCEPT !.proc = [id \in Dialogs |-> IF id \in gone THEN NewProcedure ELSE u.proc[id]],
                  !.foreground = IF @ \in gone THEN NoDialog ELSE @]

\* tidy_procedures: drop what has nothing left to show.
Tidy(u) ==
    LET gone == {id \in Dialogs :
                   /\ u.proc[id].here /\ (Implicit(id) \/ u.proc[id].ended)
                   /\ ~Waiting(u, id)
                   /\ ~(OnScreen(u, id) /\ u.proc[id].between \in {"ok", "bad"})}
    IN  [u EXCEPT !.proc = [id \in Dialogs |-> IF id \in gone THEN NewProcedure ELSE u.proc[id]],
                  !.foreground = IF @ \in gone THEN NoDialog ELSE @]

\* Mutant: the step that arrives last counts.
EnsureLatest(u, id, n) == Put(u, id, [u.proc[id] EXCEPT !.here = TRUE, !.step = n])

\* ensure_procedure: a step only moves a procedure forward.
Ensure(u, id, n) ==
    Put(u, id, [u.proc[id] EXCEPT !.here = TRUE, !.step = IF n > @ THEN n ELSE @])

\* On screen; or flashing in the task bar.
Raised(u, id) ==
    [Put(u, id, [u.proc[id] EXCEPT !.minimised = FALSE, !.flashing = FALSE, !.aside = FALSE])
        EXCEPT !.foreground = id]
Noticed(u, id) ==
    [Put(u, id, [u.proc[id] EXCEPT !.minimised = TRUE, !.flashing = TRUE, !.aside = FALSE])
        EXCEPT !.foreground = IF @ = id THEN NoDialog ELSE @]

\* arrive: on screen when nothing else is, else flashing in the task bar.
Arrive(u, id) ==
    IF OnScreen(u, id)
    THEN IF ShownPrompt(u) \/ ApprovalOf(u, id) \/ u.mode = "browse" THEN u ELSE Noticed(u, id)
    ELSE IF ForegroundBusy(u) THEN Noticed(u, id) ELSE Tidy(Raised(u, id))

\* show_pending_approval: only the foreground procedure's approval opens by itself.
ShowPending(u) ==
    LET t == Tidy(u)
        mine == {i \in DOMAIN t.pending : t.foreground # NoDialog /\ OnScreen(t, t.foreground)
                                          /\ Owner(t.pending[i]) = t.foreground}
    IN  IF t.mode = "browse" /\ mine # {}
        THEN LET i == CHOOSE i \in mine : \A j \in mine : i <= j
             IN  [t EXCEPT !.mode = t.pending[i], !.pending = RemoveAt(@, i)]
        ELSE t

\* procedure_ended, for the procedures ids: what each of them makes of its dialog.
EndedDialog(u, id, exit) ==
    LET shown == u.mode = "browse" /\ OnScreen(u, id)
        p == [u.proc[id] EXCEPT !.ended = TRUE, !.exit = exit]
        nothing == p.finished = <<>> /\ p.flight = {}
        success == CASE p.between \in {"ok", "bad"} -> p.between = "ok" /\ exit = "zero"
                     [] p.between \notin {"ok", "bad"} /\ nothing -> exit # "bad"
                     [] OTHER -> exit = "zero" /\ AllSucceeded(p) /\ ~EndedEarly(id, p)
        quiet == nothing /\ p.between \notin {"ok", "bad"} /\ success
        notice == ~quiet /\ (~success \/ Warned(p)) /\ ~shown
    IN  IF ~p.here THEN u.proc[id]
        ELSE IF Implicit(id) \/ p.prompts # <<>> THEN p
        ELSE [p EXCEPT !.between = CASE quiet -> "none" [] ~quiet /\ success -> "ok" [] OTHER -> "bad",
                       !.minimised = @ \/ notice, !.flashing = @ \/ notice, !.aside = @ /\ ~notice]
EndDialogs(u, ids, exit) ==
    LET ended == [id \in Dialogs |-> IF id \in ids THEN EndedDialog(u, id, exit) ELSE u.proc[id]]
        leaves == u.foreground \in ids /\ ended[u.foreground].minimised
    IN  Tidy([u EXCEPT !.proc = ended, !.foreground = IF leaves THEN NoDialog ELSE @])
ProcedureEnded(u, id, exit) == EndDialogs(u, {id}, exit)

\* Mutant: a failure off screen is not put in the task bar.
RecordStepQuietly(u, id, f, outcome) ==
    LET p == [u.proc[id] EXCEPT !.finished = Append(@, [req |-> f.req, n |-> f.n, outcome |-> outcome])]
    IN  Put(u, id, [p EXCEPT !.between = IF Succeeded(outcome) THEN "waiting" ELSE "bad"])

\* record_step: lists an outcome and, once nothing is open, what comes next.
RecordStep(u, id, f, outcome) ==
    LET ok == Succeeded(outcome)
        p == [u.proc[id] EXCEPT !.finished = Append(@, [req |-> f.req, n |-> f.n, outcome |-> outcome])]
        told == f.kind = "report" /\ outcome = "failed"
        open == p.prompts # <<>> \/ ApprovalOf(u, id)
        good == ok /\ ~told /\ ~p.reported
        missed == ~good /\ ~OnScreen(u, id)
    IN  CASE p.ended /\ p.between \in {"ok", "bad"} ->
                 Put(u, id, [p EXCEPT !.between = IF ok THEN @ ELSE "bad"])
          [] p.ended /\ p.between \notin {"ok", "bad"} ->
                 IF open THEN Put(u, id, p) ELSE ProcedureEnded(Put(u, id, p), id, p.exit)
          [] ~p.ended /\ ~open /\ p.flight = {} /\ p.between # "bad" ->
                 Put(u, id, [p EXCEPT !.reported = FALSE,
                    !.between = CASE ~good -> "bad" [] good /\ LastStepDone(id, p) -> "ok"
                                  [] OTHER -> "waiting",
                    !.minimised = @ \/ missed, !.flashing = @ \/ missed, !.aside = @ /\ ~missed])
          [] OTHER ->
                 Put(u, id, [p EXCEPT !.reported = @ \/ (told /\ p.between # "bad"),
                    !.flashing = @ \/ (told /\ p.between # "bad" /\ p.minimised)])

\* step_reported: the same kind of report about the same step changes only its text.
StepReported(u, m, outcome) ==
    LET key == <<outcome, m.n>>
        p == u.proc[m.proc]
    IN  IF \E i \in DOMAIN p.finished : p.finished[i].req = key THEN u
        ELSE Tidy(RecordStep(u, m.proc, [req |-> key, n |-> m.n, kind |-> "report"], outcome))

\* procedure_step
ProcedureStep(u, m) ==
    LET a == Ensure(u, m.proc, m.n)
        b == IF m.warning THEN StepReported(a, m, "warning") ELSE a
    IN  IF m.failure /\ b.proc[m.proc].here THEN StepReported(b, m, "failed") ELSE b

\* take_in_flight and drop_prompt
TakeFlight(u, id, f) == Put(u, id, [u.proc[id] EXCEPT !.flight = @ \ {f}])
DropPrompt(u, r) ==
    Put(u, Owner(r), [u.proc[Owner(r)] EXCEPT !.prompts = Without(@, r)])
Flights(u, r) == {f \in u.proc[Owner(r)].flight : f.req = r}

\* prompt_missed: its countdown ran out or its requester left.
PromptMissed(u, r, outcome) ==
    LET v == DropPrompt(u, r) IN
    Tidy(IF Flights(v, r) = {} THEN v
         ELSE LET f == CHOOSE f \in Flights(v, r) : TRUE
              IN  RecordStep(TakeFlight(v, Owner(r), f), Owner(r), f, outcome))

\* step_finished, after procedure_outcome removed the prompt of a failure.
StepFinished(u, r, ok) ==
    LET v == IF ok THEN u ELSE Tidy(DropPrompt(u, r)) IN
    IF Flights(v, r) = {} THEN v
    ELSE LET f == CHOOSE f \in Flights(v, r) : TRUE
             outcome == CASE ok /\ f.kind = "confirm" -> "warning" [] ok -> "done"
                          [] f.denied -> "denied" [] OTHER -> "failed"
         IN  Tidy(RecordStep(TakeFlight(v, Owner(r), f), Owner(r), f, outcome))

\* offer_prompt: m carries the step the request was numbered.
OfferPrompt(u, m) ==
    LET id == Owner(m.req)
        known == u.proc[id].here
        v == IF m.req \in Confirmations /\ known THEN u ELSE Ensure(u, id, m.n)
        first == v.proc[id].prompts = <<>>
        kind == IF m.req \in Confirmations THEN "confirm" ELSE "ask"
        flight == [req |-> m.req, n |-> m.n, kind |-> kind, denied |-> FALSE]
        w == Put(v, id, [v.proc[id] EXCEPT !.prompts = Append(@, m.req),
                            !.flight = IF Implicit(id) THEN @ ELSE @ \union {flight},
                            !.between = IF Implicit(id) THEN @ ELSE "none"])
    IN  IF first THEN Arrive(w, id) ELSE w

\* connection_lost
ConnectionLost(u) ==
    Tidy([u EXCEPT !.proc = [id \in Dialogs |->
            [u.proc[id] EXCEPT !.prompts = <<>>,
                               !.flight = {f \in @ : f.kind = "deploy"}]]])

\* procedures_synced: what is not in the list is taken to have ended; `misled'
\* keeps those that had not.
Synced(u, live) ==
    LET gone == {id \in Procs : u.proc[id].here /\ ~u.proc[id].ended /\ id \notin live}
    IN  [EndDialogs(u, gone, "unknown") EXCEPT
            !.misled = @ \union {id \in gone : phase[id] \in {"new", "begun", "serving"}}]

\* offer_approval: an approval of a procedure joins its dialog.
OfferApproval(u, d) ==
    LET id == Owner(d)
        e == Ensure(u, id, number[d])
        v == Put(e, id, [e.proc[id] EXCEPT !.between = "none"])
        queued == \E i \in DOMAIN u.pending : u.pending[i] = d
    IN  CASE d \in u.completed -> u
          [] d \notin u.completed /\ queued -> ShowPending(v)
          [] d \notin u.completed /\ ~queued /\ u.mode = d -> v
          [] OTHER -> ShowPending(Arrive([v EXCEPT !.pending = Append(@, d)], id))

\* deployment_answered: at most one deployment is in flight.
DeploymentAnswered(u, d) ==
    LET id == Owner(d)
        v == [u EXCEPT !.proc = [i \in Dialogs |->
                 [u.proc[i] EXCEPT !.flight = {f \in @ : f.kind # "deploy" \/ f.req = d}]]]
        flight == [req |-> d, n |-> number[d], kind |-> "deploy", denied |-> FALSE]
    IN  IF Implicit(id) \/ ~v.proc[id].here THEN v
        ELSE Put(v, id, [v.proc[id] EXCEPT
                    !.flight = IF \E f \in @ : f.req = d THEN @ ELSE @ \union {flight},
                    !.between = IF v.proc[id].prompts = <<>> THEN "working" ELSE @])

\* minimise: the foreground dialog goes to the task bar.
MinimiseDialog(u) ==
    LET id == IF u.foreground = NoDialog /\ u.mode \in Deployments THEN Owner(u.mode) ELSE u.foreground
        v == IF u.foreground = NoDialog /\ id # NoDialog
             THEN [Ensure(u, id, number[u.mode]) EXCEPT !.foreground = id] ELSE u
        own == ApprovalOf(v, id)
    IN  IF id = NoDialog THEN u
        ELSE IF ~(ShownPrompt(v) \/ own \/ BetweenShown(v)) THEN v
        ELSE Tidy([Put(v, id, [v.proc[id] EXCEPT
                          !.minimised = TRUE, !.flashing = FALSE, !.aside = TRUE,
                          !.between = IF @ = "ok" /\ ~Warned(v.proc[id]) THEN "none" ELSE @])
                   EXCEPT !.mode = IF own THEN "browse" ELSE @,
                          !.pending = IF own THEN <<v.mode>> \o @ ELSE @,
                          !.foreground = NoDialog])

\* restore: another procedure's dialog is minimised, any other must be closed first.
RestoreDialog(u, id) ==
    LET blocked == u.mode = "dialog" /\ ~ShownPrompt(u)
        v == IF u.foreground # id THEN MinimiseDialog(u) ELSE u
        w == Raised(v, id)
    IN  IF ~u.proc[id].here \/ blocked THEN u
        ELSE IF u.foreground # id /\ (v.mode \in Deployments \/ ~v.proc[id].here) THEN v
        ELSE IF ShownPrompt(w) THEN w ELSE ShowPending(w)

\* restore_next: of the others that wait, a flashing one first.
RestoreCandidates(u) ==
    LET waiting == {id \in Dialogs : u.proc[id].here /\ id # u.foreground /\ Waiting(u, id)}
        urgent == {id \in waiting : u.proc[id].flashing}
    IN  IF urgent # {} THEN urgent ELSE waiting

\* take_shown_prompt: the operator answers the prompt on screen.
TakeShown(u, yes) ==
    LET id == u.foreground
        r == Head(u.proc[id].prompts)
        rest == Tail(u.proc[id].prompts)
        denied == {IF f.req = r THEN [f EXCEPT !.denied = ~yes] ELSE f : f \in u.proc[id].flight}
    IN  Tidy(Put(u, id, [u.proc[id] EXCEPT !.prompts = rest, !.flight = denied,
                            !.between = IF ~Implicit(id) /\ rest = <<>> THEN "working" ELSE @]))

\* dismiss_result
DismissResult(u) ==
    LET p == u.proc[u.foreground] IN
    Tidy(Put(u, u.foreground, [p EXCEPT !.between = IF @ \in {"ok", "bad"} THEN "none" ELSE @]))

\* One event of pump() and tick().
ApplyEvent(u, m) ==
    CASE m.type = "step" -> ProcedureStep(u, m)
      [] m.type = "ended" -> ProcedureEnded(u, m.proc, m.exit)
      [] m.type = "withdrawn" -> PromptMissed(u, m.req, "failed")
      [] m.type = "lost" -> [(IF u.lost THEN u ELSE ConnectionLost(u)) EXCEPT !.lost = TRUE]
      [] m.type = "listed" -> [(IF u.lost THEN Synced(u, m.live) ELSE u) EXCEPT !.lost = FALSE]
      [] OTHER -> u

\* Prompts are kept apart and are gone once withdrawn or lost.
StillAsked(ms, i) ==
    /\ ms[i].type = "prompt"
    /\ ~ \E j \in (i + 1)..Len(ms) : \/ ms[j].type = "lost"
                                     \/ ms[j].type = "withdrawn" /\ ms[j].req = ms[i].req

ApplyOutcome(u, m) == ShowPending(StepFinished(u, m.req, m.ok))

\* What one pass over the messages ms makes of the i-th, and of all of them.
TakeIn(pass, u, ms, i) ==
    CASE pass = "events" -> ApplyEvent(u, ms[i])
      [] pass = "prompts" /\ StillAsked(ms, i) -> OfferPrompt(u, ms[i])
      [] pass = "outcomes" /\ ms[i].type = "finished" -> ApplyOutcome(u, ms[i])
      [] OTHER -> u
Taken(pass, u, ms) ==
    LET after[i \in 0..Len(ms)] == IF i = 0 THEN u ELSE TakeIn(pass, after[i - 1], ms, i)
    IN  after[Len(ms)]

-----------------------------------------------------------------------------
\* Some of the requests are never made.
ProcedureInit ==
    /\ TableInit
    /\ ask \in [Requests -> {"new", "over"}] /\ number = [r \in Requests |-> 0]
    /\ ui = [proc |-> [id \in Dialogs |-> NewProcedure], foreground |-> NoDialog, mode |-> "browse",
             pending |-> <<>>, completed |-> {}, cancelled |-> {}, lost |-> FALSE,
             misled |-> {}]

\* The backend's own steps.
TableStep ==
    /\ \/ \E p \in Procs : BeginProcedure(p) \/ AnnounceBegin(p) \/ RefuseProcedure(p)
                           \/ AnnounceEnd(p) \/ ReportProgress(p)
       \/ \E p \in Procs, exit \in Exits : EndProcedure(p, exit)
       \/ \E p \in Procs, label \in Labels, kind \in {"failure", "warning"} : ReportStep(p, label, kind)
       \/ \E u \in unsent : u.thread = "report" /\ Announce(u)
       \/ PushSession \/ SnapshotSession
    /\ UNCHANGED <<ask, number, ui>>

\* A request outside a procedure, and one that advances its procedure by a step.
RequestAlone(r) ==
    /\ ask[r] = "new" /\ Home(r) = Alone
    /\ ask' = [ask EXCEPT ![r] = "ready"]
    /\ UNCHANGED <<tableVars, number, ui>>

RequestStep(r) ==
    /\ ask[r] = "new" /\ Home(r) # Alone /\ r \notin Confirmations
    /\ \E label \in Labels, repeatable \in BOOLEAN :
          /\ repeatable => r \notin Deployments
          /\ Number(Home(r), label, repeatable, "none", r)
    /\ number' = [number EXCEPT ![r] = table'[Home(r)].n]
    /\ ask' = [ask EXCEPT ![r] = "numbered"]
    /\ UNCHANGED <<phase, link, held, stream, budget, ui>>

\* A confirmation is about the current step (annotate) and needs an attached TUI.
RequestConfirmation(r) ==
    /\ ask[r] = "new" /\ r \in Confirmations
    /\ Home(r) \in Live /\ phase[Home(r)] = "serving" /\ link # "off"
    /\ ask' = [ask EXCEPT ![r] = "ready"]
    /\ number' = [number EXCEPT ![r] = table[Home(r)].n]
    /\ UNCHANGED <<tableVars, ui>>

\* advance() announces the step before the request goes on.
AnnounceRequest(r) ==
    /\ ask[r] = "numbered"
    /\ \E u \in unsent : u.thread = r /\ Announce(u)
    /\ ask' = [ask EXCEPT ![r] = "ready"]
    /\ UNCHANGED <<number, ui>>

\* The job of a request reaches the attached TUI.
SendPrompt(r) ==
    /\ ask[r] = "ready" /\ r \notin Deployments /\ link # "off" /\ Room
    /\ Deliver([type |-> "prompt", req |-> r, n |-> number[r]])
    /\ ask' = [ask EXCEPT ![r] = "open"]
    /\ UNCHANGED <<table, phase, unsent, link, budget, number, ui>>

\* The requester leaves; an open prompt is withdrawn.
LeaveRequest(r) ==
    /\ ask[r] \in {"ready", "open"} /\ r \notin Deployments /\ Room
    /\ IF ask[r] = "open" THEN Deliver([type |-> "withdrawn", req |-> r])
       ELSE UNCHANGED <<stream, held>>
    /\ ask' = [ask EXCEPT ![r] = "over"]
    /\ UNCHANGED <<table, phase, unsent, link, budget, number, ui>>

\* The channel breaks: a prompt that was open waits for the next session.
LoseLink ==
    /\ link = "on" /\ Room /\ Spend
    /\ link' = "off" /\ held' = <<>>
    /\ stream' = Append(stream, [type |-> "lost"])
    /\ ask' = [r \in Requests |-> IF ask[r] = "open" /\ r \notin Deployments THEN "ready" ELSE ask[r]]
    /\ UNCHANGED <<table, phase, unsent, number, ui>>

\* The handler of an answered prompt reports how it went.
Finish(r, ok) ==
    /\ ask[r] \in {"yes", "no"} /\ Room
    /\ ok => ask[r] = "yes"
    /\ stream' = Append(stream, [type |-> "finished", req |-> r, ok |-> ok])
    /\ ask' = [ask EXCEPT ![r] = "over"]
    /\ UNCHANGED <<table, phase, unsent, link, held, budget, number, ui>>

-----------------------------------------------------------------------------
UiStep(u) == ui' = u /\ UNCHANGED <<tableVars, number>>

\* One iteration of drive(): tick(), then the completions.
Tick ==
    LET asked == Taken("prompts", Taken("events", ui, stream), stream)
    IN  /\ stream # <<>>
        /\ ui' = Taken("outcomes", ShowPending(asked), stream)
        /\ stream' = <<>>
        /\ UNCHANGED <<table, phase, unsent, link, held, budget, ask, number>>

\* No answer is sent on a connection that was lost.
Connected == ~ \E i \in DOMAIN stream : stream[i].type = "lost"

\* Only a request of its own or the first step of a procedure counts down.
CountsDown(r) == /\ r \notin ui.cancelled /\ r \notin Confirmations
                 /\ Home(r) = Alone \/ number[r] <= 1

\* expire_prompts: the channel denies at the same moment.
ExpirePrompt(r) ==
    /\ r \in Range(ui.proc[Owner(r)].prompts) /\ CountsDown(r)
    /\ UiStep(ShowPending(PromptMissed(ui, r, "timedout")))
    /\ ask' = [ask EXCEPT ![r] = IF @ = "open" /\ Connected THEN "no" ELSE @]

CancelCountdown ==
    LET r == Head(ui.proc[ui.foreground].prompts) IN
    /\ ShownPrompt(ui) /\ CountsDown(r)
    /\ UiStep([ui EXCEPT !.cancelled = @ \union {r}])
    /\ UNCHANGED ask

\* intercept and confirmation: the prompt on screen is answered.
AnswerPrompt(yes) ==
    LET r == Head(ui.proc[ui.foreground].prompts) IN
    /\ ShownPrompt(ui)
    /\ UiStep(ShowPending(TakeShown(ui, yes)))
    /\ ask' = [ask EXCEPT ![r] = IF @ = "open" /\ Connected THEN (IF yes THEN "yes" ELSE "no") ELSE @]

\* m, M, the task bar, and the dialog between prompts.
Minimise ==
    /\ ShownPrompt(ui) \/ BetweenShown(ui) \/ ui.mode \in Deployments
    /\ UiStep(ShowPending(MinimiseDialog(ui))) /\ UNCHANGED ask
Restore(id) ==
    /\ ui.proc[id].here
    /\ UiStep(ShowPending(RestoreDialog(ui, id))) /\ UNCHANGED ask
RestoreNext ==
    LET seen == ~ShownPrompt(ui) /\ BetweenShown(ui)
                /\ ui.proc[ui.foreground].between = "ok" /\ ~Warned(ui.proc[ui.foreground])
        u == IF seen THEN DismissResult(ui) ELSE ui
    IN  \E id \in RestoreCandidates(u) :
            UiStep(ShowPending(RestoreDialog(u, id))) /\ UNCHANGED ask
Acknowledge ==
    /\ ~ShownPrompt(ui) /\ BetweenShown(ui) /\ ui.proc[ui.foreground].between \in {"ok", "bad"}
    /\ UiStep(ShowPending(DismissResult(ui))) /\ UNCHANGED ask

\* Any other dialog of the TUI; a completion opens one behind a prompt too.
OpenDialog ==
    /\ ui.mode = "browse"
    /\ UiStep([ui EXCEPT !.mode = "dialog"]) /\ UNCHANGED ask
CloseDialog ==
    /\ ui.mode = "dialog" /\ ~ShownPrompt(ui)
    /\ UiStep(ShowPending([ui EXCEPT !.mode = "browse"])) /\ UNCHANGED ask

\* Deployments: the worker offers a claim (again for a later stage), the operator
\* answers, the worker reports; a lost claim closes every copy of it and may be
\* offered again.  A rejected claim stays on screen until it ends.
AtWorker == {d \in Deployments : ask[d] \in {"open", "yes", "no", "ending"}}
ApprovalsClosed(u) == [u EXCEPT !.mode = IF @ \in Deployments THEN "browse" ELSE @]
OfferDeployment(d) ==
    /\ ask[d] \in {"ready", "yes"} /\ AtWorker \subseteq {d}
    /\ UiStep(OfferApproval(IF ask[d] = "yes" THEN ApprovalsClosed(ui) ELSE ui, d))
    /\ ask' = [ask EXCEPT ![d] = "open"]
\* queue() refuses while the worker is busy: with a save, or with the first answer.
AnswerDeployment(d, yes) ==
    /\ ui.mode = d /\ ~ShownPrompt(ui)
    /\ UiStep(ShowPending([DeploymentAnswered(ui, d) EXCEPT !.mode = IF yes THEN "browse" ELSE @]))
    /\ \/ ask[d] = "open" /\ ask' = [ask EXCEPT ![d] = IF yes THEN "yes" ELSE "no"]
       \/ UNCHANGED ask
\* ApprovalTerminated goes before the completion of a claim that was resolved.
FinishApproval(d) ==
    /\ ask[d] \in {"yes", "no"}
    /\ UiStep(ShowPending(Tidy([ui EXCEPT
          !.completed = @ \union {d}, !.pending = Without(@, d),
          !.mode = IF @ = d THEN "browse" ELSE @])))
    /\ ask' = [ask EXCEPT ![d] = "ending"]
\* Of a no to what the host added, the deployment itself may be done by then.
DeploymentDone(d, ok) ==
    /\ ask[d] = "ending"
    /\ UiStep(ShowPending(StepFinished(ApprovalsClosed(ui), d, ok)))
    /\ ask' = [ask EXCEPT ![d] = "over"]
\* ApprovalLost: the deployment failed, or the claim went with the connection.
DeploymentLost(d) ==
    /\ ask[d] \in {"open", "yes", "no"}
    /\ ui' = ShowPending(StepFinished([ApprovalsClosed(ui) EXCEPT !.pending = <<>>], d, FALSE))
    /\ \/ ask' = [ask EXCEPT ![d] = "over"] /\ UNCHANGED budget
       \/ ask' = [ask EXCEPT ![d] = "ready"] /\ Spend
    /\ UNCHANGED <<table, phase, unsent, link, held, stream, number>>

OperatorStep == \/ \E yes \in BOOLEAN : AnswerPrompt(yes)
            \/ CancelCountdown \/ Minimise \/ RestoreNext \/ Acknowledge
            \/ OpenDialog \/ CloseDialog
            \/ \E id \in Dialogs : Restore(id)
            \/ \E d \in Deployments, yes \in BOOLEAN : AnswerDeployment(d, yes)

ProcedureNext ==
    \/ TableStep \/ LoseLink \/ Tick \/ OperatorStep
    \/ \E r \in Requests : RequestAlone(r) \/ RequestStep(r) \/ RequestConfirmation(r)
                           \/ AnnounceRequest(r)
    \/ \E r \in Requests \ Deployments : SendPrompt(r) \/ LeaveRequest(r) \/ ExpirePrompt(r)
    \/ \E r \in Requests \ Deployments, ok \in BOOLEAN : Finish(r, ok)
    \/ \E d \in Deployments : OfferDeployment(d) \/ FinishApproval(d) \/ DeploymentLost(d)
    \/ \E d \in Deployments, ok \in BOOLEAN : DeploymentDone(d, ok)

ProcedureSpec == ProcedureInit /\ [][ProcedureNext]_procedureVars

-----------------------------------------------------------------------------
(***************************************************************************)
(* What the task bar promises                                              *)
(***************************************************************************)
Listed == {id \in Dialogs : ui.proc[id].here}

\* Whatever waits for the operator is where the operator looks: on screen, in
\* the open approval, flashing in the task bar, or set aside by the operator's
\* own minimise.  In particular a dialog in the foreground is never minimised
\* (model/procedures.rs: arrive, record_step, procedure_ended, minimise,
\* restore, tidy_procedures).  The one exception: a warning about the last
\* declared step makes a result that waits for its acknowledgement, and no
\* notice of it is given before the procedure ends.
EarlyWarning(p) == ~p.ended /\ p.between = "ok"
NothingWaitsUnseen ==
    /\ ui.foreground # NoDialog => ui.foreground \in Listed /\ ~ui.proc[ui.foreground].minimised
    /\ \A id \in Listed : Waiting(ui, id) /\ ~EarlyWarning(ui.proc[id]) =>
          \/ OnScreen(ui, id) \/ ApprovalOf(ui, id)
          \/ ui.proc[id].minimised /\ (ui.proc[id].flashing \/ ui.proc[id].aside)

\* A failed result of a procedure goes only while its own dialog, or an approval
\* of its own, is before the operator, or when the procedure asks something more:
\* nothing that arrives or is answered elsewhere takes away a result the operator
\* is not looking at (model/procedures.rs: procedure_ended, record_step,
\* minimise, restore_next, tidy_procedures).
FailureIsSeen ==
    [][\A id \in Procs : (ui.proc[id].between = "bad" /\ ui'.proc[id].between # "bad")
          => \/ OnScreen(ui, id) \/ ApprovalOf(ui, id)
             \/ ui'.proc[id].prompts # <<>> \/ HasPending(ui', id) \/ ApprovalOf(ui', id)]_procedureVars

\* Once everything announced has been read, an attached TUI lists every running
\* procedure, and at its current step, although steps are announced after the
\* table's lock is released and so in any order: attach lists the session
\* before it takes the snapshot, and a step only moves a dialog forward
\* (backend/procedures.rs: next_step; secrets.rs: advance, attach;
\* model/procedures.rs: ensure_procedure).
LatestStepKnown ==
    (link = "on" /\ stream = <<>> /\ unsent = {} /\ \A p \in Procs : phase[p] \in {"new", "serving", "over"})
        => \A p \in Live \ ui.misled : ui.proc[p].here /\ ui.proc[p].step >= table[p].n
=============================================================================
