--------------------------- MODULE ProcedureTable ---------------------------
(***************************************************************************)
(* The backend's table of running procedures (core/src/backend/            *)
(* procedures.rs) and how its changes reach an attached TUI                *)
(* (core/src/backend/secrets.rs: broadcast and the opening of attach).     *)
(*                                                                         *)
(* A change is made under the table's lock and announced after the lock    *)
(* is released, each by the thread that made it: `unsent' holds what is    *)
(* computed and not yet announced.  A TUI is put in the list of attached   *)
(* ones first and then sent a snapshot; what is announced in between is    *)
(* `held' for it and follows the snapshot.  Texts are abstracted; a label  *)
(* is kept because a repeated one stays on its step.                       *)
(***************************************************************************)
EXTENDS Integers, Sequences, FiniteSets, SequencesExt

CONSTANTS Procs,         \* procedures `nix-secrets procedure' registers
          Labels,        \* labels of steps
          MaxProcedures, \* MAX_PROCEDURES
          MaxStep,       \* bound: steps a procedure is followed for
          MaxStream,     \* bound: messages on the way to the TUI
          MaxReports     \* bound: reports and lost connections

ASSUME ProcedureBounds == MaxProcedures \in Nat /\ MaxStep \in Nat /\ MaxStream \in Nat /\ MaxReports \in Nat

VARIABLES table,   \* procedure -> its current step, or Ended
          phase,   \* procedure -> where the thread of serve() is
          unsent,  \* announcements computed and not yet made
          link,    \* the TUI's session: "off", "pushed" (in `attached'), "on"
          held,    \* announcements for a session that has no snapshot yet
          stream,  \* what the TUI has yet to read
          budget   \* reports and lost connections left

tableVars == <<table, phase, unsent, link, held, stream, budget>>

Starting == [n |-> 0, label |-> "starting", repeatable |-> FALSE,
             failure |-> FALSE, warning |-> FALSE]
Ended == [Starting EXCEPT !.n = -1]

StepOf(p, t) == [type |-> "step", proc |-> p, n |-> t.n,
                 failure |-> t.failure, warning |-> t.warning]
EndOf(p, exit) == [type |-> "ended", proc |-> p, exit |-> exit]

Live == {p \in Procs : table[p] # Ended}

\* number_step: the step that a request or a report makes of the current one.
NumberStep(t, label, repeatable, report) ==
    LET repeat == repeatable /\ t.repeatable /\ t.n > 0 /\ t.label = label
        base == IF repeat THEN t
                ELSE [t EXCEPT !.n = @ + 1, !.failure = FALSE, !.warning = FALSE]
    IN  [base EXCEPT !.label = label, !.repeatable = repeatable,
                     !.failure = report = "failure" \/ (@ /\ report = "warning"),
                     !.warning = report = "warning" \/ (@ /\ report = "failure")]

\* A message for the attached TUI.
Deliver(m) ==
    /\ stream' = IF link = "on" THEN Append(stream, m) ELSE stream
    /\ held' = IF link = "pushed" THEN Append(held, m) ELSE held

Room == Len(stream) + Len(held) < MaxStream

Spend == budget > 0 /\ budget' = budget - 1

-----------------------------------------------------------------------------
TableInit ==
    /\ table = [p \in Procs |-> Ended]
    /\ phase \in [Procs -> {"new", "over"}]   \* "over": one that never comes
    /\ unsent = {} /\ link = "off" /\ held = <<>> /\ stream = <<>>
    /\ budget \in 0..MaxReports

\* Procedures::begin; serve() then announces the first state.
BeginProcedure(p) ==
    /\ phase[p] = "new" /\ Cardinality(Live) < MaxProcedures
    /\ table' = [table EXCEPT ![p] = Starting]
    /\ phase' = [phase EXCEPT ![p] = "begun"]
    /\ UNCHANGED <<unsent, link, held, stream, budget>>

AnnounceBegin(p) ==
    /\ phase[p] = "begun" /\ Room
    /\ Deliver(StepOf(p, Starting))
    /\ phase' = [phase EXCEPT ![p] = "serving"]
    /\ UNCHANGED <<table, unsent, link, budget>>

\* begin() refuses when MAX_PROCEDURES are live.
RefuseProcedure(p) ==
    /\ phase[p] = "new" /\ Cardinality(Live) >= MaxProcedures
    /\ phase' = [phase EXCEPT ![p] = "over"]
    /\ UNCHANGED <<table, unsent, link, held, stream, budget>>

\* A step's number, taken under the lock: next_step, fail_step, warn_step.
Number(p, label, repeatable, report, thread) ==
    LET t == NumberStep(table[p], label, repeatable, report) IN
    /\ p \in Live /\ phase[p] = "serving" /\ t.n <= MaxStep
    /\ table' = [table EXCEPT ![p] = t]
    /\ unsent' = unsent \union {[thread |-> thread, message |-> StepOf(p, t)]}

\* fail_step and warn_step, from a command inside the procedure.
ReportStep(p, label, report) ==
    /\ ~ \E u \in unsent : u.thread = "report"
    /\ Number(p, label, TRUE, report, "report")
    /\ Spend
    /\ UNCHANGED <<phase, link, held, stream>>

\* progress_step: the same step again, announced again.
ReportProgress(p) ==
    /\ p \in Live /\ phase[p] = "serving" /\ ~ \E u \in unsent : u.thread = "report"
    /\ unsent' = unsent \union {[thread |-> "report", message |-> StepOf(p, table[p])]}
    /\ Spend
    /\ UNCHANGED <<table, phase, link, held, stream>>

\* broadcast_step of a thread that numbered one.
Announce(u) ==
    /\ Room
    /\ Deliver(u.message)
    /\ unsent' = unsent \ {u}
    /\ UNCHANGED <<table, phase, link, budget>>

\* How `nix-secrets procedure' ends: its command's code, or only the connection.
Exits == {"zero", "bad", "unknown"}

\* serve(): the owner ends the procedure (with an exit code) or its connection closes.
EndProcedure(p, exit) ==
    /\ phase[p] = "serving"
    /\ table' = [table EXCEPT ![p] = Ended]
    /\ phase' = [phase EXCEPT ![p] = exit]
    /\ UNCHANGED <<unsent, link, held, stream, budget>>

AnnounceEnd(p) ==
    /\ phase[p] \in Exits /\ Room
    /\ Deliver(EndOf(p, phase[p]))
    /\ phase' = [phase EXCEPT ![p] = "over"]
    /\ UNCHANGED <<table, unsent, link, budget>>

\* attach: the session is listed, then it is sent the snapshot.
PushSession ==
    /\ link = "off"
    /\ link' = "pushed"
    /\ UNCHANGED <<table, phase, unsent, held, stream, budget>>

SnapshotSession ==
    LET steps == SetToSeq({StepOf(p, table[p]) : p \in Live}) IN
    /\ link = "pushed"
    /\ stream' = stream \o steps \o <<[type |-> "listed", live |-> Live]>> \o held
    /\ held' = <<>> /\ link' = "on"
    /\ UNCHANGED <<table, phase, unsent, budget>>
=============================================================================
