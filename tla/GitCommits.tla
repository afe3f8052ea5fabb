----------------------------- MODULE GitCommits -----------------------------
(***************************************************************************)
(* Commits of the managed files, and the question before a value is        *)
(* replaced: core/src/git.rs, git/agent.rs, backend/commit.rs,             *)
(* store/committed.rs, manager/src/client/commit.rs, ui/commit.rs and the  *)
(* entry of a value (ui/edit.rs, async_ui.rs).                             *)
(*                                                                         *)
(* A file's content is the version of its last write; "store" holds one    *)
(* secret, 0 when it is unset.  git is external: its index, the last       *)
(* commit and the working tree, which a shell and the backend change at    *)
(* the same time.  The store has other writers too (another TUI, a         *)
(* deployment that stores a generated value, a keypair generated here);    *)
(* they know nothing of what this TUI shows or asks.                       *)
(***************************************************************************)
EXTENDS Integers, Sequences, SequencesExt

CONSTANTS MaxEdit,    \* bound: versions of the stored value
          MaxOther,   \* bound: versions of the other files
          MaxCommits, \* bound: commits
          MaxSaves    \* operations that may wait in the TUI (8)

ASSUME GitBounds == MaxEdit \in Nat /\ MaxOther \in Nat /\ MaxCommits \in Nat /\ MaxSaves \in Nat

VARIABLES tree,   \* the working tree
          staged, \* git's index
          log,    \* the branch: what each commit holds
          draft,  \* the TUI's draft of a commit
          dialog, \* the Git Commit dialog, with the summary it shows
          commit, \* the commit the backend runs
          made,   \* versions of the stored value so far
          view,   \* the listing on its way to the TUI, and the row it shows
          entry,  \* the TUI's question before a value is replaced or deleted
          saves,  \* the saves and deletions that wait for the TUI's worker
          failed  \* the failed saves whose dialog waits

gitVars == <<tree, staged, log, draft, dialog, commit, made, view, entry, saves, failed>>
editVars == <<made, view, entry, saves, failed>>
repoVars == <<staged, log, draft, dialog, commit>>

Managed == {"store", "profiles"} \* MANAGED_FILES
Files == Managed \union {"other"}
Head0 == IF log = <<>> THEN [f \in Files |-> 0] ELSE Last(log)
NoDraft == [text |-> FALSE, amend |-> FALSE]
Closed == [open |-> FALSE, foreign |-> FALSE]
NoCommit == [pc |-> "none", amend |-> FALSE, signs |-> FALSE, heard |-> TRUE, paths |-> {}]
NoEntry == [at |-> "none", what |-> "replace", seen |-> 0, warned |-> FALSE]

GitInit ==
    /\ tree = [f \in Files |-> 0] /\ staged = tree /\ log = <<>>
    /\ draft = NoDraft /\ dialog = Closed /\ commit = NoCommit
    /\ made = 0 /\ view = [listed |-> {}, row |-> FALSE]
    /\ entry = NoEntry /\ saves = <<>> /\ failed = <<>>

\* The worker runs one operation at a time; a commit that was given up no longer
\* occupies it.
Committing == commit.pc # "none" /\ commit.heard
Busy == saves # <<>> \/ Committing
\* Browse: no dialog or entry field is open.
Browses == entry.at = "none" /\ ~dialog.open
\* The dialog of a failed save comes first.
Free == Browses /\ failed = <<>>

\* foreign_staged: another path differs between the index and the last commit.
ForeignStaged == staged["other"] # Head0["other"]
\* managed_paths: those that exist or are tracked.
ManagedPaths == {f \in Managed : tree[f] # 0 \/ staged[f] # 0}
\* summary: open() asks the backend, show() keeps an unsent draft; an amend
\* without a text takes the one of the last commit.
Prefill(d) == [d EXCEPT !.text = @ \/ (d.amend /\ log # <<>>)]
Open ==
    /\ Free /\ ~Busy /\ commit.pc = "none"
    /\ dialog' = [open |-> TRUE, foreign |-> ForeignStaged]
    /\ draft' = Prefill(draft)
    /\ UNCHANGED <<tree, staged, log, commit, editVars>>

\* reduce: typing, Tab and Escape.
Type ==
    /\ dialog.open
    /\ draft' \in {[draft EXCEPT !.text = ~@], Prefill([draft EXCEPT !.amend = ~@])}
    /\ UNCHANGED <<tree, staged, log, dialog, commit, editVars>>
Escape ==
    /\ dialog.open
    /\ dialog' = Closed
    /\ UNCHANGED <<tree, staged, log, draft, commit, editVars>>

\* refusal() and Submit: the worker runs one operation at a time, and git's own
\* lock refuses a commit while an unheard one still runs.
CommitRefusal == (~draft.text /\ ~draft.amend) \/ dialog.foreign
SubmitCommit(signs) ==
    /\ dialog.open /\ ~CommitRefusal /\ ~Busy /\ commit.pc = "none"
    /\ commit' = [NoCommit EXCEPT !.pc = "check", !.amend = draft.amend, !.signs = signs]
    /\ UNCHANGED <<tree, staged, log, draft, dialog, editVars>>

\* Repository::commit, one git command after the other.
CheckStaged ==
    /\ commit.pc = "check"
    /\ commit' = [commit EXCEPT !.pc = IF ForeignStaged \/ ManagedPaths = {} THEN "failed" ELSE "add",
                                !.paths = ManagedPaths]
    /\ UNCHANGED <<tree, staged, log, draft, dialog, editVars>>
StageManaged ==
    /\ commit.pc = "add"
    /\ staged' = [f \in Files |-> IF f \in commit.paths THEN tree[f] ELSE staged[f]]
    /\ commit' = [commit EXCEPT !.pc = IF commit.signs THEN "sign" ELSE "commit"]
    /\ UNCHANGED <<tree, log, draft, dialog, editVars>>

\* serve_until: the TUI's agent answers, refuses, or the connection is lost and
\* git's signing program gets no answer; the commit's thread goes on.
Sign(signed) ==
    /\ commit.pc = "sign" /\ (signed => commit.heard)
    /\ commit' = [commit EXCEPT !.pc = IF signed THEN "commit" ELSE "failed"]
    /\ UNCHANGED <<tree, staged, log, draft, dialog, editVars>>
LoseFrontend ==
    /\ commit.pc \in {"check", "add", "sign", "commit"} /\ commit.heard
    /\ commit' = [commit EXCEPT !.heard = FALSE]
    /\ UNCHANGED <<tree, staged, log, draft, dialog, editVars>>

\* What a commit of these paths holds: the working tree's content of the paths,
\* and of everything else what the commit it builds on holds.
Parent == IF commit.amend /\ log # <<>> THEN Front(log) ELSE log
\* Mutant: git commit without `-- paths' commits the index.
CommittedIndex(paths) == staged
Committed(paths) == [f \in Files |-> IF f \in paths THEN tree[f] ELSE Head0[f]]
MakeCommit ==
    LET new == Committed(commit.paths)
        nothing == ~commit.amend /\ new = Head0
    IN  /\ commit.pc = "commit"
        /\ IF nothing \/ (commit.amend /\ log = <<>>)
           THEN commit' = [commit EXCEPT !.pc = "failed"] /\ UNCHANGED <<log, staged>>
           ELSE /\ Len(Parent) < MaxCommits
                /\ log' = Append(Parent, new)
                /\ staged' = [f \in Files |-> IF f \in commit.paths THEN tree[f] ELSE staged[f]]
                /\ commit' = [commit EXCEPT !.pc = "made"]
        /\ UNCHANGED <<tree, draft, dialog, editVars>>

\* committed() closes the dialog and drops the draft; a failure keeps both.
Report ==
    /\ commit.pc \in {"made", "failed"}
    /\ commit' = NoCommit
    /\ IF commit.pc = "made" /\ commit.heard THEN draft' = NoDraft /\ dialog' = Closed
       ELSE UNCHANGED <<draft, dialog>>
    /\ UNCHANGED <<tree, staged, log, editVars>>

-----------------------------------------------------------------------------
\* The shell of the repository's owner.
Shell ==
    /\ \/ /\ staged["other"] < MaxOther
          /\ staged' = [staged EXCEPT !["other"] = @ + 1] /\ UNCHANGED log
       \/ staged' = [staged EXCEPT !["other"] = Head0["other"]] /\ UNCHANGED log
       \/ /\ Len(log) < MaxCommits /\ staged # Head0
          /\ log' = Append(log, staged) /\ UNCHANGED staged
    /\ UNCHANGED <<tree, draft, dialog, commit, editVars>>

\* A profile is saved.
SaveProfiles ==
    /\ tree["profiles"] < MaxOther
    /\ tree' = [tree EXCEPT !["profiles"] = @ + 1]
    /\ UNCHANGED <<staged, log, draft, dialog, commit, editVars>>

\* Mutant: the index is asked instead of the last commit.
CommitStateStaged(seen) == IF seen = 0 THEN "unset"
                           ELSE IF staged["store"] = seen THEN "committed" ELSE "uncommitted"
\* commit_state: is the record it read the one in the last commit?
CommitState(seen) == IF seen = 0 THEN "unset"
                     ELSE IF Head0["store"] = seen THEN "committed" ELSE "uncommitted"

\* submit and write: a save is queued; when the queue is full, its value is kept
\* in a dialog that offers to try again.
SubmitSave(seen, warned) ==
    IF Len(saves) + (IF Committing THEN 1 ELSE 0) < MaxSaves
    THEN /\ saves' = Append(saves, [what |-> "replace", seen |-> seen, warned |-> warned, pc |-> "queued", got |-> 0])
         /\ entry' = NoEntry
    ELSE /\ entry' = [at |-> "failed", what |-> "replace", seen |-> seen, warned |-> warned]
         /\ UNCHANGED saves

\* submit_entry and the key d: a row that is shown as set asks first, on a
\* connection of its own; the backend reads the record, then asks git.
Ask(what) == entry' = [NoEntry EXCEPT !.at = "reading", !.what = what, !.seen = tree["store"]]
Edit ==
    /\ Free /\ entry' = [NoEntry EXCEPT !.at = "edit"]
    /\ UNCHANGED <<tree, repoVars, made, view, saves, failed>>
Enter ==
    /\ entry.at = "edit"
    /\ IF view.row THEN Ask("replace") /\ UNCHANGED saves ELSE SubmitSave(0, FALSE)
    /\ UNCHANGED <<tree, repoVars, made, view, failed>>
AskDelete ==
    /\ Free /\ view.row
    /\ Ask("delete")
    /\ UNCHANGED <<tree, repoVars, made, view, saves, failed>>
\* git, or the connection, may not answer: that counts as uncommitted.
Compare(answers) ==
    /\ entry.at = "reading"
    /\ entry' = [entry EXCEPT !.at = "asked",
                              !.warned = ~answers \/ CommitState(entry.seen) = "uncommitted"]
    /\ UNCHANGED <<tree, repoVars, made, view, saves, failed>>

\* y, or ConfirmLoss when the value may be lost.  A deletion is refused while
\* another operation runs.
Confirm ==
    /\ entry.at = "asked"
    /\ CASE entry.what = "replace" -> SubmitSave(entry.seen, entry.warned)
         [] entry.what = "delete" /\ Busy -> entry' = NoEntry /\ UNCHANGED saves
         [] OTHER -> /\ saves' = <<[what |-> "delete", seen |-> entry.seen, warned |-> entry.warned,
                                    pc |-> "queued", got |-> 0]>>
                     /\ entry' = NoEntry
    /\ UNCHANGED <<tree, repoVars, made, view, failed>>
\* n or Escape: the entry field keeps the value, and Escape there drops it.
Refuse ==
    /\ entry.at \in {"edit", "asked", "failed"}
    /\ entry' = IF entry.at = "edit" \/ entry.what = "delete" THEN NoEntry ELSE [NoEntry EXCEPT !.at = "edit"]
    /\ UNCHANGED <<tree, repoVars, made, view, saves, failed>>
\* A failed save is tried again without another question.
Retry ==
    /\ entry.at = "failed"
    /\ SubmitSave(entry.seen, entry.warned)
    /\ UNCHANGED <<tree, repoVars, made, view, failed>>

-----------------------------------------------------------------------------
\* The worker takes the next operation.
Works(what, pc) == saves # <<>> /\ Head(saves).what = what /\ Head(saves).pc = pc /\ ~Committing
Goes(pc, got) == saves' = [saves EXCEPT ![1].pc = pc, ![1].got = got]

\* Controller::write: an unconditional Set, whose answer may be lost.
Save ==
    /\ Works("replace", "queued") /\ made < MaxEdit
    /\ made' = made + 1 /\ tree' = [tree EXCEPT !["store"] = made + 1]
    /\ \E pc \in {"done", "failed"} : Goes(pc, 0)
    /\ UNCHANGED <<repoVars, view, entry, failed>>
\* Controller::delete: the version it finds is the only one it removes.
DeleteReads ==
    /\ Works("delete", "queued")
    /\ Goes(IF tree["store"] = 0 THEN "failed" ELSE "got", tree["store"])
    /\ UNCHANGED <<tree, repoVars, made, view, entry, failed>>
DeleteRemoves ==
    /\ Works("delete", "got")
    /\ IF tree["store"] = Head(saves).got
       THEN tree' = [tree EXCEPT !["store"] = 0] /\ \E pc \in {"done", "failed"} : Goes(pc, 0)
       ELSE UNCHANGED tree /\ Goes("failed", 0)
    /\ UNCHANGED <<repoVars, made, view, entry, failed>>
\* The provider or the connection fails before anything is changed.
OperationFails ==
    /\ saves # <<>> /\ Head(saves).pc \in {"queued", "got"} /\ ~Committing
    /\ Goes("failed", 0)
    /\ UNCHANGED <<tree, repoVars, made, view, entry, failed>>

\* apply_completion: the row, or the dialog that keeps the value of a failed save.
Completed ==
    /\ saves # <<>> /\ Head(saves).pc \in {"done", "failed"} /\ entry.at # "reading"
    /\ saves' = Tail(saves)
    /\ IF Head(saves).pc = "done"
       THEN view' = [view EXCEPT !.row = Head(saves).what = "replace"] /\ UNCHANGED failed
       ELSE /\ failed' = IF Head(saves).what = "replace" THEN Append(failed, Head(saves)) ELSE failed
            /\ UNCHANGED view
    /\ UNCHANGED <<tree, repoVars, made, entry>>
ShowFailure ==
    /\ failed # <<>> /\ Browses
    /\ entry' = [at |-> "failed", what |-> "replace", seen |-> Head(failed).seen, warned |-> Head(failed).warned]
    /\ failed' = Tail(failed)
    /\ UNCHANGED <<tree, repoVars, made, view, saves>>

\* The listener lists the store after an event; the TUI shows it once it browses.
List ==
    /\ view' = [view EXCEPT !.listed = {tree["store"] # 0}]
    /\ UNCHANGED <<tree, repoVars, made, entry, saves, failed>>
ShowRows ==
    /\ Browses
    /\ \E set \in view.listed : view' = [listed |-> {}, row |-> set]
    /\ UNCHANGED <<tree, repoVars, made, entry, saves, failed>>

\* Another writer stores or removes the value.
OtherWrite ==
    /\ made < MaxEdit
    /\ made' = made + 1 /\ tree' = [tree EXCEPT !["store"] = made + 1]
    /\ UNCHANGED <<repoVars, view, entry, saves, failed>>
OtherRemove ==
    /\ tree["store"] # 0
    /\ tree' = [tree EXCEPT !["store"] = 0]
    /\ UNCHANGED <<repoVars, made, view, entry, saves, failed>>

GitNext ==
    \/ Open \/ Type \/ Escape \/ \E signs \in BOOLEAN : SubmitCommit(signs)
    \/ CheckStaged \/ StageManaged \/ \E signed \in BOOLEAN : Sign(signed)
    \/ LoseFrontend \/ MakeCommit \/ Report
    \/ Shell \/ SaveProfiles
    \/ Edit \/ Enter \/ AskDelete \/ (\E answers \in BOOLEAN : Compare(answers)) \/ Confirm \/ Refuse \/ Retry
    \/ Save \/ DeleteReads \/ DeleteRemoves \/ OperationFails \/ Completed \/ ShowFailure
    \/ List \/ ShowRows \/ OtherWrite \/ OtherRemove

-----------------------------------------------------------------------------
\* A commit of the backend changes nothing but the managed files, whatever a
\* shell stages after foreign_staged looked and before git commits (git.rs: "so
\* the operator never commits unrelated work by accident").
OnlyManagedCommitted ==
    [][(commit.pc = "commit" /\ commit'.pc = "made") =>
          \A f \in Files \ Managed : Last(log')[f] = Head0[f]]_gitVars

\* The TUI's worker replaces or removes a stored value.
Overwrites == saves' # saves /\ tree'["store"] # tree["store"] /\ tree["store"] # 0

\* A value the operator was asked about is never replaced or deleted without the
\* loss warning unless it is in the last commit at that moment: whatever was
\* staged, committed or amended between the question and the save, however long
\* that waited, and however often it failed and was tried again without asking
\* (store/committed.rs, ui/edit.rs submit_entry, ui/provider_failure.rs).
NoSilentLoss ==
    [][(Overwrites /\ Head(saves).seen = tree["store"]) =>
          Head(saves).warned \/ Head0["store"] = tree["store"]]_gitVars

\* The broader claim of store/committed.rs:3-4, for an entered value: a stored
\* value that only the working tree holds is overwritten after the warning alone.
WarnsFirst ==
    [][(Overwrites /\ tree'["store"] # 0) =>
          Head(saves).warned \/ Head0["store"] = tree["store"]]_gitVars
=============================================================================
