----------------------------- MODULE ReadyWaiter -----------------------------
(***************************************************************************)
(* The unit that holds a service back until its secrets are in place       *)
(* (secrets-ready-waiter): main.rs polls the tree once a second,           *)
(* progress.rs decides what to publish, report.rs lists the overdue units. *)
(*                                                                         *)
(* A poll inspects the declared secrets one after the other, each in the   *)
(* generation that `.current` names at that moment, while deployments go   *)
(* on.  A secret is in place, missing (absent, or with another owner, mode *)
(* or ACL), relinked (its service's link, outside the generation, is not   *)
(* the required one) or odd (its file cannot be inspected); the last two   *)
(* end the poll with an error.                                             *)
(***************************************************************************)
EXTENDS Naturals, Sequences

CONSTANTS DeclaredSecrets,       \* the manifest's secrets, in order
          StatusInterval, \* refresh of an unchanged status (30 polls)
          LogInterval,    \* refresh of an unchanged log line (600 polls)
          MaxPolls,       \* bound: polls
          MaxTreeChanges  \* bound: deployments and damages

ASSUME WaiterBounds == /\ StatusInterval \in Nat \ {0} /\ LogInterval \in Nat \ {0}
                       /\ MaxPolls \in Nat /\ MaxTreeChanges \in Nat

VARIABLES secretTree, \* secret -> its state in the current generation
          poll,     \* the poll: where it is and what it found
          progress, \* struct Progress
          status,   \* the unit's StatusText and when it was published
          journal,  \* the last line logged
          clock,    \* polls since the waiter started
          treeLeft  \* changes of the tree left

waiterVars == <<secretTree, poll, progress, status, journal, clock, treeLeft>>

ExpectedSecrets == {DeclaredSecrets[i] : i \in DOMAIN DeclaredSecrets}
Nothing == [kind |-> "none", missing |-> <<>>]
Never == MaxPolls + 1
IdlePoll == [pc |-> "next", at |-> 1, read |-> FALSE, pruned |-> FALSE, missing |-> <<>>, last |-> Nothing]

WaiterInit ==
    /\ secretTree \in [ExpectedSecrets -> {"ready", "missing", "odd", "relinked"}]
    /\ poll = IdlePoll /\ clock = 0 /\ treeLeft = MaxTreeChanges
    /\ progress = [missing |-> <<>>, error |-> FALSE, lastStatus |-> Never, lastLog |-> Never]
    /\ status = [text |-> Nothing, since |-> 0, lost |-> FALSE] /\ journal = Nothing

-----------------------------------------------------------------------------
(* progress.rs.                                                            *)

Due(last, interval) == last = Never \/ clock - last >= interval

\* Mutant: the time of the last status is noted at every poll.
EmitNoting(text, changed, logNow, p) ==
    LET shown == changed \/ Due(p.lastStatus, StatusInterval)
        logged == logNow \/ Due(p.lastLog, LogInterval)
    IN  /\ progress' = [p EXCEPT !.lastStatus = clock, !.lastLog = IF logged THEN clock ELSE @]
        /\ journal' = IF logged THEN text ELSE journal
        /\ IF ~shown THEN status' = status
           ELSE status' \in {[text |-> text, since |-> clock, lost |-> FALSE], [status EXCEPT !.lost = TRUE]}

\* emit, and publish_status: a status that cannot be sent is lost.
Emit(text, changed, logNow, p) ==
    LET shown == changed \/ Due(p.lastStatus, StatusInterval)
        logged == logNow \/ Due(p.lastLog, LogInterval)
    IN  /\ progress' = [p EXCEPT !.lastStatus = IF shown THEN clock ELSE @, !.lastLog = IF logged THEN clock ELSE @]
        /\ journal' = IF logged THEN text ELSE journal
        /\ IF ~shown THEN status' = status
           ELSE status' \in {[text |-> text, since |-> clock, lost |-> FALSE], [status EXCEPT !.lost = TRUE]}

\* observe: the error is taken only where the missing list is the same.
Observe(missing) ==
    LET differs == progress.missing # missing IN
    Emit([kind |-> "missing", missing |-> missing], differs \/ progress.error, FALSE,
         [progress EXCEPT !.missing = missing, !.error = differs /\ progress.error])

\* observe_error.
ObserveError ==
    Emit([kind |-> "error", missing |-> <<>>], ~progress.error, ~progress.error,
         [progress EXCEPT !.error = TRUE, !.missing = IF progress.error THEN @ ELSE <<>>])

-----------------------------------------------------------------------------
(* One poll.                                                               *)

\* current_generation: there is one, or the secret is missing.
ReadCurrent ==
    /\ poll.pc = "looking" /\ ~poll.read
    /\ poll' = [poll EXCEPT !.read = TRUE, !.pruned = FALSE]
    /\ UNCHANGED <<secretTree, progress, status, journal, clock, treeLeft>>

Slept(last) == [IdlePoll EXCEPT !.last = last]

\* secret_is_ready_at: the link is looked at first, then the file in the
\* generation that was read, which may be gone by now.
Uninspectable(s) == secretTree[s] = "relinked" \/ (~poll.pruned /\ secretTree[s] = "odd")

\* missing_secrets, up to and with secret s.
MissingWith(s) ==
    IF poll.pruned \/ secretTree[s] = "missing" THEN Append(poll.missing, s) ELSE poll.missing

InspectSecret ==
    LET s == DeclaredSecrets[poll.at]
        missing == MissingWith(s)
    IN  /\ poll.pc = "looking" /\ poll.read
        /\ IF Uninspectable(s)
           THEN /\ ObserveError
                /\ poll' = Slept([kind |-> "error", missing |-> <<>>])
           ELSE IF poll.at < Len(DeclaredSecrets)
           THEN /\ poll' = [poll EXCEPT !.at = @ + 1, !.read = FALSE, !.missing = missing]
                /\ UNCHANGED <<progress, status, journal>>
           ELSE IF missing # <<>>
           THEN Observe(missing) /\ poll' = Slept([kind |-> "missing", missing |-> missing])
           ELSE /\ poll' = [poll EXCEPT !.pc = "ready"]
                /\ IF progress.lastStatus = Never THEN status' = status
                   ELSE status' \in {[text |-> [kind |-> "ready", missing |-> <<>>], since |-> clock, lost |-> FALSE],
                                     [status EXCEPT !.lost = TRUE]}
                /\ UNCHANGED <<progress, journal>>
        /\ UNCHANGED <<secretTree, clock, treeLeft>>

\* A second later.
StartPoll ==
    /\ poll.pc = "next" /\ clock < MaxPolls
    /\ clock' = clock + 1
    /\ poll' = [poll EXCEPT !.pc = "looking"]
    /\ UNCHANGED <<secretTree, progress, status, journal, treeLeft>>

\* --once: a first poll that has to wait is the end; nothing is published.
EndOnce ==
    /\ poll.pc = "looking" /\ poll.read /\ clock = 1
    /\ LET s == DeclaredSecrets[poll.at] IN
       Uninspectable(s) \/ (poll.at = Len(DeclaredSecrets) /\ MissingWith(s) # <<>>)
    /\ poll' = [poll EXCEPT !.pc = "not ready"]
    /\ UNCHANGED <<secretTree, progress, status, journal, clock, treeLeft>>

\* A deployment puts secrets in place; between reading `.current` and the look,
\* it may have pruned the generation that was read.
DeploySecrets(ss, prune) ==
    /\ treeLeft > 0 /\ treeLeft' = treeLeft - 1
    /\ secretTree' = [s \in ExpectedSecrets |-> IF s \in ss THEN "ready" ELSE secretTree[s]]
    /\ poll' = [poll EXCEPT !.pruned = @ \/ (prune /\ poll.read)]
    /\ UNCHANGED <<progress, status, journal, clock>>
\* A file loses its owner, or its service's link is replaced.
Damage(s, as) ==
    /\ treeLeft > 0 /\ treeLeft' = treeLeft - 1
    /\ secretTree' = [secretTree EXCEPT ![s] = as]
    /\ UNCHANGED <<poll, progress, status, journal, clock>>

WaiterNext ==
    \/ StartPoll \/ ReadCurrent \/ InspectSecret \/ EndOnce
    \/ \E ss \in SUBSET ExpectedSecrets, prune \in BOOLEAN : DeploySecrets(ss, prune)
    \/ \E s \in ExpectedSecrets, as \in {"missing", "odd", "relinked"} : Damage(s, as)

WaiterSpec == WaiterInit /\ [][WaiterNext]_waiterVars

\* report.rs overdue: a unit still activating after `after` polls is named with
\* the status it published.
Overdue(after) == IF poll.pc \in {"next", "looking"} /\ clock >= after THEN {status.text} ELSE {}

-----------------------------------------------------------------------------
\* What a waiting unit is listed with by the long-wait report is what its last
\* poll found, although unchanged findings are not published and errors come and
\* go between polls.  Only an error may be missing from it, for less than a
\* refresh interval: after an error and a changed list the next error counts as
\* unchanged (progress.rs observe takes the error only where the list is the
\* same).  A status that could not be sent is the other exception (main.rs poll:
\* "the waiter keeps waiting with the reason in its status").
ReportIsRecent ==
    (poll.pc = "next" /\ clock > 0 /\ ~status.lost) =>
       \A text \in Overdue(1) :
          text = poll.last \/ (poll.last.kind = "error" /\ clock - status.since < StatusInterval)
=============================================================================
