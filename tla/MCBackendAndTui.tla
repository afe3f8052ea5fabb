-------------------------- MODULE MCBackendAndTui --------------------------
(***************************************************************************)
(* Small instances of the components in which the backend's threads and    *)
(* the TUI meet: procedures and their dialogs, the store and its event     *)
(* feed, commits, and the calls for the operator.  The initial state       *)
(* chooses a scene, the component that moves; the others rest in one of    *)
(* their initial states, so what TLC explores is the sum of the            *)
(* components' state spaces and not their product.                         *)
(***************************************************************************)
EXTENDS ProcedureDialogs, StoreFeed, GitCommits, Attention

CONSTANTS r1, r2, c1, d1, p1, p2  \* requests and procedures

VARIABLE scene

\* The request r2 belongs to no procedure; every procedure declares two steps.
MCHome(r) == IF r = r2 THEN Alone ELSE p1
MCDeclared(p) == 2

\* A deployment meets a prompt, of its procedure or of none; a request or a
\* confirmation alone meets a report; two procedures meet when nothing is asked.
ProceduresScene ==
    LET asks == {r \in Requests : ask[r] = "new"} IN
    /\ Cardinality(asks) + budget <= 2
    /\ Cardinality(asks) = 2 => d1 \in asks /\ c1 \notin asks
    /\ phase[p2] = "new" => phase[p1] = "new" /\ asks = {} /\ budget = 0
ProceduresRest ==
    /\ budget = 0 /\ ask = [r \in Requests |-> "over"] /\ phase = [p \in Procs |-> "over"]

\* Commits are seen in two scenes: with every file, signature and lost connection
\* while other writers store the value and nothing is entered in this TUI, and
\* with everything that is entered, one save at a time beside one commit that is
\* made and amended, while only the stored value changes.
Commits == UNCHANGED <<view, entry, saves, failed>>
Edits ==
    /\ tree'["profiles"] = 0 /\ staged'["other"] = 0 /\ ~commit'.signs /\ commit'.heard
    /\ Len(saves') + Len(failed') <= 1 /\ Len(log') <= 1 /\ (draft'.amend => draft'.text)

Scenes == {"procedures", "store", "commits", "edits", "attention"}

ComponentsInit ==
    /\ scene \in Scenes
    /\ ProcedureInit /\ IF scene = "procedures" THEN ProceduresScene ELSE ProceduresRest
    /\ StoreInit /\ GitInit /\ AttentionInit

\* A component that is not on stage.
Rests(s, component) == IF scene = s THEN TRUE ELSE UNCHANGED component

ComponentsNext ==
    /\ UNCHANGED scene
    /\ Rests("procedures", procedureVars) /\ Rests("store", storeVars)
    /\ IF scene \in {"commits", "edits"} THEN TRUE ELSE UNCHANGED gitVars
    /\ Rests("attention", attentionVars)
    /\ \/ scene = "procedures" /\ ProcedureNext
       \/ scene = "store" /\ StoreNext
       \/ scene = "commits" /\ GitNext /\ Commits
       \/ scene = "edits" /\ GitNext /\ Edits
       \/ scene = "attention" /\ AttentionNext

ComponentsSpec ==
    ComponentsInit /\ [][ComponentsNext]_<<scene, procedureVars, storeVars, gitVars, attentionVars>>

\* What tells two states of the run apart: the others never move.
SceneView ==
    <<scene, CASE scene = "procedures" -> procedureVars [] scene = "store" -> storeVars
               [] scene \in {"commits", "edits"} -> gitVars [] OTHER -> attentionVars>>
=============================================================================
