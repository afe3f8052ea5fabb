---------------------------- MODULE PublicDefault ----------------------------
(***************************************************************************)
(* The two units that install values without an operator, beside the       *)
(* operator's own deployments: the declared default of one public leaf     *)
(* (deploy/src/public_default.rs) and, on a test machine, the mock values  *)
(* of every leaf (deploy/src/mock.rs).                                     *)
(*                                                                         *)
(* A value is its contents and its version.  A default's version is the    *)
(* hash of its contents and is named like them; an operator's deployment   *)
(* may carry any version.  Publishing a generation is atomic               *)
(* (GenerationDeploy) and happens under the deployment lock.               *)
(***************************************************************************)
EXTENDS Naturals

CONSTANTS Defaults,   \* contents a configuration may declare as the default
          MaxChanges  \* bound: deployments, rebuilds, edits, crashes

ASSUME DefaultBounds == MaxChanges \in Nat
ASSUME DefaultNamed == "none" \notin Defaults

VARIABLES installed,  \* leaf -> [version, content], or Absent
          provenance, \* the version the default's unit recorded installing
          declared,   \* the configuration: the store's value or a fallback
          unit,       \* the default's unit
          mock,       \* the mock unit
          ours,       \* contents the default's unit ever installed
          changes     \* changes left

defaultVars == <<installed, provenance, declared, unit, mock, ours, changes>>

PublicLeaf == "known_hosts"
FramedLeaf == "derived"
Base == "source"
Leaves == {PublicLeaf, Base, FramedLeaf}
Absent == [version |-> "none", content |-> "none", framed |-> FALSE]
\* What an operator deploys: other contents, or a default's, under any version.
OperatorValues == [version : Defaults \union {"op"}, content : Defaults \union {"op"},
                   framed : {FALSE}]
Mocked == [version |-> "mock", content |-> "mock", framed |-> FALSE]
\* A derived leaf frames its source's contents under a version of its own.
FramedFrom(v) == [v EXCEPT !.framed = TRUE]

\* A declaration names the store's value, whether the host's schema accepts it
\* (validate_ssh_known_hosts), and the leaf's own valid defaultValue if any.
Declarations == [source : Defaults, fits : BOOLEAN, fallback : Defaults \union {"none"}]

IdleUnit == [pc |-> "idle", value |-> Absent]

DefaultInit ==
    /\ installed = [l \in Leaves |-> Absent] /\ provenance = "none"
    /\ declared \in Declarations /\ ours = {}
    /\ unit = IdleUnit /\ mock = [pc |-> "idle", values |-> [l \in Leaves |-> Absent]]
    /\ changes = MaxChanges

Change == changes > 0 /\ changes' = changes - 1
\* The deployment lock is held from the decision to the record.
LockFree == unit.pc # "recording"

\* usable_default: the store's value when it fits this host, else the fallback,
\* else nothing.
UsableDefault ==
    LET c == IF declared.fits THEN declared.source ELSE declared.fallback
    IN  [version |-> c, content |-> c, framed |-> FALSE]

\* install_public_default up to the lock: the fast path trusts the version.
StartUnit ==
    /\ unit.pc = "idle"
    /\ installed[PublicLeaf].version # declared.source
    /\ UsableDefault # Absent
    /\ unit' = [pc |-> "locking", value |-> UsableDefault]
    /\ UNCHANGED <<installed, provenance, declared, mock, ours, changes>>

\* Mutant: the version alone tells whose the value is.
DecideByVersion ==
    LET there == installed[PublicLeaf] IN
    IF there = Absent THEN "install"
    ELSE IF there.version = unit.value.version THEN "unchanged"
    ELSE IF provenance = there.version THEN "replace" ELSE "keep"

\* decide: an installed value is replaced only when this unit recorded exactly
\* its version and the file still has the contents that version is the hash of.
Decide ==
    LET there == installed[PublicLeaf] IN
    IF there = Absent THEN "install"
    ELSE IF there.version = unit.value.version THEN "unchanged"
    ELSE IF provenance = there.version /\ there.content = there.version THEN "replace" ELSE "keep"

\* deploy_if: recovery, the decision and the publication, under the lock.
DecideAndPublish ==
    /\ unit.pc = "locking"
    /\ IF Decide \in {"install", "replace"}
       THEN /\ installed' = [installed EXCEPT ![PublicLeaf] = unit.value]
            /\ ours' = ours \union {unit.value.content}
            /\ unit' = [unit EXCEPT !.pc = "recording"]
       ELSE unit' = IdleUnit /\ UNCHANGED <<installed, ours>>
    /\ UNCHANGED <<provenance, declared, mock, changes>>

\* record_installed_by_default, still under the lock.
RecordInstalled ==
    /\ unit.pc = "recording"
    /\ provenance' = unit.value.version
    /\ unit' = IdleUnit
    /\ UNCHANGED <<installed, declared, mock, ours, changes>>

\* A crash or an error; after the publication the value has no record.
UnitEnds ==
    /\ Change /\ unit.pc # "idle"
    /\ unit' = IdleUnit
    /\ UNCHANGED <<installed, provenance, declared, mock, ours>>

-----------------------------------------------------------------------------
\* mock_install: the leaves without a value are looked up with no lock held, and
\* each gets a mock value; a derived one frames the mock of its source, or the
\* value already installed there.
Pending == {l \in Leaves : installed[l] = Absent}
MockValue(l) ==
    IF l # FramedLeaf THEN Mocked
    ELSE FramedFrom(IF Base \in Pending THEN Mocked ELSE installed[Base])
StartMock ==
    /\ mock.pc = "idle" /\ Pending # {}
    /\ mock' = [pc |-> "publishing",
                values |-> [l \in Leaves |-> IF l \in Pending THEN MockValue(l) ELSE Absent]]
    /\ UNCHANGED <<installed, provenance, declared, unit, ours, changes>>

\* Some leaf has neither an explicit value nor generateRest: nothing is installed.
MockMissing ==
    /\ mock.pc = "publishing" /\ Change
    /\ mock' = [mock EXCEPT !.pc = "idle"]
    /\ UNCHANGED <<installed, provenance, declared, unit, ours>>

\* publish: deploy_together, both roots under their locks.
PublishMock ==
    /\ mock.pc = "publishing" /\ LockFree
    /\ installed' = [l \in Leaves |-> IF mock.values[l] # Absent THEN mock.values[l] ELSE installed[l]]
    /\ mock' = [mock EXCEPT !.pc = "idle"]
    /\ UNCHANGED <<provenance, declared, unit, ours, changes>>

-----------------------------------------------------------------------------
\* The receiver publishes what the operator deploys.
OperatorDeploys(l, v) ==
    /\ Change /\ LockFree
    /\ installed' = [installed EXCEPT ![l] = v]
    /\ UNCHANGED <<provenance, declared, unit, mock, ours>>
\* Somebody edits the installed file in place.
FileEdited ==
    /\ Change /\ installed[PublicLeaf] # Absent
    /\ installed' = [installed EXCEPT ![PublicLeaf].content = "op"]
    /\ UNCHANGED <<provenance, declared, unit, mock, ours>>
\* The host is rebuilt with another declaration.
Rebuilt(d) ==
    /\ Change /\ unit.pc = "idle"
    /\ declared' = d
    /\ UNCHANGED <<installed, provenance, unit, mock, ours>>

DefaultNext ==
    \/ StartUnit \/ DecideAndPublish \/ RecordInstalled \/ UnitEnds
    \/ StartMock \/ MockMissing \/ PublishMock \/ FileEdited
    \/ \E v \in OperatorValues : OperatorDeploys(PublicLeaf, v) \/ OperatorDeploys(Base, v)
    \/ \E d \in Declarations : Rebuilt(d)

-----------------------------------------------------------------------------
\* A declared default takes the place only of contents this unit itself put there
\* at some time, whatever versions an operator's deployments carry, however the
\* declaration changes, and wherever a run ends between publishing and recording
\* (decide: "The version alone proves nothing: anyone deploying may pick any
\* version").
DefaultYields ==
    [][(unit.pc = "locking" /\ unit'.pc = "recording" /\ installed[PublicLeaf] # Absent)
          => installed[PublicLeaf].content \in ours]_defaultVars
=============================================================================
