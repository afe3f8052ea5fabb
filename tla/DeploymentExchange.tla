------------------------- MODULE DeploymentExchange -------------------------
(***************************************************************************)
(* One host's deployment, from the plan to the report:                     *)
(* manager/src/controller.rs with unset.rs, preflight.rs, target.rs and    *)
(* quarantine.rs plan and send it, transport/src/deployment carries it,    *)
(* deploy/src/main.rs with tasks.rs, generate.rs and manifest.rs applies   *)
(* it on the target, and storagebox-bootstrap installs a backup key.       *)
(*                                                                         *)
(* A value is a pair of the version it is known by and its contents, both  *)
(* numbered in the order they came into being; the value derived from a    *)
(* source is that source's pair.  Version 0 with contents is a version no  *)
(* store uses, contents 0 with a version a file that is gone.  The store   *)
(* is edited by other operators at any time, and a receiver whose operator *)
(* went away goes on once it has its batch, beside the receiver of the     *)
(* next deployment.  Installing a generation is one step here;             *)
(* GenerationDeploy takes it apart.                                        *)
(***************************************************************************)
EXTENDS Integers, FiniteSets

CONSTANTS Values,         \* leaves: the host's, and sources of other hosts
          Own,            \* the host's leaves
          Kind(_),        \* how a leaf gets its value
          Source(_),      \* of a derived leaf, or a box key's known_hosts
          Optional,       \* leaves consumers do not require
          Minimum(_),     \* the protocol a leaf's declaration needs at least
          Requested,      \* the requests made of the host
          Receivers,      \* receiver processes, numbered
          MaxDeployments, \* bound: deployments one after the other
          MaxEvents       \* bound: edits of the store, lost connections, dead receivers

ASSUME ExchangeBounds == MaxDeployments \in Nat /\ MaxEvents \in Nat
\* A request names leaves of the host, and a source is a leaf.
ASSUME LeavesAssumption == /\ Own \subseteq Values /\ Requested \subseteq SUBSET Own
                           /\ \A i \in Values : Source(i) \in Values /\ Minimum(i) \in Nat

Generatable == {i \in Values : Kind(i) = "generatable"}
Derived == {i \in Values : Kind(i) = "derived"}
Tasks == {i \in Values : Kind(i) \in {"local key", "box key"}}
Shareable == Generatable \ Own          \* shared_generator
Enterable == {i \in Values : Kind(i) \notin {"derived", "local key"}}

VARIABLES stored,      \* leaf -> its value in the store
          quarantined, \* <<leaf, value>> kept apart from the store
          hosted,      \* leaf -> its value in the target's current generation
          box,         \* task -> the key its storage box accepts
          world,       \* what the schema does not decide: see Worlds
          op,          \* the operator's side of the deployment
          rx,          \* the receivers on the target
          serial,      \* values made so far
          events,      \* edits and faults left
          overlap      \* history: two receivers were at work at once

exchangeVars == <<stored, quarantined, hosted, box, world, op, rx, serial, events, overlap>>

None == [v |-> 0, c |-> 0]
Value(n) == [v |-> n, c |-> n]
Default == Value(1)                     \* the first value there is: a declared default
NoBatch == [entries |-> {}, given |-> [i \in Values |-> None], generate |-> {}, shared |-> {}, derive |-> {}]
NoPlan == [missing |-> {}, host |-> {}, generate |-> {}, shared |-> {}, derived |-> {}, framed |-> {}]
NoOp == [pc |-> "idle", at |-> 0, expected |-> {}, mismatch |-> {}, unchecked |-> {}, plan |-> NoPlan,
         left |-> {}, todo |-> {}, told |-> {}, edited |-> {}, result |-> "none"]
NoReceiver == [pc |-> "none", current |-> [i \in Values |-> None], selected |-> {}, batch |-> NoBatch,
               out |-> [i \in Values |-> None], records |-> {}, refused |-> {}, stranded |-> FALSE]

-----------------------------------------------------------------------------
\* What the target's activation and receiver make of the schema: `mismatch`,
\* leaves it lacks or declares otherwise; `generator`, generated in another
\* format; `refused`, values it will not install; `stale`, public information
\* whose first value the schema rejects; `foreign`, installed by something else
\* under a version of its own, `erased`, listed as installed without its file;
\* `protocol`, and whether it is `known`.  At most one of them is out of the
\* ordinary.
Plain == [mismatch |-> {}, generator |-> {}, refused |-> {}, stale |-> {}, foreign |-> {}, erased |-> {},
          protocol |-> 4, known |-> TRUE, request |-> {}]
Worlds(req) ==
    LET w == [Plain EXCEPT !.request = req]
    IN  {w} \union {[w EXCEPT !.mismatch = {i}] : i \in req}
        \union {[w EXCEPT !.generator = {i}] : i \in req \cap Generatable}
        \union {[w EXCEPT !.refused = {i}] : i \in req}
        \union {[w EXCEPT !.stale = {i}] : i \in {j \in req : Kind(j) = "public"}}
        \union {[w EXCEPT !.foreign = {i}] : i \in req \cap Generatable}
        \union {[w EXCEPT !.erased = {i}] : i \in req \cap Generatable}
        \union {[w EXCEPT !.protocol = old[1], !.known = old[2]] : old \in (1..3) \X BOOLEAN}

ExchangeInit ==
    \E req \in Requested : \E w \in Worlds(req) :
    \E set \in SUBSET (Enterable \cap (req \union {Source(i) : i \in req})) :
        /\ world = w /\ w.stale \subseteq set
        /\ stored = [i \in Values |-> IF i \in set THEN Default ELSE None]
        /\ hosted = [i \in Values |-> IF i \in w.foreign THEN [v |-> 0, c |-> 1]
                                      ELSE IF i \in w.erased THEN [v |-> 1, c |-> 0] ELSE None]
        /\ quarantined = {} /\ box = [i \in Values |-> 0]
        /\ op = NoOp /\ rx = [r \in Receivers |-> NoReceiver]
        /\ serial = 1 /\ events = MaxEvents /\ overlap = FALSE

Stale(i) == i \in world.stale /\ stored[i] = Default
\* plan_set: stored values, and requested public information with a default.
SetNow == {i \in Values : stored[i] # None} \union {i \in world.request : Kind(i) = "declared"}

-----------------------------------------------------------------------------
\* stored_problem, task_problem: what the schema shows the host cannot take.
NeedsProtocol(i, generate, framed, shared) ==
    LET made == IF i \in framed /\ Source(i) \in shared THEN 3 ELSE IF i \in generate \union framed THEN 2 ELSE 1
    IN  IF Minimum(i) > made THEN Minimum(i) ELSE made
KnownHostsAbsent(i, set) ==
    /\ Kind(i) = "box key" /\ ~Stale(Source(i))
    /\ ~(Source(i) \in set \cap world.request) /\ Kind(Source(i)) # "declared"

\* plan_unset and preflight::check.  Leaves are left out one by one, and a
\* derived value with its source, but a shared source stays in the plan when
\* all that is framed from it was left out.
Plan(set) ==
    LET req == world.request
        optional == {i \in req \cap Optional : (IF i \in Derived THEN Source(i) ELSE i) \notin set}
        stale == {i \in req : Stale(i)}
        rest == req \ (optional \union stale)
        derived == {i \in rest \cap Derived : Source(i) \in set}
        waiting == (rest \cap Derived) \ derived
        unset == {i \in rest \ Derived : i \notin set}
        generate == unset \cap Generatable
        framed == {i \in waiting : Source(i) \in generate \union Shareable}
        shared == {Source(i) : i \in framed} \ generate
        host == {i \in unset : Kind(i) = "host default"}
        missing == optional \union stale \union (waiting \ framed)
                   \union {i \in unset : Kind(i) \in {"entered", "public", "box key"}}
        cannot == {i \in req \ missing : \/ KnownHostsAbsent(i, set)
                                         \/ world.known /\ world.protocol < NeedsProtocol(i, generate, framed, shared)}
        lost == missing \union cannot
        late == {i \in framed : Source(i) \notin (generate \ lost) \union shared}
    IN  [missing |-> lost \union late, host |-> host, generate |-> generate \ lost,
         shared |-> shared, derived |-> derived, framed |-> framed \ late]

\* UnsetPlan::exclude_mismatches.
Exclude(p, mismatch) ==
    LET generate == p.generate \ mismatch
        framed == p.framed \ mismatch
        late == {i \in framed : Source(i) \notin generate \union p.shared}
    IN  [p EXCEPT !.generate = generate, !.framed = framed \ late, !.derived = @ \ mismatch,
                  !.host = @ \ mismatch, !.missing = @ \union mismatch \union late]
LeftOut(p) == p.missing \union p.host

\* expected_target: only what can be deployed is selected.
Expected(set) == world.request \ LeftOut(Plan(set))
\* The request is claimed.
SelectValues ==
    /\ op.pc = "idle" /\ op.at < MaxDeployments
    /\ LET expected == Expected(SetNow)
       IN  op' = [NoOp EXCEPT !.at = op.at + 1, !.expected = expected,
                              !.pc = IF expected = {} THEN "idle" ELSE "connecting"]
    /\ UNCHANGED <<stored, quarantined, hosted, box, world, rx, serial, events, overlap>>

Drop(r) == rx' = [rx EXCEPT ![r] = NoReceiver]
Failed(why) == [NoOp EXCEPT !.at = op.at, !.edited = op.edited, !.result = why]

\* compare_target: what the activation lacks or declares otherwise.
Mismatches(expected) == expected \cap world.mismatch
\* load_target_state, select_state: the target's answer to the selection.
TargetState(expected) == [NoReceiver EXCEPT !.pc = "selected", !.current = hosted, !.selected = expected]
\* PreparedDeployment::open; the receiver recovers and reads its versions.
OpenDeployer(r) ==
    /\ op.pc = "connecting" /\ rx[r].pc = "none" /\ \A q \in Receivers : rx[q].pc = "none" => r <= q
    /\ LET mismatch == Mismatches(op.expected)
       IN  IF mismatch # {} /\ world.protocol < 4
           THEN op' = Failed("mismatch") /\ UNCHANGED rx
           ELSE /\ op' = [op EXCEPT !.pc = "asking", !.mismatch = mismatch]
                /\ rx' = [rx EXCEPT ![r] = TargetState(op.expected)]
    /\ overlap' = (overlap \/ \E q \in Receivers : rx[q].pc # "none")
    /\ UNCHANGED <<stored, quarantined, hosted, box, world, serial, events>>

\* approval_details shows the plan; the operator unchecks rows and approves,
\* and deploy_active plans again from the store as it is then.
ApproveRows(unchecked) ==
    /\ op.pc = "asking"
    /\ op' = [op EXCEPT !.pc = "planned", !.plan = Exclude(Plan(SetNow), op.mismatch), !.unchecked = unchecked]
    /\ UNCHANGED <<stored, quarantined, hosted, box, world, rx, serial, events, overlap>>

-----------------------------------------------------------------------------
\* What deploy_active sends: a second read of the store, the rows unchecked
\* since, and what is framed from them.
Now == world.request \ LeftOut(op.plan)
Opened == op.expected \ op.mismatch
Checked(s) == s \ op.unchecked
Unframed == {i \in op.plan.framed : Source(i) \notin Checked(op.plan.generate \union op.plan.shared)}
Uncheck == ((Now \union op.plan.shared) \cap op.unchecked) \union Unframed
Sent == Now \ Uncheck
Supplied == {i \in Sent : i \notin op.plan.generate \union op.plan.framed}
FromStore(i) == IF i \in Derived THEN stored[Source(i)] ELSE stored[i]
TheBatch == [entries |-> Supplied,
             given |-> [i \in Values |-> IF i \notin Supplied THEN None
                                      ELSE IF Kind(i) = "declared" /\ stored[i] = None THEN Default
                                      ELSE FromStore(i)],
             generate |-> Checked(op.plan.generate), shared |-> Checked(op.plan.shared),
             derive |-> op.plan.framed \ Uncheck]
\* decrypt_for_deployment indexes the second read by the source of a derived
\* value: one that was removed since the plan panics.
SourceGone == {i \in Supplied \cap Derived : FromStore(i) = None}
BecameUnset == {i \in Supplied \ Derived : stored[i] = None /\ Kind(i) \notin {"local key", "declared"}}
\* verify_generators.
OtherFormat == TheBatch.generate \cap world.generator
Refusal == IF Opened # Now THEN "changed"
           ELSE IF Sent = {} /\ TheBatch.shared = {} THEN "nothing"
           ELSE IF (Uncheck # {} /\ world.protocol < 4) \/ (TheBatch.shared # {} /\ world.protocol < 3) THEN "old"
           ELSE IF SourceGone # {} THEN "panic"
           ELSE IF BecameUnset # {} THEN "unset"
           ELSE IF world.protocol < 2 /\ (TheBatch.generate \union TheBatch.derive) # {} THEN "old target"
           ELSE IF OtherFormat # {} THEN "generator"
           ELSE "none"

\* validate_batch: nothing twice, every framed value with its source, and what
\* is supplied, generated and framed is what is requested.
BatchValid(b) ==
    /\ b.entries \cap (b.generate \union b.derive) = {} /\ b.generate \cap b.derive = {}
    /\ \A i \in b.derive : Source(i) \in b.generate \union b.shared
    /\ b.shared \cap Own = {}
\* require_subset, or require_same_set before protocol 4.
MatchesSelection(b, selected) ==
    LET asked == b.entries \union b.generate \union b.derive
    IN  asked \subseteq selected /\ (world.protocol < 4 => asked = selected)

\* materialize_public_default: leaf by leaf, until one is found to be unset.
Unmaterialized == {i \in Supplied : Kind(i) = "declared" /\ stored[i] = None}
Materialize ==
    \E filled \in SUBSET Unmaterialized :
        /\ Refusal \in {"none", "old target", "generator"} => filled = Unmaterialized
        /\ Refusal \in {"changed", "nothing", "old", "panic"} => filled = {}
        /\ stored' = [i \in Values |-> IF i \in filled THEN Default ELSE stored[i]]

\* The batch, which the target checks.
SendBatch(r) ==
    /\ op.pc = "planned" /\ rx[r].pc = "selected"
    /\ IF Refusal # "none"
       THEN op' = Failed(Refusal) /\ Drop(r)
       ELSE IF ~(BatchValid(TheBatch) /\ MatchesSelection(TheBatch, rx[r].selected))
       THEN op' = Failed("invalid") /\ Drop(r)
       ELSE /\ op' = [op EXCEPT !.pc = "waiting", !.left = Uncheck]
            /\ rx' = [rx EXCEPT ![r].pc = "tasks", ![r].batch = TheBatch]
    /\ Materialize
    /\ UNCHANGED <<quarantined, hosted, box, world, serial, events, overlap>>

-----------------------------------------------------------------------------
\* The target.  A batch it rejects ends the receiver; so does an answer sent.
Rejected(r) ==
    /\ Drop(r)
    /\ op' = IF rx[r].stranded THEN op ELSE Failed("rejected")

\* Mutant: the installed key is never used again.
KeyAnew(i) == Value(serial + 1)
\* read_existing_key: a key on the target is kept.
Key(i) == IF hosted[i] # None THEN hosted[i] ELSE Value(serial + 1)

\* read_attested_known_hosts: from the batch, or installed and still valid.
KnownHosts(b, i) == \/ Source(i) \in b.entries
                    \/ hosted[Source(i)] # None /\ ~(Source(i) \in world.stale /\ hosted[Source(i)] = Default)
\* merge_authorized_keys: the line marked for a task names its key alone.
Authorize(keys) == [i \in Values |-> IF i \in keys THEN Key(i).c ELSE box[i]]

\* Engine::run: the key, under the version of the task's input.
TaskOutput(b, i) == [v |-> b.given[i].v, c |-> Key(i).c]

\* run_generated_tasks_with: a key per task; a box key is put on the storage
\* box at once, with the known_hosts of the batch or of the target.
RunTasks(r) ==
    LET b == rx[r].batch
        run == b.entries \cap Tasks
        absent == {i \in run : Kind(i) = "box key" /\ ~KnownHosts(b, i)}
        made == run \ absent
        keys == {i \in made : Kind(i) = "box key"}
    IN  /\ rx[r].pc = "tasks"
        /\ rx' = [rx EXCEPT ![r].pc = "values", ![r].refused = absent,
                            ![r].out = [i \in Values |-> IF i \in made THEN TaskOutput(b, i)
                                                      ELSE IF i \in b.entries \ Tasks THEN b.given[i] ELSE None]]
        /\ box' = Authorize(keys)
        /\ serial' = IF made = {} THEN serial ELSE serial + 1
        /\ UNCHANGED <<stored, quarantined, hosted, world, op, events, overlap>>

\* Some of the keys of the batch are on their boxes when the batch ends early.
SomeAuthorized(r) ==
    \E keys \in SUBSET {i \in rx[r].batch.entries : Kind(i) = "box key" /\ KnownHosts(rx[r].batch, i)} :
        box' = Authorize(keys) /\ serial' = IF keys = {} THEN serial ELSE serial + 1

\* A task fails: the storage box refuses the connection or the password.
TaskFails(r) ==
    /\ rx[r].pc = "tasks" /\ rx[r].batch.entries \cap Tasks # {} /\ events > 0
    /\ events' = events - 1
    /\ SomeAuthorized(r)
    /\ Rejected(r)
    /\ UNCHANGED <<stored, quarantined, hosted, world, overlap>>

\* Mutant: an installed value is generated again.
ProducedAnew(r, i) == Value(serial + 1)
\* run_value_generation: a value that was installed when the connection was
\* opened is adopted, under the version it had then, or a new one if no store
\* could use that.
Produced(r, i) ==
    IF i \in Own /\ rx[r].current[i] # None /\ hosted[i].c # 0
    THEN [v |-> IF rx[r].current[i].v = 0 THEN serial + 1 ELSE rx[r].current[i].v, c |-> hosted[i].c]
    ELSE Value(serial + 1)

\* generate_shared: another host's value only for a value framed from it here.
Unneeded(b) == {i \in b.shared : ~\E j \in b.derive : Source(j) = i}

GenerateValues(r) ==
    LET b == rx[r].batch
        made == b.generate \union b.shared
        unused == Unneeded(b)
    IN  /\ rx[r].pc = "values"
        /\ IF unused # {} THEN Rejected(r)
           ELSE /\ rx' = [rx EXCEPT ![r].pc = "publishing",
                           ![r].records = {<<i, Produced(r, i)>> : i \in made},
                           ![r].out = [i \in Values |-> IF i \in b.generate THEN Produced(r, i)
                                                     ELSE IF i \in b.derive THEN Produced(r, Source(i))
                                                     ELSE @[i]]]
                /\ UNCHANGED op
        /\ serial' = IF made = {} \/ unused # {} THEN serial ELSE serial + 1
        /\ UNCHANGED <<stored, quarantined, hosted, box, world, events, overlap>>

\* expected_from_destination, resolve_contents: no such owner, invalid contents.
Unfit(r) == {i \in world.refused : rx[r].out[i] # None}

\* Mutant: what the activation refuses is dropped without a word.
RefusedUnnamed(r) == rx[r].refused
\* validate_manifest leaves out what the activation refuses, and says so.
RefusedThere(r) == rx[r].refused \union Unfit(r)

\* validate_manifest: what is installed of what was supplied or made.
Resolved(r) == {i \in Values : rx[r].out[i] # None} \ world.refused
\* audit::event accepts no empty list of changes.
Auditable(r) == Resolved(r) # {} \/ \A i \in Values : rx[r].out[i] = None
InstallAll(r) == hosted' = [i \in Values |-> IF i \in Resolved(r) THEN rx[r].out[i] ELSE hosted[i]]

\* load_and_validate_leaving_out, deploy_together and the audit record; with
\* everything left out by its task nothing is published.
PublishBatch(r) ==
    /\ rx[r].pc = "publishing"
    /\ InstallAll(r)
    /\ IF ~Auditable(r) THEN Rejected(r)
       ELSE IF rx[r].stranded THEN Drop(r) /\ UNCHANGED op
       ELSE rx' = [rx EXCEPT ![r].pc = "answered", ![r].refused = RefusedThere(r)] /\ UNCHANGED op
    /\ UNCHANGED <<stored, quarantined, box, world, serial, events, overlap>>

\* The audit file or the post-deployment program fails after publication.
PublishedButRejected(r) ==
    /\ rx[r].pc = "publishing" /\ events > 0
    /\ events' = events - 1
    /\ InstallAll(r) /\ Rejected(r)
    /\ UNCHANGED <<stored, quarantined, box, world, serial, overlap>>

-----------------------------------------------------------------------------
\* The answer: records nobody asked for would be quarantined, the rest stored.
TakeAnswer(r) ==
    /\ op.pc = "waiting" /\ rx[r].pc = "answered"
    /\ op' = [op EXCEPT !.pc = "saving", !.todo = rx[r].records]
    /\ UNCHANGED <<stored, quarantined, hosted, box, world, rx, serial, events, overlap>>

\* quarantine_value: when the quarantine is full or the backend fails, the
\* summary says so and carries the record.
Quarantine(record) ==
    \/ /\ quarantined' = quarantined \union {record}
       /\ op' = [op EXCEPT !.todo = @ \ {record}]
    \/ /\ op' = [op EXCEPT !.todo = @ \ {record}, !.told = @ \union {record}]
       /\ UNCHANGED quarantined

\* store_generated_all: set_envelope_if_version(None), else the quarantine.
StoreRecord(record) ==
    /\ op.pc = "saving" /\ record \in op.todo
    /\ IF stored[record[1]] = None
       THEN /\ stored' = [stored EXCEPT ![record[1]] = record[2]]
            /\ op' = [op EXCEPT !.todo = @ \ {record}]
            /\ UNCHANGED quarantined
       ELSE Quarantine(record) /\ UNCHANGED stored
    /\ UNCHANGED <<hosted, box, world, rx, serial, events, overlap>>
\* The schema rejects the record, or storing it fails.
QuarantineRecord(record) ==
    /\ op.pc = "saving" /\ record \in op.todo /\ events > 0
    /\ events' = events - 1
    /\ Quarantine(record)
    /\ UNCHANGED <<stored, hosted, box, world, rx, serial, overlap>>

\* The summary: left out, missing, not deployed, and the rest deployed.  It says
\* nothing of the values for which the host keeps its own default, which the
\* request showed.
ReportDone(r) ==
    /\ op.pc = "saving" /\ op.todo = {} /\ rx[r].pc = "answered"
    /\ op' = [op EXCEPT !.pc = "idle", !.result = "done", !.left = @ \union op.plan.missing \union rx[r].refused]
    /\ Drop(r)
    /\ UNCHANGED <<stored, quarantined, hosted, box, world, serial, events, overlap>>

-----------------------------------------------------------------------------
Event == events > 0 /\ events' = events - 1
\* The connection is lost or the TUI ends: a receiver without its batch ends
\* with it (receiver::relay), one that has the batch goes on.
LinkLost(r) ==
    /\ Event /\ op.pc # "idle" /\ rx[r].pc # "none" /\ ~rx[r].stranded
    /\ op' = Failed("lost")
    /\ rx' = [rx EXCEPT ![r] = IF @.pc \in {"selected", "answered"} THEN NoReceiver ELSE [@ EXCEPT !.stranded = TRUE]]
    /\ UNCHANGED <<stored, quarantined, hosted, box, world, serial, overlap>>
ReceiverDies(r) ==
    /\ Event /\ rx[r].pc \notin {"none", "answered"}
    /\ Drop(r)
    /\ IF rx[r].pc = "tasks" THEN SomeAuthorized(r) ELSE UNCHANGED <<box, serial>>
    /\ op' = IF rx[r].stranded THEN op ELSE Failed("lost")
    /\ UNCHANGED <<stored, quarantined, hosted, world, overlap>>

\* Another operator enters or removes a value.
EnterValue(i) ==
    /\ Event /\ i \in Enterable /\ i \in world.request \union {Source(j) : j \in world.request}
    /\ stored' = [stored EXCEPT ![i] = Value(serial + 1)] /\ serial' = serial + 1
    /\ op' = [op EXCEPT !.edited = @ \union {i}]
    /\ UNCHANGED <<quarantined, hosted, box, world, rx, overlap>>
RemoveValue(i) ==
    /\ Event /\ stored[i] # None
    /\ stored' = [stored EXCEPT ![i] = None]
    /\ op' = [op EXCEPT !.edited = @ \union {i}]
    /\ UNCHANGED <<quarantined, hosted, box, world, rx, serial, overlap>>

ExchangeNext ==
    \/ SelectValues
    \/ \E rows \in {{}} \union {{i} : i \in world.request \union Shareable} : ApproveRows(rows)
    \/ \E r \in Receivers :
          \/ OpenDeployer(r) \/ SendBatch(r) \/ RunTasks(r) \/ TaskFails(r) \/ GenerateValues(r)
          \/ PublishBatch(r) \/ PublishedButRejected(r) \/ TakeAnswer(r) \/ ReportDone(r)
          \/ LinkLost(r) \/ ReceiverDies(r)
    \/ \E record \in op.todo : StoreRecord(record) \/ QuarantineRecord(record)
    \/ \E i \in Values : EnterValue(i) \/ RemoveValue(i)

ExchangeSpec == ExchangeInit /\ [][ExchangeNext]_exchangeVars

-----------------------------------------------------------------------------
\* A deployment reported as done tells the truth: each requested value is named
\* as left out, keeps the host's own default, or is installed as it was sent or
\* made; and what the target made is in the store or in the quarantine, or the
\* summary says that it was not saved and carries it, unless an operator edited
\* the value since.  Another receiver at work meanwhile is the exception
\* (main.rs:156).
ReportIsTrue ==
    [][(op.pc = "saving" /\ op'.pc = "idle" /\ op'.result = "done") =>
         \A r \in Receivers : (rx[r].pc = "answered") =>
           /\ overlap \/ \A i \in (world.request \ op'.left) \ op.plan.host :
                /\ hosted[i] = rx[r].out[i] /\ rx[r].out[i] # None
                /\ i \in Generatable => \/ i \in op.edited \/ stored[i] = hosted[i]
                                        \/ <<i, hosted[i]>> \in quarantined \union op.told
           /\ \A record \in rx[r].records :
                \/ record \in quarantined \union op.told \/ stored[record[1]] = record[2]
                \/ record[1] \in op.edited]_exchangeVars

\* A generation replaces an installed generated value only by one from the
\* store, and never an installed key: after a lost answer the next deployment
\* adopts what is there, if need be under a new version
\* (generate.rs run_value_generation, tasks.rs).
InstalledIsKept ==
    [][\A i \in Own : (hosted[i].c # 0 /\ hosted'[i] # hosted[i] /\ ~overlap) =>
         /\ i \in Tasks => hosted'[i].c = hosted[i].c
         /\ i \in Generatable => \/ \E r \in Receivers : rx[r].pc = "publishing" /\ i \in rx[r].batch.entries
                                 \/ hosted[i].v = 0 /\ hosted'[i].c = hosted[i].c]_exchangeVars

\* The key installed for a storage box is the key the box accepts, whatever
\* was lost or failed between the two (engine.rs run).
InstalledKeyWorks == \A i \in Own : (Kind(i) = "box key" /\ hosted[i] # None /\ ~overlap) => box[i] = hosted[i].c

\* "None of them stops the rest of the deployment" (controller/target.rs:105): a deployment
\* is refused as changed in the store only if a value was.
MismatchStopsNothing == op.result = "changed" => op.edited # {}
=============================================================================
