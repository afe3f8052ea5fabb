# Verification of nix-secrets

This directory holds TLA+ models of nix-secrets, the TLC runs that check them and
TLAPS proofs about them. `PROJECT.json` maps every definition to the source lines
it models. Paths below are relative to `crates/` in the repository.

## The system

nix-secrets keeps encrypted secrets in a Git repository. A *backend* daemon owns
the repository and its socket; an operator works at a *TUI* (the manager), which
decrypts; *requesters* on the backend host (`with-secrets`, `deploy`, ...) ask the
operator for values, logins and signatures through the backend; a *receiver* on
each target host installs what is deployed to it.

| Component | State | Operations | Hard part |
|---|---|---|---|
| generation deployer (`deploy/src/deploy.rs`, `deploy/recovery.rs`, `deploy/staging.rs`, `fsutil.rs`) | per root: generation directories, `.current`, `.pending`, a lock file | deploy one root, deploy both together, recover, prune | crashes and power losses between renames and syncs, several processes, a commit that spans two directories |
| receiver (`deploy/src/main.rs`, `transport/src/deployment/*`) | one exchange | manifest, batch, answer | validation on both sides, failure after commit |
| public defaults (`deploy/src/public_default.rs`) | provenance records | install a declared default | racing the operator's deployments |
| operator channel (`core/src/backend/secrets.rs`, `manager/src/operator_channel.rs`) | attached TUIs, waiting requests, slots, closure registry, grants; handler threads and signers in the TUI | request, attach, answer, withdraw, cancel countdown, end grants | three kinds of threads, polling, reconnects, closing TUIs |
| approval broker (`core/src/approval.rs`) | requests, leases, frontends' queues | submit, claim, renew, resolve, cancel, disconnect | leases that expire under a working frontend, limits |
| store and feed (`core/src/store*`, `core/src/backend.rs`, `backend/feed.rs`) | the store file, subscribers | versioned set and remove, quarantine, announce | events published outside the store's lock |
| procedures (`core/src/backend/procedures.rs`, `manager/src/model/procedures.rs`) | running procedures, the TUIs' copies | start, step, end, broadcast | snapshot against broadcast |
| sessions, SSH and signing (`core/src/secret_session.rs`, `ssh_auth.rs`, `manager/src/login_signer.rs`) | decrypted values, grants | use, expire, end | limits, expiry |
| socket lease (`backend/src/socket_lease.rs`) | a lock and a socket | own or attach | two daemons starting and exiting |
| host keys (`transport/src/hostkey*`) | known_hosts | preflight, accept, persist | partial writes, conflicts |
| TUI (`manager/src/model*`, `controller*`, `ui*`) | tree, selection, dialogs, tasks | key events, background results | results for a model that changed |
| schema (`core/src/schema*`) | none | validation, derivation order | cycles |
| secrets-ready waiter, storage box bootstrap | progress; authorized_keys | wait; merge and replace | missed changes; lost updates |

What makes each correct is listed as hazards in `PROJECT.json`, each at the line
where it bites, with the property that covers it. Behaviour that is wrong or doubtful
and has no property of its own is listed below under "Known limits of the properties".

## Modules

| Module | Part of the system | Composed with |
|---|---|---|
| `GenerationDeploy`, `JointPublish` | the deployer on the target | refines `JointPublish` |
| `DeploymentExchange` | plan, exchange, tasks and report of one host's deployment | installs a generation in one step, which `GenerationDeploy` takes apart |
| `PublicDefault` | the default and mock units beside operators' deployments | publishes in one step, as above |
| `ReadyWaiter` | the unit that waits for secrets | reads what deployments publish |
| `HostTrust` | host key scans, approval and known_hosts | |
| `SocketLease` | the backend's lock and socket, and its frontends | |
| `OperatorChannel` | requests that wait for an operator | |
| `ApprovalBroker`, `DeploymentApproval` | deployment requests and the TUI that claims them | `DeploymentApproval` extends the broker |
| `ProcedureTable`, `ProcedureDialogs` | procedures in the backend and in the TUI | `ProcedureDialogs` extends the table |
| `StoreFeed` | the store, profiles, the event feed and the TUI's view | |
| `GitCommits` | commits, and the question before a value is replaced | |
| `Attention` | title, bell and desktop notifications | |

`MC...` modules hold the instances for TLC, `...Proofs` modules the theorems:

| Proof module | About |
|---|---|
| `GenerationDeployProofs`, `OperatorChannelProofs`, `DeploymentExchangeProofs` | the module they are named after |
| `DeploymentApprovalProofs` | `ApprovalBroker`, then `DeploymentApproval` |
| `BackendFilesProofs` | `StoreFeed`, `GitCommits` |
| `SharedFilesProofs` | `HostTrust`, `SocketLease`, `PublicDefault`, `ReadyWaiter` |
| `DialogsProofs` | what the operations on the TUI's model do, for `TuiProofs` |
| `TuiProofs` | `Attention`, `ProcedureDialogs` |

### GenerationDeploy

State: `dirs` of the two roots (generations, `.current`, `.pending`, each with what
a power loss would leave), the locks, and per process the phase, step and operation
it is in. One action per file system call that another process or a crash can tell
apart: staging, publishing the generation (rename into place), settling (sync),
the pending pointer and its sync, the switch of `.current` and its sync, each
removal of the pruning, and every step of the recovery. `Begin` chooses the
operation: `deploy_together` (secret root first, then public root),
`deploy`/`deploy_if` of the public root, `recover`, `recover_alone`. `Fail` is an error returned by
any of those calls, with the recovery `deploy_inner` and `together` then try; `Kill`
drops a process and its locks; `PowerLoss` replaces each unsynced part by its old or
its new state. File contents are abstracted to the generation's identity: which
deployment it belongs to.

`JointPublish` is the abstract specification: a published pair of generations that
changes in one step. `GenerationDeploy` implements it (`ImplementsJointPublish`), with
the public root read through the pending pointer when the commit has happened.

### OperatorChannel

State: per request the place of its thread in `request_operator_with_id`, the
session it was sent to, its reply channel and deadline; per session the place of
the thread of `attach`, the inbox and the requests it waits for; the registry of
attached sessions, the closure registry and the slots; per TUI the handler threads
and the login signers. One action per step between two lock acquisitions or
channel operations. The reader thread of a session and the TUI's writer only move
frames, in order, into the inbox and are part of it.

### ApprovalBroker and DeploymentApproval

`ApprovalBroker` is the backend's table of deployment requests: the status, lease and
owner of each, the registered frontends, and what is queued for and known to each.
Every operation runs under one lock and is one action. `reclaim`, which every
operation calls first, is an action of its own, `Expire`: time is not counted and a lease
may run out at any moment. `BrokerSpec` lets clients call anything in any order.

`DeploymentApproval` extends it with the TUI: the worker thread (its claim, whether the
host key is trusted and the connection to the target prepared, the staged review), the
listener thread that wakes it, the commands and events between worker and UI, and the
UI's dialogs. A worker action is one exchange with the backend and what follows up to
the next, so that leases expire, connections break and the operator types in between.
An exchange on a breaking connection fails whether or not the backend acted. What
depends on stored values or the target (a failure, a review, a follow-up) is a choice.
A session number stands for a connection; the listener has one of its own, and a new
one is taken at every reconnection.

### DeploymentExchange

State: the host (what it has installed, is able to receive and what its activation
expects), the encrypted store with its versions, the TUI's plan and the place it is in,
and the receivers, of which one may outlive its operator. Actions follow
`controller.rs`: the selection and the checks before a connection (`unset.rs`,
`preflight.rs`), the target's state, the plan made again after the approval, decryption
and derivation, the batch, and on the target the validation, the tasks one after the
other (`tasks.rs`, `generate.rs`), the installation, the audit event and the answer. The
key of a storage box is put on the box before the generation that installs it is
published. A connection may break and a receiver die at any of these points, and other
operators edit the store. What the target made is stored, quarantined, or, when the quarantine
refuses it, carried by the summary (`told`). The summary names what was left out unchecked,
skipped or not deployed, and says nothing of the values for which the host keeps its own
default. A host may list a value that something else installed under a version no store uses
(`foreign`), or one whose file is gone (`erased`). A value is the pair of its version and its
contents; framing and the validation of single fields are reduced to whether a value passes.

### PublicDefault, ReadyWaiter, HostTrust, SocketLease

`PublicDefault`: the installed leaves, the provenance record, the declaration, the two
units. A run of the default's unit compares versions without a lock, then decides,
publishes and records under it; a crash may come after the publication and before the
record, and deployments with any version and rebuilds in between.

`ReadyWaiter`: the tree, the running poll (one step per secret, so a deployment can happen
inside a poll), `struct Progress` and what systemd and the log were last told. A poll is
one tick of the clock. The service's link is looked at before the generation behind it, and a
link that leads elsewhere is an error whatever was pruned. A status may be lost on its way.
With `--once` the first poll that finds something missing ends the program without a status.

`HostTrust`: known_hosts as the inode at its path and the content of every inode (a
program that rewrites the file replaces the inode; a TUI may hold the lock of one that is
no longer at the path), the `flock` of each inode, and each TUI's approval from the first
scan to the connection. A scan shows any set of keys with at most one of a type.

`SocketLease`: the lock, the file at the socket's path (named by the backend that bound
it), each backend's place in `run`, each frontend's place in `connect_or_start`. A dying
process lets go of its lock before its listening socket; a backend whose `serve` returns an
error drops the socket first.

### ProcedureTable and ProcedureDialogs

`ProcedureTable`: the table under its lock, announcements computed and not yet sent, the
stream to the TUI and what is held back for one that is attaching. `ProcedureDialogs`
adds the TUI's model as one record; every method on `&mut Model` is an operator from such
a record to the next. `Tick` is one iteration of `drive`: events, then prompts, then
outcomes, each a pass over the messages that came (`Taken`, a recursive function). Requests,
confirmations and deployments inside and outside procedures meet the dialog that is open at
the time; the worker has one claimed deployment at a time (`AtWorker`). A no leaves the approval on
screen until the worker answers, first that the claim is resolved (`FinishApproval`) and then how
it went (`DeploymentDone`); a claim that is lost (`DeploymentLost`) never gets the first and may be
offered again; an answer given while the worker is busy is refused. `misled` records the
running procedures that a list read after an attach made the TUI take for ended: see "Known
limits of the properties".

### StoreFeed

State: the document, the lock, each backend thread's request (read, change, rename,
answer), what each client had read, the profiles, the subscriber's queue, and the
listener's refresh, which is two listings and the profiles. A write can fail before the
rename or after it; the key of a recipient can be replaced; the backend can restart. A
conditional write names the version it read, and the change of a generated public key also the
key it expects. Values are their versions.

### GitCommits

State: working tree, index and log (git is external, modelled from how the code calls
it), the draft and dialog of the TUI, the commit the backend runs, one git command per
step, with the paths its first step found; the listing on its way to the TUI and the row it
shows (`view`), the question before a replacement or a deletion (`entry`), the operations that
wait for the TUI's worker (`saves`) and the failed ones whose dialog waits (`failed`). A shell
stages, unstages and commits at any time. Other TUIs and deployments store and remove the value
at any time (`OtherWrite`, `OtherRemove`), and the row lags behind: it changes when a listing is
shown, which it is only while the TUI browses, or when an operation of its own completes. A save
is an unconditional `Set`; a deletion removes the version it read when it began. Either can
fail, before or after the store changed, and a failed save can be tried again without another
question.

### Attention

State: what is on screen, what `Attention` has signalled, the calls queued for the
bus thread and what the notification daemon shows. A frame compares and queues; the bus
thread carries out one call at a time, which may fail before or after the daemon acted, or
find no bus to connect to; then it is dropped and the id of the notification is kept.

## Runs

| Run | Bounds | What it shows |
|---|---|---|
| `deploy_crash` | 2 processes, 2 generations, 1 retained, kills and failures, a clock that may step back, fair processes | joint deployments are atomic and refine `JointPublish`; recovery never acts on a stale commit pointer; every operation ends; `IndInv`, the invariant of the proofs, holds |
| `shared_files` | six scenes, below | through power losses `.current` never dangles, joint deployments are atomic and acknowledged ones stay (`NoDangling`, `JointAtomicity`, `AckedInstalled`); what a report does not name as left out is installed, and what the target made is kept or shown, what the target made is not made again, and an installed box key opens the box (`ReportIsTrue`, `InstalledIsKept`, `InstalledKeyWorks`); a default yields (`DefaultYields`); the waiter's status is recent (`ReportIsRecent`); no replaced host key is connected to and known_hosts stays whole (`NoKeyReplaced`, `KnownHostsWhole`); one backend serves all frontends (`OneBroker`) |
| `deploy_kill_power` (violation) | kills and power losses | a recovery forwards the public root without making the secret root durable: the pair is torn |
| `plan_mismatch` (violation) | 1 deployment, no faults | a value the host's activation lacks, with a derived one, makes the TUI refuse the whole deployment |
| `channel` | 2 sessions, of one TUI or of two, against a request of any kind, beside an earlier one that was refused; and 2 requests for 1 slot with one session that is over | no request asked twice or forgotten, no slot leaked, closure requests owned, a refused request takes no slot, and a requester that leaves frees its slot |
| `channel_stale` (violation) | as `channel` | an answer found late leaves the next TUI asking about a request that is over |
| `channel_grants` (violation) | as `channel` | a signer is not stopped when its requester leaves |
| `approval` | 2 requests, 1 TUI, 1 broken connection or expired lease | waiting requests are offered, claims are owned and never left behind, answers are final, a deployment is sent once, reviews stay with their claim, only applied deployments are reported |
| `approval_live` | 1 request, 1 TUI, 1 fault, 1 save, fair threads | a waiting request is claimed by a free TUI |
| `approval_stale` (violation) | 2 requests, 1 TUI, no faults | a yes is executed for another request than the one on screen |
| `git_stale` (violation) | as `backend_and_tui` | a value another writer stored while the row still said unset is overwritten without the warning |
| `backend_and_tui` | five scenes, below | nothing waits unseen, a TUI knows the latest step, no unacknowledged failure goes away (`NothingWaitsUnseen`, `LatestStepKnown`, `FailureIsSeen`); the TUI's view converges, writes keep what they are not about, records resolve to their recipients (`ViewConverges`, `WritesKeepOthers`, `RecipientsSurvive`); commits take nothing else along, no value the operator was asked about is lost without a warning (`OnlyManagedCommitted`, `NoSilentLoss`); the desktop calls for exactly what waits (`CallsForOperator`) |

Scenes. `MCSharedFiles` and `MCBackendAndTui` hold several components that share no
variable. The initial state chooses one of them, the scene; the others rest. TLC explores
the sum of the state spaces, and `SceneView` compares only the component that moves, which
loses nothing because the others stay as the initial state has them. A property of a
resting component is checked in its own scene.

| Scene | Bounds |
|---|---|
| deploy | 2 processes, 3 generations, 2 retained, a power loss at any step |
| exchange | 11 leaves, one of each kind of task and of each relation between two leaves; 2 deployments, 1 fault or edit, 2 receivers |
| default | 2 defaults, 2 changes |
| waiter | 2 secrets, 6 polls, 3 changes of the tree, refresh after 2 polls and log after 3 |
| trust | 2 TUIs, 3 keys of 2 types, 3 scans, 2 changes by others or cut writes |
| lease | 2 frontends, 3 backends, 1 crash or leaving |
| procedures | 2 procedures, limit 1, 2 steps, 2 messages on the way, 4 requests of all kinds |
| store | 1 secret, 2 threads, 2 profiles with limit 1, 2 versions, a queue of 1, 1 fault |
| commits | 2 versions of the value by other writers, 1 of the other files, 2 commits, signatures, lost connections; nothing is entered |
| edits | 2 versions, 1 commit (made and amended), 1 save waiting or failed beside it; only the stored value changes, commits are unsigned and heard; longer queues and histories are the theorem's |
| attention | 2 requests, countdowns that come near their end, 3 events on screen, 1 failing call |

Why these are enough. Two processes suffice for every pair of operations that can hold or
want the two locks at once; a third only waits. Two generation identities, never used
again (and a clock that may step back), cover a previous and a new generation and the
pruning of one; power losses use three, so that pruning happens between them. Requests of
the channel meet only in the slot counter and in the order of inboxes, so one request
against two sessions has every race between a request and its TUIs; the proofs cover any
number of both. In `approval` the second request is the one that waits meanwhile, is
claimed next, or is the follow-up of the first; three sessions are the two connections of a
TUI and one that replaces a broken one. Requests are interchangeable there (symmetry).
Several TUIs meet only in the broker, which is proved for any number of sessions. In the
exchange the second deployment is the one that meets what the first, interrupted one left,
and the second receiver the one beside an orphan. In the default's scene one change is what
happens inside a run and one what happens between two. The waiter's intervals are smaller
than its polls, so both refreshes happen. With a limit of one, the queue of a subscriber,
the table of procedures and the profiles are full after one entry, and one past the limit is
reached. Three backends are one that serves, one that attaches and one that is started
meanwhile. Commits are seen twice because the product of both is large and what they share
is small: what a commit takes along depends on the files, signatures and connections, whether a
replacement asks first on the entries, rows and the stored value; the proofs are about the
whole component. What these runs check is also proved for every bound, except for power losses.

Fairness: every process of `GenerationDeploy` that is not killed continues, and a
blocking `flock` is granted eventually once it is free again and again (strong fairness
of taking the locks). In `OperatorChannel` the backend's threads run (each polls
on an interval); nothing is assumed of operators, requesters, deadlines or TUIs.
In `DeploymentApproval` the worker's loop, the listener (which looks every second and
reconnects), the UI's tick and the backend's detection of closed connections go on
(weak fairness); operators owe nothing, and faults are never forced. The two runs with
scenes check safety only and assume no fairness.

Deadlock is not checked where the identities, sessions or bounds of the instance run out:
in `channel` and in the runs with scenes.

## Proofs

`GenerationDeployProofs` proves, for any number of processes, identities, retained
generations and any clock: type correctness under every fault, and, when power
losses are left out (kills and failures included), that `.current` never dangles,
that joint deployments are atomic, that acknowledged deployments stay, that a
recovery's view of the commit pointer is current, and the refinement of
`JointPublish`. None of these is inductive. `IndInv` adds what holds in between:
who holds which lock in which phase, that a pending pointer is unresolved only
under a lock or after a kill, which generations a process in a given step has
already published, and that the secret root's lock holder is the only one
who can move the commit point. TLC checks `IndInv` in `deploy_crash`. One lemma per
action proves that it is preserved; `DeployersKeepStep` states it of the specification.

`OperatorChannelProofs` proves, for any finite set of requests and any sessions, TUIs
and MAX_PENDING, every safety invariant of the passing channel runs: types (with the
limit on slots), `SlotsMatch`, `OneAsked`, `NoneForgotten` and `ClosureOwner`. Types
and slots need each other: that a release never makes the counter negative follows from
its being the number of threads in a request. `OneAsked` is not inductive: a request
that moves on leaves its old TUI asking. The invariant `IndInv` adds that a session is
listed only while its thread serves it and attaches once (`Lifecycle`), that a request
is addressed to a session that has attached (`Addressed`), that only requests that are
over were withdrawn (`WithdrawnOver`), and that an attached TUI asks only for requests
sent to it last (`AskedHere`). Sequences enter the proofs only as the sets of their
elements, through three lemmas. Each conjunct has one lemma, by actor: requester
threads, session threads, TUIs.

`DeploymentApprovalProofs`, first part: the broker's properties of `BrokerSpec`: types,
`PendingOffered`, `ClaimsAreOwned` and `AnswersAreFinal`, for any requests, sessions and
limits. `PendingOffered` is not inductive: `queue()` skips what a frontend is known to have
and a full queue loses its oldest request. `BrokerInv` adds that a frontend knows exactly
what is queued for it, that only entries are queued, and that there are at most MAX_REQUESTS
of them, which `QueueLimitAssumption` bounds by MAX_QUEUE (both are 4096 in the code).
With them `OfferingAdds` shows that offering never loses a request. That leases differ
needs that every lease in use is below the counter (`LeasesGiven`); the counter is not
wrapped at 2^64.

Second part, for any requests, TUIs, sessions and faults: `TuisUseTheBroker` shows that
`DeploymentApproval` implements `BrokerSpec`, so everything proved of the broker holds
of the broker under its TUIs; then types, `SentOnce`, `ReviewIsOfClaim`,
`ApprovedWasApplied`, `ClaimIsAtHand` and `CompletedIsOver`. `ApprovalInv` says what a worker
holds at each point of its loop (`Sane`: which fields are set, that the review it holds is of
its claim), that no two connections share a session (`SessionsApart`, without which a
disconnect could return another TUI's claim), that a claim the broker has for a TUI's session
is the one its worker works on or is about to give back (`AtHand`), that the UI is told that a
request is completed only when it is (`ToldOver`), and that the UI counts exactly the commands
that wait, are under way or whose end is not yet read (`Balanced`). What the UI makes of a tick's events is a recursive
function of them.

`DeploymentExchangeProofs`: `InstalledKeyWorks`, `InstalledIsKept` and `ReportIsTrue`, for any
leaves, kinds, sources and numbers of receivers and deployments. At most one receiver
answers the operator, and while no orphan overlaps with another receiver there is at most
one at all, so that what it read of the host is still what the host has. `ExchangeInv`
follows the data: what was asked for is in the batch or left out for a reason; a batch that
was accepted has all of it in the output of the tasks or among the refused; an answer names
what is installed; what the target made is on its way to the store until it is recorded, or
told to the operator when neither store nor quarantine took it. An installed value may lack its
file, a key may not (`Installations`): nothing but a deployment puts a key there. A value whose
version no store uses is given a new one with the same contents, and that is the only way an
installed generated value changes without coming from the store.

`BackendFilesProofs`, store: `RecipientsSurvive`, `WritesKeepOthers` and `ViewConverges`, for any
secrets, threads, profiles and limits. `StoreInv` says that a thread that writes holds the
lock and that its copy is the document as it is now but for its own change; without it a
second writer could have come in between. `FeedInv` says where a change that the TUI does
not show yet is to be found: with a thread that has still to announce it, in the queue, or
ahead of the listener in its refresh. One part for secrets, one for public info, one for
profiles, since one event may come while another's listing is under way.

`BackendFilesProofs`, git: `OnlyManagedCommitted` and `NoSilentLoss`, for any number of versions,
commits, waiting saves and other writers. The second needs that no version is stored twice, so
that a value which is replaced is never there again, and that while the last commit holds the
version in the working tree, the index does too (`CopiesFresh`): then neither the shell's commit of the index
nor a commit or an amend of the backend, which takes the working tree, can move the branch away
from it. So an answer "committed" about a value stays true for as long as the value is in the store,
through every question, wait, failure and retry (`QuestionsSound`).

`SharedFilesProofs` has four parts, for any bounds. Trust (`NoKeyReplaced`, `KnownHostsWhole`):
who holds an inode's lock is the heart of it: what a TUI read from an inode is still there
when it appends, since only ssh adds to an inode that a TUI holds. Lease (`OneBroker`), by the
lock: a process past it is the one that holds it, and a bound backend finds its own socket at
the path or none. Default (`DefaultYields`): the record names only contents this unit
installed, also after a crash before the record. Waiter (`ReportIsRecent`), for any secrets and
intervals: `WaiterInv` relates the progress record to what was last sent, between polls and
inside one.

`TuiProofs`, attention: `CallsForOperator`, for any finite set of asks and any deadlines. The
desktop lags behind the frame, so the invariant speaks of the queue: for each key the
last call that waits is the one that was signalled, or, when none waits, what the daemon
shows; and an identifier belongs to one key.

`TuiProofs`, procedures: `NothingWaitsUnseen`, `LatestStepKnown` and `FailureIsSeen`, for any
finite set of procedures, any requests and limits. `DialogsInv` has four parts besides the
types. A procedure is in the table while its thread serves it (`TableInv`). A step the
TUI does not know is in the stream or will be announced, and an end is announced only of what
is over (`KnowledgeInv`). A dialog that needs the operator is on screen or its entry is listed
and calls, no approval waits behind an open dialog that could show it, and the UI has at most
one claim, one the worker holds (`UiInv`: `Good`, `Settled`, `InHand`). A prompt on its way is still asked, and one shown is asked by the session
the TUI is attached to (`AskingInv`). `DialogsProofs` proves of every operation on the model what
it keeps: `Calm` (nothing that runs ends or steps back), `BadKept` (failures stay), `Good`. A
tick then keeps what each of its messages keeps.

Recursive functions. `Handled`, `Taken` and the like are functions on the indices of a
sequence. The induction theorems of the library cannot be instantiated here, so what they
compute is proved from a least counterexample: if a statement fails at some index it fails
at a least one (`FirstExists`, `WFMin` of the natural numbers), and there one unfolding of the
function contradicts it. No RECURSIVE operator is in reach of the proofs.

Assumptions: the named ASSUMEs of the modules (identities and names are distinct from each
other and from the "none" values, constants have their types, the sets of the channel's
requests, of procedures and of asks are finite, a request names leaves of its host, MAX_REQUESTS
is at most MAX_QUEUE); TLC evaluates them in every run.

Only model-checked: everything with power losses (`deploy` scene); and liveness under fairness
(`EveryOperationEnds`, `LeavingEnds`, `PendingIsTaken`), which is out of the prover's reach.

## Findings

See `findings` in `PROJECT.json`: the torn pair after a kill, a recovery and a power loss;
the late answer; the signer that outlives its
requester; the yes executed for another request; the mismatch that stops a deployment; the
uncommitted value of another writer that is overwritten without the warning.

## Known limits of the properties

What the code does at these places is in the models (or left out, where said), and the
properties are stated so that they do not claim more. Paths are as above.

- Deployer: a joint deployment that fails after its commit point (the sync in `switch`,
  `deploy/src/deploy.rs:229`, or the pruning) is reported as failed and is installed in both roots,
  where `PROTOCOL.md:105-106` says "Any failure keeps the previous generation in both roots". The
  properties state the promise of `recovery.rs:18-20`: both roots at the old generation or both at
  the new.
- `manager/src/ui/approval.rs:59`: a yes pressed while a save runs closes the dialog and is
  not queued; the claim is renewed with nobody left to answer.
- `core/src/backend/secrets.rs:732`: a closure request whose TUI detaches before it is
  registered fails; `:635`: a confirmation is left waiting.
- `core/src/store/persistence.rs:56`: a failure after the rename has changed the store and is
  reported as failed and not announced. `ViewConverges` excepts it (`silent`).
- `core/src/profiles.rs:129`: one profile too many is written, and every later read fails.
- Procedures: a warning on the last declared step leaves a result that waits for an
  acknowledgement without a notice; answering a prompt that outlived its procedure drops the
  procedure's failed result (`manager/src/model/procedures.rs:1170`); a step announced after
  the end lists the procedure again until the next resync; and a procedure that begins after
  the list was made, and whose deployment is offered before the list is read, is taken for
  ended (`manager/src/model/procedures.rs:1213`): `LatestStepKnown` speaks of the others (`misled`).
- Commits: `NoSilentLoss` is about values the operator was asked about. One that came into the
  store after the row was read or the question answered, by another writer or by a save that
  waited in the TUI's own queue, is replaced without a warning (`manager/src/ui/edit.rs:51`,
  `manager/src/controller/writer.rs:257`): the finding of `git_stale`. The replacement of a keypair
  asks a plain y and never asks git; it is one of the other writers here.
- Exchange: leaving out a derived value does not trim the shared sources of the plan, so an
  old target refuses everything (`manager/src/controller.rs:639`) and a new one rejects the
  batch (`deploy/src/generate.rs:272`); an audit event with nothing deployed or more than
  512 values turns a done deployment into a rejected one; the receiver's `current` is stale
  beside an orphan (`deploy/src/main.rs:156`); `deploy/src/deploy/staging.rs:6` reads the
  current versions without a lock; a value derived from a source that was removed between the
  plan and its decryption panics (`manager/src/controller/unset.rs:446`; `SourceGone`); the
  summary does not name the values left to the host's own default (`manager/src/controller.rs:517`),
  and `ReportIsTrue` excepts them; a value that neither the store nor the quarantine took is
  reported as done with its record in the summary (`manager/src/controller/quarantine.rs:80`).
  Left out: the identity leaf that stays selected though it is unset because a producer in the
  request needs it (`manager/src/controller/writer/approval.rs:92`).
- Dialogs: whether a rejected deployment had already been made (a no to what the host added
  afterwards) is not recorded, so a rejection may also end well in the model. A claim lost with the
  connection is offered again as often as the budget of lost connections allows.
- Lease: the process an ephemeral launcher kills and whose socket it removes
  (`manager/src/startup.rs:80`, remote connections only) is not modelled.
- Lease: a starter that finds the lock held waits and starts nothing; if the holder then
  fails, it times out. A starter may remove a socket that was bound a moment ago; the
  backend notices and exits, and the next start heals it.
- Default: an operator who deploys exactly the contents and version of an old default has
  them replaced by the new one.
- Waiter: `secrets-ready-waiter/src/progress.rs:51` skips `error.take()` when the list changed
  too, so the next status may be up to 30 seconds late and is not logged.
- Attention: a failed close is not repeated with its id, so its notification stays
  (`CallsForOperator` excepts keys with a failed call); a notification whose reply was lost
  is shown twice; closes queued at quit may be lost.
- `storagebox-bootstrap/src/engine.rs:56`: authorized_keys is merged without a lock across
  hosts. Not modelled: one host deploys at a time in `DeploymentExchange`.

## Not modelled

- Secret sessions, SSH authentication and signature formats, and the crypto crate: their
  content is verification of bytes and child processes; the requests that carry them
  are in `OperatorChannel`.
- Schema and generators: pure validation of a manifest, without state. The kinds of leaves it
  distinguishes are parameters of `DeploymentExchange`.
- The TUI's tree, folding and visibility: a sequential view of one thread. Rendering and key
  maps of the screens.
- Client commands: argument parsing, environment and child processes of one-shot commands.
- Framing, sockets and connection limits of the backend loop; ssh command lines and pipes.
- The SFTP merge of authorized_keys.
- NixOS modules: evaluated before any of this runs.

## What could follow

1. An invariant for power losses in `GenerationDeployProofs`.
2. Several hosts in `DeploymentExchange`, with the merge of authorized_keys.
3. Pure algorithms against reference definitions: derivation order and cycles, reordering of
   the tree, visibility.
