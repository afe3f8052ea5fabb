-------------------------- MODULE GenerationDeploy --------------------------
(***************************************************************************)
(* Joint deployments into the secret root and the public-info root of a    *)
(* host: crates/deploy/src/deploy.rs, deploy/recovery.rs, deploy/staging.rs*)
(*                                                                         *)
(* A root directory holds `.current`, the pending pointers `.current-<id>`,*)
(* `.deploy-lock` and the generation store `.generations`.  A process      *)
(* (the receiver, the public-default unit, the recovery unit) takes the    *)
(* root locks, recovers, prepares a generation in every root it deploys    *)
(* to, switches the secret root (the commit point) and then the public     *)
(* root, and prunes.  Between any two file-system operations the process   *)
(* may be killed, the operation may fail, or the host may lose power;      *)
(* what a directory has not synced may then be gone.                       *)
(*                                                                         *)
(* The entries of a generation are abstracted to the set of deployments    *)
(* whose values it carries.  Staging directories are left out: only prune  *)
(* ever looks at one again, to remove it.                                  *)
(*                                                                         *)
(* A definition marked "Slip" is a plausible mistake in the definition it  *)
(* precedes; no specification uses it.  PROJECT.json names the property    *)
(* that notices it.                                                        *)
(***************************************************************************)
EXTENDS Integers, FiniteSets

CONSTANTS
    Procs,          \* processes that deploy or recover
    Ids,            \* generation ids, ordered as the code's strings are
    NoId,           \* no generation: `.current` is absent
    Nobody,         \* a root lock nobody holds
    Retained,       \* RETAINED_GENERATIONS
    Faults,         \* the faults that happen: "kill", "power", "io"
    MonotoneClock   \* whether a later generation_id() is a larger one

Secrets == "secrets"
Public == "public"
Roots == {Secrets, Public}

ASSUME IdsAssumption == Ids \subseteq Nat /\ NoId \notin Ids
ASSUME ProcsAssumption == Nobody \notin Procs
ASSUME RetainedAssumption == Retained \in Nat \ {0}
ASSUME FaultsAssumption == Faults \subseteq {"kill", "power", "io"}
ASSUME ClockAssumption == MonotoneClock \in BOOLEAN

VARIABLES
    cur,      \* cur[r]: the generation root r's `.current` names
    pend,     \* pend[r]: the ids of the pending pointers of root r
    disk,     \* disk[r]: the contents a power loss may leave of the root
              \* directory, as records [cur, pend]
    gens,     \* gens[r]: the generation directories in the store of r
    gdisk,    \* gdisk[r]: the sets of generations a power loss may leave
    carries,  \* carries[r][g]: the deployments whose entries g holds
    lock      \* lock[r]: the holder of `.deploy-lock` of root r

VARIABLES
    phase,    \* phase[p]: what process p is doing
    left,     \* left[p]: the roots p still has to do it for
    at,       \* at[p]: the next file-system operation of p in that root
    over,     \* over[p]: the roots p locks and recovers
    roots,    \* roots[p]: the roots p deploys into
    id,       \* id[p]: the generation p deploys
    seen,     \* seen[p]: the committed generation a recovery read
    gone      \* gone[p]: the discarded id whose generation is removed next

VARIABLES
    target,   \* target[i]: the roots deployment i is for; {} if unused
    outcome   \* outcome[i]: what the caller was told about deployment i

fsVars == <<cur, pend, disk, gens, gdisk, carries>>
procVars == <<phase, left, at, over, roots, id, seen, gone, lock>>
ghostVars == <<target, outcome>>
vars == <<fsVars, procVars, ghostVars>>

Phases == {"idle", "lock", "recover", "prepare", "switch", "prune", "cleanup"}
Steps == {"none", "take", "read", "discard", "remove", "rsync", "forward",
          "fsync", "stage", "publish", "settle", "point", "psync",
          "rename", "ssync", "prune"}

DirState == [cur : Ids \cup {NoId}, pend : SUBSET Ids]

TypeOK ==
    /\ cur \in [Roots -> Ids \cup {NoId}]
    /\ pend \in [Roots -> SUBSET Ids]
    /\ disk \in [Roots -> SUBSET DirState]
    /\ gens \in [Roots -> SUBSET Ids]
    /\ gdisk \in [Roots -> SUBSET SUBSET Ids]
    /\ carries \in [Roots -> [Ids -> SUBSET Ids]]
    /\ lock \in [Roots -> Procs \cup {Nobody}]
    /\ phase \in [Procs -> Phases]
    /\ left \in [Procs -> SUBSET Roots]
    /\ at \in [Procs -> Steps]
    /\ over \in [Procs -> SUBSET Roots]
    /\ roots \in [Procs -> SUBSET Roots]
    /\ id \in [Procs -> Ids \cup {NoId}]
    /\ seen \in [Procs -> Ids \cup {NoId}]
    /\ gone \in [Procs -> Ids \cup {NoId}]
    /\ target \in [Ids -> SUBSET Roots]
    /\ outcome \in [Ids -> {"none", "ok", "err"}]

Init ==
    /\ cur = [r \in Roots |-> NoId]
    /\ pend = [r \in Roots |-> {}]
    /\ disk = [r \in Roots |-> {[cur |-> NoId, pend |-> {}]}]
    /\ gens = [r \in Roots |-> {}]
    /\ gdisk = [r \in Roots |-> {{}}]
    /\ carries = [r \in Roots |-> [i \in Ids |-> {}]]
    /\ lock = [r \in Roots |-> Nobody]
    /\ phase = [p \in Procs |-> "idle"]
    /\ left = [p \in Procs |-> {}]
    /\ at = [p \in Procs |-> "none"]
    /\ over = [p \in Procs |-> {}]
    /\ roots = [p \in Procs |-> {}]
    /\ id = [p \in Procs |-> NoId]
    /\ seen = [p \in Procs |-> NoId]
    /\ gone = [p \in Procs |-> NoId]
    /\ target = [i \in Ids |-> {}]
    /\ outcome = [i \in Ids |-> "none"]

-----------------------------------------------------------------------------
(* File-system operations on one root.                                     *)

\* The deployments whose values consumers of root r read.
Installed(r) == IF cur[r] = NoId THEN {} ELSE carries[r][cur[r]]

\* An unsynced change: any state since the last sync may be the one on disk.
\* (Kept only where a power loss can happen.)
Unsynced(states, now) == IF "power" \in Faults THEN states \cup {now} ELSE {now}

SetDir(r, c, q) ==
    /\ cur' = [cur EXCEPT ![r] = c]
    /\ pend' = [pend EXCEPT ![r] = q]
    /\ disk' = [disk EXCEPT ![r] = Unsynced(@, [cur |-> c, pend |-> q])]

SyncRoot(r) ==
    disk' = [disk EXCEPT ![r] = {[cur |-> cur[r], pend |-> pend[r]]}]

SetGens(r, g) ==
    /\ gens' = [gens EXCEPT ![r] = g]
    /\ gdisk' = [gdisk EXCEPT ![r] = Unsynced(@, g)]

SyncStore(r) == gdisk' = [gdisk EXCEPT ![r] = {gens[r]}]

-----------------------------------------------------------------------------
(* The control of one process.                                             *)

\* Slip: the public root is switched before the secret root.
HerePublicFirst(p) == IF Public \in left[p] THEN Public ELSE Secrets

\* The root process p works on.  Locks, recovery, switches and prunes take
\* the secret root first; generations are prepared in the public root first.
Here(p) ==
    IF left[p] = Roots
    THEN IF phase[p] = "prepare" THEN Public ELSE Secrets
    ELSE IF Secrets \in left[p] THEN Secrets ELSE Public

\* The first operation of a phase in a root.
FirstStep(ph) ==
    CASE ph = "lock" -> "take"
      [] ph = "recover" -> "read"
      [] ph = "cleanup" -> "read"
      [] ph = "prepare" -> "stage"
      [] ph = "switch" -> "rename"
      [] ph = "prune" -> "prune"
      [] OTHER -> "none"

Enter(p, ph, rs) ==
    /\ phase' = [phase EXCEPT ![p] = ph]
    /\ left' = [left EXCEPT ![p] = rs]
    /\ at' = [at EXCEPT ![p] = FirstStep(ph)]
    /\ seen' = [seen EXCEPT ![p] = NoId]
    /\ gone' = [gone EXCEPT ![p] = NoId]

Goto(p, step) ==
    /\ at' = [at EXCEPT ![p] = step]
    /\ UNCHANGED <<phase, left, over, roots, id, lock, ghostVars>>

\* Slip: the lock file of the public root stays open.
ReturnKeepingLock(p, result) ==
    /\ Enter(p, "idle", {})
    /\ over' = [over EXCEPT ![p] = {}]
    /\ roots' = [roots EXCEPT ![p] = {}]
    /\ id' = [id EXCEPT ![p] = NoId]
    /\ lock' = IF lock[Secrets] = p THEN [lock EXCEPT ![Secrets] = Nobody] ELSE lock
    /\ outcome' = IF id[p] \in Ids
                  THEN [outcome EXCEPT ![id[p]] = result] ELSE outcome
    /\ target' = target

\* The process returns `result`; its locks are dropped with it.
Return(p, result) ==
    /\ Enter(p, "idle", {})
    /\ over' = [over EXCEPT ![p] = {}]
    /\ roots' = [roots EXCEPT ![p] = {}]
    /\ id' = [id EXCEPT ![p] = NoId]
    /\ lock' = [r \in Roots |-> IF lock[r] = p THEN Nobody ELSE lock[r]]
    /\ outcome' = IF id[p] \in Ids
                  THEN [outcome EXCEPT ![id[p]] = result] ELSE outcome
    /\ target' = target

Unused == {i \in Ids : target[i] = {}}

\* generation_id(): the clock and the pid, never the same twice.  Only the
\* order of ids matters, so a monotone clock may as well count.
GenerationId(i) ==
    /\ i \in Unused
    /\ MonotoneClock => \A j \in Unused : i <= j

\* Root Here(p) is done: the next root of this phase, or the next phase.
Advance(p) ==
    LET rest == left[p] \ {Here(p)} IN
    \/ /\ rest # {}
       /\ Enter(p, phase[p], rest)
       /\ UNCHANGED <<over, roots, id, lock, ghostVars>>
    \/ /\ rest = {} /\ phase[p] = "recover" /\ roots[p] # {}
       /\ Enter(p, "prepare", roots[p])
       /\ \E i \in Ids :
            /\ GenerationId(i)
            /\ id' = [id EXCEPT ![p] = i]
            /\ target' = [target EXCEPT ![i] = roots[p]]
       /\ UNCHANGED <<over, roots, lock, outcome>>
    \/ /\ rest = {} /\ phase[p] \in {"prepare", "switch"}
       /\ Enter(p, IF phase[p] = "prepare" THEN "switch" ELSE "prune", roots[p])
       /\ UNCHANGED <<over, roots, id, lock, ghostVars>>
    \/ /\ rest = {} /\ phase[p] = "recover" /\ roots[p] = {}
       /\ Return(p, "ok")
    \/ /\ rest = {} /\ phase[p] \in {"prune", "cleanup"}
       /\ Return(p, IF phase[p] = "prune" THEN "ok" ELSE "err")

-----------------------------------------------------------------------------
(* The operations.                                                         *)

\* deploy_together (both locks, any roots), recover (both locks, no root),
\* deploy_if on the public root, and recover_alone.
Operations ==
    {<<Roots, rs>> : rs \in SUBSET Roots} \cup {<<{Public}, {Public}>>, <<{Public}, {}>>}

\* The ids the model still has for processes that have not drawn theirs.
IdsLeft == Cardinality(Unused)
             > Cardinality({q \in Procs : roots[q] # {} /\ id[q] = NoId})

Begin(p, o) ==
    /\ phase[p] = "idle"
    /\ o[2] # {} => IdsLeft
    /\ Enter(p, "lock", o[1])
    /\ over' = [over EXCEPT ![p] = o[1]]
    /\ roots' = [roots EXCEPT ![p] = o[2]]
    /\ UNCHANGED <<fsVars, id, lock, ghostVars>>

\* Slip: only the roots that are deployed into are recovered.
LockRecoveringOwn(p) ==
    /\ at[p] = "take"
    /\ lock[Here(p)] = Nobody
    /\ lock' = [lock EXCEPT ![Here(p)] = p]
    /\ LET rest == left[p] \ {Here(p)} IN
         IF rest # {} THEN Enter(p, "lock", rest)
         ELSE Enter(p, "recover", IF roots[p] = {} THEN over[p] ELSE roots[p])
    /\ UNCHANGED <<fsVars, over, roots, id, ghostVars>>

\* Slip: one lock, the secret root's, is taken for a joint deployment.
LockOne(p) ==
    /\ at[p] = "take"
    /\ lock[Here(p)] = Nobody
    /\ lock' = [lock EXCEPT ![Here(p)] = p]
    /\ Enter(p, "recover", over[p])
    /\ UNCHANGED <<fsVars, over, roots, id, ghostVars>>

\* lock_deployments: an exclusive flock per root.
Lock(p) ==
    /\ at[p] = "take"
    /\ lock[Here(p)] = Nobody
    /\ lock' = [lock EXCEPT ![Here(p)] = p]
    /\ LET rest == left[p] \ {Here(p)} IN
         IF rest # {} THEN Enter(p, "lock", rest) ELSE Enter(p, "recover", over[p])
    /\ UNCHANGED <<fsVars, over, roots, id, ghostVars>>

\* Slip: every pending pointer is taken for an uncommitted deployment.
DiscardsAll(r, s) == pend[r]

\* The pending pointers a recovery that read s discards and moves forward.
Discards(r, s) == pend[r] \ {s}
Forwards(r, s) == pend[r] \cap {s}

\* recover_pending reads the commit root's `.current`: of the public root,
\* the secret root's; the secret root has none.
RecRead(p) ==
    LET r == Here(p)
        s == IF r = Public THEN cur[Secrets] ELSE NoId IN
    /\ at[p] = "read"
    /\ IF pend[r] = {} THEN Advance(p)
       ELSE /\ Goto(p, IF Discards(r, s) # {} THEN "discard" ELSE "forward")
            /\ seen' = [seen EXCEPT ![p] = s]
            /\ gone' = gone
    /\ UNCHANGED fsVars

\* The pointer of an uncommitted deployment goes first ...
RecDiscard(p) ==
    LET r == Here(p) IN
    /\ at[p] = "discard"
    /\ \E i \in Discards(r, seen[p]) :
         /\ SetDir(r, cur[r], pend[r] \ {i})
         /\ gone' = [gone EXCEPT ![p] = i]
    /\ Goto(p, "remove")
    /\ UNCHANGED <<gens, gdisk, carries, seen>>

\* ... then its generation, unless it is the current one.
RecRemove(p) ==
    LET r == Here(p) IN
    /\ at[p] = "remove"
    /\ SetGens(r, IF cur[r] = gone[p] THEN gens[r] ELSE gens[r] \ {gone[p]})
    /\ Goto(p, IF Discards(r, seen[p]) # {} THEN "discard" ELSE "rsync")
    /\ UNCHANGED <<cur, pend, disk, carries, seen, gone>>

RecSync(p) ==
    LET r == Here(p) IN
    /\ at[p] = "rsync"
    /\ SyncStore(r) /\ SyncRoot(r)
    /\ IF Forwards(r, seen[p]) = {} THEN Advance(p)
       ELSE Goto(p, "forward") /\ UNCHANGED <<seen, gone>>
    /\ UNCHANGED <<cur, pend, gens, carries>>

\* A committed deployment is finished: its pending pointer becomes current.
RecForward(p) ==
    LET r == Here(p) IN
    /\ at[p] = "forward"
    /\ seen[p] \in gens[r]
    /\ SetDir(r, seen[p], pend[r] \ {seen[p]})
    /\ Goto(p, "fsync")
    /\ UNCHANGED <<gens, gdisk, carries, seen, gone>>

RecForwardSync(p) ==
    /\ at[p] = "fsync"
    /\ SyncRoot(Here(p))
    /\ Advance(p)
    /\ UNCHANGED <<cur, pend, gens, gdisk, carries>>

\* prepare: the staging directory gets a copy of the current generation and
\* the batch's entries, and is synced as a whole.
Stage(p) ==
    LET r == Here(p) IN
    /\ at[p] = "stage"
    /\ cur[r] \in gens[r] \cup {NoId}
    /\ carries' = [carries EXCEPT ![r][id[p]] = Installed(r) \cup {id[p]}]
    /\ Goto(p, "publish")
    /\ UNCHANGED <<cur, pend, disk, gens, gdisk, seen, gone>>

\* The rename of the staging directory to the generation ...
Publish(p) ==
    LET r == Here(p) IN
    /\ at[p] = "publish"
    /\ SetGens(r, gens[r] \cup {id[p]})
    /\ Goto(p, "settle")
    /\ UNCHANGED <<cur, pend, disk, carries, seen, gone>>

\* Slip: the store is not synced after the rename.
SettleRootOnly(p) ==
    LET r == Here(p) IN
    /\ at[p] = "settle"
    /\ SyncRoot(r)
    /\ Goto(p, "point")
    /\ UNCHANGED <<cur, pend, gens, gdisk, carries, seen, gone>>

\* ... synced, with the service links, before a pointer names it.
Settle(p) ==
    LET r == Here(p) IN
    /\ at[p] = "settle"
    /\ SyncStore(r) /\ SyncRoot(r)
    /\ Goto(p, "point")
    /\ UNCHANGED <<cur, pend, gens, carries, seen, gone>>

Point(p) ==
    LET r == Here(p) IN
    /\ at[p] = "point"
    /\ SetDir(r, cur[r], pend[r] \cup {id[p]})
    /\ Goto(p, "psync")
    /\ UNCHANGED <<gens, gdisk, carries, seen, gone>>

\* Slip: the pending pointer is not synced.
PointNoSync(p) ==
    /\ at[p] = "psync"
    /\ Advance(p)
    /\ UNCHANGED <<cur, pend, disk, gens, gdisk, carries>>

PointSync(p) ==
    /\ at[p] = "psync"
    /\ SyncRoot(Here(p))
    /\ Advance(p)
    /\ UNCHANGED <<cur, pend, gens, gdisk, carries>>

\* switch: the pending pointer is renamed to `.current`, then synced.
Switch(p) ==
    LET r == Here(p) IN
    /\ at[p] = "rename"
    /\ SetDir(r, id[p], pend[r] \ {id[p]})
    /\ Goto(p, "ssync")
    /\ UNCHANGED <<gens, gdisk, carries, seen, gone>>

\* Slip: the switch is not synced.
SwitchNoSync(p) ==
    /\ at[p] = "ssync"
    /\ Advance(p)
    /\ UNCHANGED <<cur, pend, disk, gens, gdisk, carries>>

SwitchSync(p) ==
    /\ at[p] = "ssync"
    /\ SyncRoot(Here(p))
    /\ Advance(p)
    /\ UNCHANGED <<cur, pend, gens, gdisk, carries>>

\* prune_generations keeps the active generation and the newest others.
Newer(r, g) == {h \in gens[r] : h > g}
Keep(r, active) ==
    {active} \cup {g \in gens[r] \ {active} :
                     Cardinality(Newer(r, g) \cup {active}) < Retained}

\* One generation after the other goes ...
PruneOne(p) ==
    LET r == Here(p) IN
    /\ at[p] = "prune"
    /\ \E g \in gens[r] \ Keep(r, id[p]) : SetGens(r, gens[r] \ {g})
    /\ Goto(p, "prune")
    /\ UNCHANGED <<cur, pend, disk, carries, seen, gone>>

\* ... and the store is synced.
PruneDone(p) ==
    LET r == Here(p) IN
    /\ at[p] = "prune"
    /\ gens[r] \subseteq Keep(r, id[p])
    /\ SyncStore(r)
    /\ Advance(p)
    /\ UNCHANGED <<cur, pend, disk, gens, carries>>

-----------------------------------------------------------------------------
(* Faults.                                                                 *)

\* The next operation of p fails.  Before the generation is prepared the
\* process just returns; later it recovers its roots first, ignoring errors.
Fail(p) ==
    /\ "io" \in Faults
    /\ \/ /\ phase[p] \in {"lock", "recover"}
          /\ Return(p, "err")
       \/ /\ phase[p] \in {"prepare", "switch", "prune"}
          /\ Enter(p, "cleanup", over[p])
          /\ UNCHANGED <<over, roots, id, lock, ghostVars>>
       \/ /\ phase[p] = "cleanup"
          /\ Advance(p)
    /\ UNCHANGED fsVars

\* The process dies: its locks are gone, the file system stays as it is.
Kill(p) ==
    /\ "kill" \in Faults
    /\ phase[p] # "idle"
    /\ Enter(p, "idle", {})
    /\ over' = [over EXCEPT ![p] = {}]
    /\ roots' = [roots EXCEPT ![p] = {}]
    /\ id' = [id EXCEPT ![p] = NoId]
    /\ lock' = [r \in Roots |-> IF lock[r] = p THEN Nobody ELSE lock[r]]
    /\ UNCHANGED <<fsVars, ghostVars>>

\* The host loses power: every process is gone, and every directory is left
\* as one of the states it had since its last sync.
PowerLoss ==
    /\ "power" \in Faults
    /\ \E d \in [Roots -> UNION {disk[r] : r \in Roots}],
          g \in [Roots -> UNION {gdisk[r] : r \in Roots}] :
         /\ \A r \in Roots : d[r] \in disk[r] /\ g[r] \in gdisk[r]
         /\ cur' = [r \in Roots |-> d[r].cur]
         /\ pend' = [r \in Roots |-> d[r].pend]
         /\ disk' = [r \in Roots |-> {d[r]}]
         /\ gens' = g
         /\ gdisk' = [r \in Roots |-> {g[r]}]
    /\ lock' = [r \in Roots |-> Nobody]
    /\ phase' = [p \in Procs |-> "idle"]
    /\ left' = [p \in Procs |-> {}]
    /\ at' = [p \in Procs |-> "none"]
    /\ over' = [p \in Procs |-> {}]
    /\ roots' = [p \in Procs |-> {}]
    /\ id' = [p \in Procs |-> NoId]
    /\ seen' = [p \in Procs |-> NoId]
    /\ gone' = [p \in Procs |-> NoId]
    /\ UNCHANGED <<carries, ghostVars>>

-----------------------------------------------------------------------------
\* One operation of process p once it has begun.
Step(p) ==
    \/ Lock(p)
    \/ RecRead(p) \/ RecDiscard(p) \/ RecRemove(p) \/ RecSync(p)
    \/ RecForward(p) \/ RecForwardSync(p)
    \/ Stage(p) \/ Publish(p) \/ Settle(p) \/ Point(p) \/ PointSync(p)
    \/ Switch(p) \/ SwitchSync(p)
    \/ PruneOne(p) \/ PruneDone(p)

Next ==
    \/ \E p \in Procs :
         \/ \E o \in Operations : Begin(p, o)
         \/ Step(p)
         \/ Fail(p)
         \/ Kill(p)
    \/ PowerLoss

\* A process that can run does; a flock it waits for and that is released
\* again and again is granted in the end (the kernel queues the waiters).
Fairness == \A p \in Procs : WF_vars(Step(p)) /\ SF_vars(Lock(p))

Spec == Init /\ [][Next]_vars
FairSpec == Spec /\ Fairness

-----------------------------------------------------------------------------
(* Properties.                                                             *)

\* `.current` always names a generation that is there, whatever fails,
\* crashes or was not synced: consumers never follow a dangling link, and
\* prepare and recover never refuse the root for it.
NoDangling == \A r \in Roots : cur[r] # NoId => cur[r] \in gens[r]

\* Once no deployment is pending in the public root, every joint deployment
\* is in both roots or in neither (the promise of deploy_together).
JointAtomicity ==
    pend[Public] = {} =>
      \A i \in Ids : target[i] = Roots =>
        (i \in Installed(Secrets) <=> i \in Installed(Public))

\* A deployment whose caller was told it succeeded stays installed in all
\* its roots, through crashes, power losses and later deployments.
AckedInstalled ==
    \A i \in Ids : outcome[i] = "ok" =>
      \A r \in target[i] : i \in Installed(r)

\* A recovery of the public root decides by the secret root's `.current`,
\* which recover_alone reads without that root's lock: it is never stale when
\* a pointer is discarded or moved forward because of it.
ViewIsCurrent ==
    \A p \in Procs :
      (at[p] \in {"discard", "remove", "rsync", "forward"} /\ Here(p) = Public)
        => seen[p] = cur[Secrets]

\* No deadlock over the two root locks: every operation ends.
EveryOperationEnds ==
    \A p \in Procs : phase[p] # "idle" ~> phase[p] = "idle"

-----------------------------------------------------------------------------
(* The abstract specification.  The secret root's `.current` commits a     *)
(* joint deployment: from then on the public root's logical content is the *)
(* pending generation of the same id.                                      *)
Logical(r) ==
    IF r = Public /\ cur[Secrets] \in pend[Public]
    THEN carries[Public][cur[Secrets]] ELSE Installed(r)

Abstract == INSTANCE JointPublish
    WITH requested <- target, published <- [r \in Roots |-> Logical(r)]

\* Without a power loss, the two-root deployment with its crashes, failures
\* and recoveries implements atomic publication (deploy_together's comment).
ImplementsJointPublish == Abstract!Spec

-----------------------------------------------------------------------------
(* The inductive invariant behind the theorems of GenerationDeployProofs.  *)

Active(p) == phase[p] \notin {"idle", "lock"}

\* What the program counter of process p says about its roots and its id.
Control(p) ==
    /\ phase[p] = "idle" <=> at[p] = "none"
    /\ phase[p] = "lock" <=> at[p] = "take"
    /\ phase[p] \in {"recover", "cleanup"} <=>
         at[p] \in {"read", "discard", "remove", "rsync", "forward", "fsync"}
    /\ phase[p] = "prepare" <=>
         at[p] \in {"stage", "publish", "settle", "point", "psync"}
    /\ phase[p] = "switch" <=> at[p] \in {"rename", "ssync"}
    /\ phase[p] = "prune" <=> at[p] = "prune"
    /\ phase[p] # "idle" => left[p] # {} /\ Public \in over[p]
    /\ left[p] \subseteq over[p] /\ roots[p] \subseteq over[p]
    /\ phase[p] \in {"prepare", "switch", "prune"} => left[p] \subseteq roots[p]
    /\ phase[p] \in {"prepare", "switch", "prune", "cleanup"} =>
         id[p] \in Ids /\ roots[p] # {} /\ target[id[p]] = roots[p]
    /\ phase[p] \in {"idle", "lock", "recover"} => id[p] = NoId

AllControl == \A p \in Procs : Control(p)

\* Whoever is past its locks holds them.
Locking(p) ==
    /\ Active(p) => \A r \in over[p] : lock[r] = p
    /\ phase[p] = "lock" => \A r \in over[p] \ left[p] : lock[r] = p

\* A root names only generations of deployments for it.
Pointers ==
    /\ \A r \in Roots : cur[r] # NoId => r \in target[cur[r]]
    /\ \A r \in Roots : \A i \in pend[r] : r \in target[i]

\* A generation carries only entries of deployments for its root.
Contents ==
    \A r \in Roots : \A g \in Ids : \A i \in carries[r][g] : r \in target[i]

\* Logically, a joint deployment is in both roots or in neither.
LogicalAtomicity ==
    \A i \in Ids : target[i] = Roots =>
      (i \in Logical(Secrets) <=> i \in Logical(Public))

\* The public half of a committed deployment can be finished.
Forwardable ==
    cur[Secrets] \in pend[Public] =>
      /\ cur[Secrets] \in gens[Public]
      /\ Installed(Public) \subseteq carries[Public][cur[Secrets]]

\* An id that was never drawn has no outcome.
Outcomes == \A i \in Ids : target[i] = {} => outcome[i] = "none"

\* The generation of p carries what is installed and p's own entries.
Staged(p, r) == carries[r][id[p]] = Installed(r) \cup {id[p]}
Prepared(p, r) == Staged(p, r) /\ id[p] \in gens[r] /\ id[p] \in pend[r]
Switched(p, r) == cur[r] = id[p] /\ id[p] \in carries[r][id[p]]

\* How far a recovery has got ...
RecoveryProgress(p) ==
    /\ phase[p] = "recover" =>
         \A r \in over[p] : r \notin left[p] => pend[r] = {}
    /\ at[p] = "fsync" => pend[Here(p)] = {}
    /\ at[p] \in {"rsync", "forward"} => Discards(Here(p), seen[p]) = {}
    /\ at[p] \in {"discard", "remove", "rsync", "forward"} =>
         seen[p] = (IF Here(p) = Public THEN cur[Secrets] ELSE NoId)
    /\ at[p] = "forward" => seen[p] \in pend[Here(p)]
    /\ at[p] = "remove" => gone[p] \notin pend[Here(p)]

\* ... and how far a deployment has.
DeployProgress(p) ==
    /\ phase[p] \in {"prepare", "switch", "prune"} =>
         \A r \in over[p] : pend[r] \subseteq {id[p]}
    /\ phase[p] = "prepare" =>
         /\ \A r \in Roots : cur[r] # id[p]
         /\ \A r \in roots[p] \ left[p] : Prepared(p, r)
         /\ at[p] \in {"publish", "settle", "point", "psync"} => Staged(p, Here(p))
         /\ at[p] \in {"settle", "point", "psync"} => id[p] \in gens[Here(p)]
         /\ at[p] = "psync" => id[p] \in pend[Here(p)]
    /\ phase[p] = "switch" =>
         /\ \A r \in roots[p] \ left[p] : Switched(p, r)
         /\ \A r \in left[p] : IF r = Here(p) /\ at[p] = "ssync"
                               THEN Switched(p, r) ELSE Prepared(p, r)
    /\ phase[p] = "prune" => \A r \in roots[p] : Switched(p, r)

AllLocking == \A p \in Procs : Locking(p)
AllProgress == \A p \in Procs : RecoveryProgress(p) /\ DeployProgress(p)
Files == /\ NoDangling /\ Pointers /\ Contents /\ LogicalAtomicity
         /\ Forwardable /\ Outcomes /\ AckedInstalled

\* The inductive invariant: the control, the locks, the progress of every
\* process and the file system they work on.
IndInv == AllControl /\ AllLocking /\ AllProgress /\ Files
=============================================================================
