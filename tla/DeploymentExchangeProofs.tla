---------------------- MODULE DeploymentExchangeProofs ----------------------
(***************************************************************************)
(* What an exchange of values with a target keeps and reports, for any     *)
(* leaves, requests, receivers, edits of the store and faults.             *)
(*                                                                         *)
(* As long as receivers have not overlapped there is at most one, so that  *)
(* what it read when the connection was opened is still installed when it  *)
(* publishes: keys and generated values it finds are the ones it keeps.    *)
(* At most one receiver answers the operator, whoever else was left        *)
(* behind; between the batch and the report its answer covers all that was *)
(* asked for, and every value it made is on its way to the store.          *)
(***************************************************************************)
EXTENDS DeploymentExchange, TLAPS

\* A value that is there has contents.
Vals == {None} \cup [v : Nat, c : Nat \ {0}]
\* Of an installed value the file may be gone, but not of a key.
Installations == {h \in [Values -> [v : Nat, c : Nat]] : \A i \in Tasks : h[i] \in Vals}
Records == Values \X Vals

Plans == [missing : SUBSET Values, host : SUBSET Values, generate : SUBSET Generatable,
          shared : SUBSET Values, derived : SUBSET Values, framed : SUBSET Derived]
Results == {"none", "mismatch", "changed", "nothing", "old", "panic", "unset", "old target",
            "generator", "invalid", "rejected", "lost", "done"}
Ops == [pc : {"idle", "connecting", "asking", "planned", "waiting", "saving"}, at : Nat,
        expected : SUBSET Values, mismatch : SUBSET Values, unchecked : SUBSET Values, plan : Plans,
        left : SUBSET Values, todo : SUBSET Records, told : SUBSET Records, edited : SUBSET Values,
        result : Results]
Batches == [entries : SUBSET Values, given : [Values -> Vals], generate : SUBSET Generatable,
            shared : SUBSET Values, derive : SUBSET Derived]
ReceiverStates ==
    [pc : {"none", "selected", "tasks", "values", "publishing", "answered"},
     current : [Values -> [v : Nat, c : Nat]], selected : SUBSET Values, batch : Batches, out : [Values -> Vals],
     records : SUBSET Records, refused : SUBSET Values, stranded : BOOLEAN]

ExchangeTypes ==
    /\ stored \in [Values -> Vals] /\ hosted \in Installations /\ box \in [Values -> Nat]
    /\ world.request \in SUBSET Own /\ world.refused \in SUBSET Values
    /\ op \in Ops /\ rx \in [Receivers -> ReceiverStates]
    /\ serial \in Nat /\ overlap \in BOOLEAN

\* A receiver that has not yet published.
Before == {"selected", "tasks", "values", "publishing"}

\* A receiver makes nothing before its turn, and is left behind only with a batch.
Orderly(x) ==
    /\ x.pc = "values" => \A i \in Values \ x.batch.entries : x.out[i] = None
    /\ x.stranded => x.pc \in {"tasks", "values", "publishing"}

\* Alone at work it keeps the keys and the generated values that are installed.
Alone(x, h, keys) ==
    /\ x.pc \in Before => x.current = h
    /\ x.pc \in {"values", "publishing"} =>
          \A i \in Tasks : x.out[i] # None =>
             /\ h[i] # None => x.out[i].c = h[i].c
             /\ Kind(i) = "box key" => x.out[i].c = keys[i]
    /\ x.pc = "publishing" =>
          \A i \in Own \cap Generatable :
             (i \notin x.batch.entries /\ x.out[i] # None /\ h[i].c # 0) =>
                x.out[i] = h[i] \/ (h[i].v = 0 /\ x.out[i].c = h[i].c)

\* A receiver that the operator is connected to.
IsLive(x) == x.pc # "none" /\ ~x.stranded
Attends(o, x) ==
    \/ o.pc \in {"asking", "planned"} /\ x.pc = "selected"
    \/ o.pc = "waiting" /\ x.pc \in {"tasks", "values", "publishing", "answered"}
    \/ o.pc = "saving" /\ x.pc = "answered"

\* What is requested, and the report will not name as left out or missing.
Asked(req, o) == req \ (o.left \cup LeftOut(o.plan))

\* The batch holds what was asked for, as the store had it.
BatchIsWhole(req, o, b, st) ==
    /\ Asked(req, o) \subseteq b.entries \cup b.generate \cup b.derive
    /\ b.entries \cap (b.generate \cup b.derive) = {}
    /\ \A i \in b.entries \ Tasks : b.given[i] # None
    /\ \A i \in b.entries \cap Generatable : i \in o.edited \/ st[i] = b.given[i]

\* What the receiver has to show for it.
OutputIsWhole(req, o, x) ==
    /\ x.pc \in {"values", "publishing", "answered"} =>
          /\ \A i \in x.batch.entries \cap Generatable : x.out[i] = x.batch.given[i]
          /\ \A i \in x.batch.entries : i \in Asked(req, o) /\ i \notin x.refused => x.out[i] # None
    /\ x.pc \in {"publishing", "answered"} =>
          /\ \A i \in x.batch.generate : <<i, x.out[i]>> \in x.records
          /\ \A i \in x.batch.generate \cup x.batch.derive : x.out[i] # None
          /\ \A p, q \in x.records : p[1] = q[1] => p = q

\* Every value it made is to be stored, is stored or quarantined, or shown to the
\* operator as not saved, or edited since.
RecordsAreKept(o, x, st, qu) ==
    o.pc = "saving" =>
        /\ o.todo \subseteq x.records
        /\ \A p \in x.records : p \in o.todo \/ p \in qu \cup o.told \/ st[p[1]] = p[2] \/ p[1] \in o.edited

\* What it answered with is installed.
AnswerIsInstalled(req, o, x, h) ==
    x.pc = "answered" => \A i \in Asked(req, o) \ x.refused : h[i] = x.out[i]

\* The receiver x serves the operator o, who has the store st and the quarantine qu.
Serves(req, o, x, st, qu) ==
    o.pc \in {"waiting", "saving"} =>
        BatchIsWhole(req, o, x.batch, st) /\ OutputIsWhole(req, o, x) /\ RecordsAreKept(o, x, st, qu)

KeysWork(h, keys) == \A i \in Values : (Kind(i) = "box key" /\ h[i] # None) => keys[i] = h[i].c

\* The inductive invariant.
ExchangeInv ==
    /\ ExchangeTypes
    /\ \A r \in Receivers : Orderly(rx[r])
    /\ \A q, r \in Receivers : IsLive(rx[q]) /\ IsLive(rx[r]) => q = r
    /\ \A r \in Receivers : IsLive(rx[r]) =>
          Attends(op, rx[r]) /\ Serves(world.request, op, rx[r], stored, quarantined)
    /\ ~overlap =>
          /\ \A q, r \in Receivers : rx[q].pc # "none" /\ rx[r].pc # "none" => q = r
          /\ \A r \in Receivers : Alone(rx[r], hosted, box)
          /\ \A r \in Receivers : IsLive(rx[r]) /\ op.pc \in {"waiting", "saving"} =>
                AnswerIsInstalled(world.request, op, rx[r], hosted)
          /\ KeysWork(hosted, box)

-----------------------------------------------------------------------------
(* Values and records.                                                     *)

LEMMA KindsApart ==
    /\ Generatable \subseteq Values /\ Derived \subseteq Values /\ Tasks \subseteq Values
    /\ Generatable \cap Derived = {} /\ Generatable \cap Tasks = {} /\ Derived \cap Tasks = {}
BY DEF Generatable, Derived, Tasks

LEMMA ValuesAre ==
    /\ None \in Vals
    /\ \A n \in Nat : Value(n + 1) \in Vals /\ Value(n + 1) # None
    /\ Default \in Vals /\ Default # None
    /\ \A x \in Vals : /\ x # None => x.c \in Nat \ {0} /\ x = [v |-> x.v, c |-> x.c]
                       /\ x.v \in Nat /\ x.c \in Nat
    /\ \A n \in Nat, m \in Nat \ {0} : [v |-> n, c |-> m] \in Vals /\ [v |-> n, c |-> m] # None
BY DEF Vals, None, Value, Default

LEMMA NothingAtAll ==
    /\ NoReceiver \in ReceiverStates /\ NoReceiver.pc = "none" /\ ~IsLive(NoReceiver)
    /\ \A h, keys : Orderly(NoReceiver) /\ Alone(NoReceiver, h, keys)
<1>1. [i \in Values |-> None] \in [Values -> Vals] /\ [i \in Values |-> None] \in [Values -> [v : Nat, c : Nat]]
  BY ValuesAre DEF None
<1>2. NoBatch \in Batches
  BY <1>1 DEF NoBatch, Batches
<1>3. NoReceiver \in ReceiverStates
  BY <1>1, <1>2 DEF NoReceiver, ReceiverStates
<1> QED BY <1>3 DEF NoReceiver, IsLive, Orderly, Alone, Before

LEMMA IdleOperator ==
    /\ NoOp \in Ops
    /\ \A why \in Results : op \in Ops => /\ Failed(why) \in Ops /\ Failed(why).pc = "idle"
                                         /\ Failed(why).result = why
<1>1. NoPlan \in Plans
  BY DEF NoPlan, Plans
<1>2. NoOp \in Ops
  BY <1>1 DEF NoOp, Ops, Results
<1> QED BY <1>1, <1>2 DEF Failed, NoOp, Ops

-----------------------------------------------------------------------------
(* Who moves.                                                              *)

\* The operator or the store, while the receivers stand still.
LEMMA OperatorMoves ==
    ASSUME ExchangeInv, op' \in Ops, stored' \in [Values -> Vals], serial' \in Nat,
           overlap' \in BOOLEAN, overlap => overlap',
           UNCHANGED <<hosted, box, world, rx>>,
           \A r \in Receivers : IsLive(rx[r]) =>
              /\ Attends(op', rx[r]) /\ Serves(world.request, op', rx[r], stored', quarantined')
              /\ ~overlap' /\ op'.pc \in {"waiting", "saving"} =>
                    AnswerIsInstalled(world.request, op', rx[r], hosted)
    PROVE  ExchangeInv'
<1>1. ExchangeTypes'
  BY DEF ExchangeInv, ExchangeTypes
<1> QED BY <1>1 DEF ExchangeInv

\* A receiver, and what follows from it for the operator it serves.
LEMMA ReceiverMoves ==
    ASSUME ExchangeInv, NEW r \in Receivers, rx[r].pc # "none",
           NEW x \in ReceiverStates, rx' = [rx EXCEPT ![r] = x],
           UNCHANGED <<world, overlap>>, op' \in Ops, stored' \in [Values -> Vals], serial' \in Nat,
           hosted' \in Installations, box' \in [Values -> Nat],
           Orderly(x),
           \/ ~IsLive(rx[r]) /\ ~IsLive(x) /\ UNCHANGED <<op, stored, quarantined>>
           \/ /\ IsLive(rx[r])
              /\ IsLive(x) =>
                    /\ Attends(op', x) /\ Serves(world.request, op', x, stored', quarantined')
                    /\ ~overlap /\ op'.pc \in {"waiting", "saving"} =>
                          AnswerIsInstalled(world.request, op', x, hosted'),
           ~overlap => Alone(x, hosted', box') /\ KeysWork(hosted', box')
    PROVE  ExchangeInv'
<1>1. ExchangeTypes'
  BY DEF ExchangeInv, ExchangeTypes
<1>2. rx'[r] = x /\ \A q \in Receivers : q # r => rx'[q] = rx[q]
  BY DEF ExchangeInv, ExchangeTypes
<1>3. \A q \in Receivers : Orderly(rx'[q])
  BY <1>2 DEF ExchangeInv, Orderly
<1>4. \A p, q \in Receivers : IsLive(rx'[p]) /\ IsLive(rx'[q]) => p = q
  BY <1>2 DEF ExchangeInv
<1>5. \A q \in Receivers : IsLive(rx'[q]) =>
        Attends(op', rx'[q]) /\ Serves(world.request, op', rx'[q], stored', quarantined')
  BY <1>2 DEF ExchangeInv
<1>6. ASSUME ~overlap
      PROVE  /\ \A p, q \in Receivers : rx'[p].pc # "none" /\ rx'[q].pc # "none" => p = q
             /\ \A q \in Receivers : Alone(rx'[q], hosted', box')
             /\ \A q \in Receivers : IsLive(rx'[q]) /\ op'.pc \in {"waiting", "saving"} =>
                   AnswerIsInstalled(world.request, op', rx'[q], hosted')
  <2>1. \A q \in Receivers : q # r => rx'[q].pc = "none"
    BY <1>2, <1>6 DEF ExchangeInv
  <2>2. \A q \in Receivers : q # r => Alone(rx'[q], hosted', box')
    BY <2>1 DEF Alone, Before
  <2> QED BY <1>2, <1>6, <2>1, <2>2 DEF IsLive
<1> QED BY <1>1, <1>3, <1>4, <1>5, <1>6 DEF ExchangeInv

\* A receiver ends, and the operator with it, unless it was left behind.
LEMMA ReceiverEnds ==
    ASSUME ExchangeInv, NEW r \in Receivers, rx[r].pc # "none", Drop(r),
           UNCHANGED <<world, overlap>>, serial' \in Nat, box' \in [Values -> Nat],
           stored' \in [Values -> Vals], hosted' \in Installations, op' \in Ops,
           rx[r].stranded => UNCHANGED <<op, stored, quarantined>>,
           ~overlap => KeysWork(hosted', box')
    PROVE  ExchangeInv'
<1>1. rx' = [rx EXCEPT ![r] = NoReceiver]
  BY DEF Drop
<1>2. IsLive(rx[r]) <=> ~rx[r].stranded
  BY DEF IsLive
<1> QED BY <1>1, <1>2, NothingAtAll, ReceiverMoves

\* Rejected or lost: nothing installed, nothing stored.
LEMMA ReceiverGone ==
    ASSUME ExchangeInv, NEW r \in Receivers, rx[r].pc # "none", Drop(r),
           UNCHANGED <<world, overlap, stored, quarantined, hosted>>, serial' \in Nat,
           box' \in [Values -> Nat], ~overlap => KeysWork(hosted, box'),
           NEW why \in Results, op' = IF rx[r].stranded THEN op ELSE Failed(why)
    PROVE  ExchangeInv'
<1>1. op \in Ops /\ op' \in Ops
  BY IdleOperator DEF ExchangeInv, ExchangeTypes
<1>2. stored' \in [Values -> Vals] /\ hosted' \in Installations
  BY DEF ExchangeInv, ExchangeTypes
<1> QED BY <1>1, <1>2, ReceiverEnds

-----------------------------------------------------------------------------
(* The operator plans.                                                     *)

LEMMA PlanIsPlan ==
    ASSUME ExchangeTypes, NEW set PROVE Plan(set) \in Plans
<1> DEFINE req == world.request
           optional == {i \in req \cap Optional : (IF i \in Derived THEN Source(i) ELSE i) \notin set}
           stale == {i \in req : Stale(i)}
           rest == req \ (optional \union stale)
           derived == {i \in rest \cap Derived : Source(i) \in set}
           waiting == (rest \cap Derived) \ derived
           unset == {i \in rest \ Derived : i \notin set}
           generate == unset \cap Generatable
           framed == {i \in waiting : Source(i) \in generate \union Shareable}
           shared == {Source(i) : i \in framed} \ generate
           host == {i \in unset : Kind(i) = "host default"}
           missing == optional \union stale \union (waiting \ framed)
                      \union {i \in unset : Kind(i) \in {"entered", "public", "box key"}}
           cannot == {i \in req \ missing : \/ KnownHostsAbsent(i, set)
                                            \/ world.known /\ world.protocol < NeedsProtocol(i, generate, framed, shared)}
           lost == missing \union cannot
           late == {i \in framed : Source(i) \notin (generate \ lost) \union shared}
<1>1. Plan(set) = [missing |-> lost \union late, host |-> host, generate |-> generate \ lost,
                   shared |-> shared, derived |-> derived, framed |-> framed \ late]
  BY DEF Plan
<1>2. req \in SUBSET Values
  BY LeavesAssumption DEF ExchangeTypes
<1> HIDE DEF req
<1>3. optional \in SUBSET Values /\ stale \in SUBSET Values /\ rest \in SUBSET Values
  BY <1>2
<1> HIDE DEF optional, stale, rest
<1>4. derived \in SUBSET Values /\ waiting \in SUBSET Derived /\ unset \in SUBSET Values
  BY <1>3
<1> HIDE DEF derived, waiting, unset
<1>5. generate \in SUBSET Generatable /\ framed \in SUBSET Derived /\ host \in SUBSET Values
  BY <1>4
<1>6. framed \in SUBSET Values /\ generate \in SUBSET Values /\ waiting \in SUBSET Values
  BY <1>4, <1>5, KindsApart
<1>7. missing \in SUBSET Values
  BY <1>3, <1>4, <1>6
<1> HIDE DEF generate, framed, host, missing
<1>8. shared \in SUBSET Values /\ lost \in SUBSET Values
  BY <1>2, <1>6, <1>7, LeavesAssumption
<1> HIDE DEF shared, lost
<1>9. late \in SUBSET Values
  BY <1>6
<1> HIDE DEF late
<1>10. /\ lost \union late \in SUBSET Values /\ generate \ lost \in SUBSET Generatable
       /\ framed \ late \in SUBSET Derived
  BY <1>5, <1>8, <1>9
<1> QED BY <1>1, <1>4, <1>5, <1>8, <1>10 DEF Plans

LEMMA ExcludeIsPlan ==
    ASSUME NEW p \in Plans, NEW mismatch \in SUBSET Values PROVE Exclude(p, mismatch) \in Plans
<1> DEFINE generate == p.generate \ mismatch
           framed == p.framed \ mismatch
           late == {i \in framed : Source(i) \notin generate \union p.shared}
           missing == p.missing \union mismatch \union late
           derived == p.derived \ mismatch
           host == p.host \ mismatch
           fr == framed \ late
<1>1. Exclude(p, mismatch) =
         [p EXCEPT !.generate = generate, !.framed = fr, !.derived = derived, !.host = host,
                   !.missing = missing]
  BY DEF Exclude, Plans
<1>2. /\ generate \in SUBSET Generatable /\ fr \in SUBSET Derived /\ derived \in SUBSET Values
      /\ host \in SUBSET Values /\ missing \in SUBSET Values
  BY KindsApart DEF Plans
<1> HIDE DEF generate, fr, derived, host, missing
<1> QED BY <1>1, <1>2 DEF Plans

\* Without a receiver of its own, the operator may turn to anything.
LEMMA OperatorTurns ==
    ASSUME ExchangeInv, op.pc \in {"idle", "connecting"}, op' \in Ops,
           overlap' \in BOOLEAN, overlap => overlap',
           UNCHANGED <<stored, quarantined, hosted, box, world, rx, serial>>
    PROVE  ExchangeInv'
<1>1. \A r \in Receivers : ~IsLive(rx[r])
  BY DEF ExchangeInv, Attends
<1>2. stored' \in [Values -> Vals] /\ serial' \in Nat
  BY DEF ExchangeInv, ExchangeTypes
<1> QED BY <1>1, <1>2, OperatorMoves

LEMMA SelectValuesKeeps == ASSUME ExchangeInv, SelectValues PROVE ExchangeInv'
<1> DEFINE expected == Expected(SetNow)
           at == op.at + 1
           pc == IF expected = {} THEN "idle" ELSE "connecting"
<1>1. /\ op.pc = "idle" /\ op' = [NoOp EXCEPT !.at = at, !.expected = expected, !.pc = pc]
      /\ UNCHANGED <<stored, quarantined, hosted, box, world, rx, serial, overlap>>
  BY DEF SelectValues
<1>2. expected \in SUBSET Values
  BY LeavesAssumption DEF Expected, ExchangeInv, ExchangeTypes
<1>3. at \in Nat /\ pc \in {"idle", "connecting"}
  BY DEF ExchangeInv, ExchangeTypes, Ops
<1> HIDE DEF expected, at, pc
<1>4. op' \in Ops
  BY <1>1, <1>2, <1>3, IdleOperator DEF Ops
<1>5. overlap' \in BOOLEAN /\ (overlap => overlap')
  BY <1>1 DEF ExchangeInv, ExchangeTypes
<1> QED BY <1>1, <1>4, <1>5, OperatorTurns

LEMMA ApproveRowsKeeps ==
    ASSUME ExchangeInv, NEW rows \in SUBSET Values, ApproveRows(rows) PROVE ExchangeInv'
<1> DEFINE plan == Exclude(Plan(SetNow), op.mismatch)
<1>1. /\ op.pc = "asking" /\ op' = [op EXCEPT !.pc = "planned", !.plan = plan, !.unchecked = rows]
      /\ UNCHANGED <<stored, quarantined, hosted, box, world, rx, serial, overlap>>
  BY DEF ApproveRows
<1>2. ExchangeTypes /\ op \in Ops /\ op.mismatch \in SUBSET Values
  BY DEF ExchangeInv, ExchangeTypes, Ops
<1>3. plan \in Plans
  BY <1>2, PlanIsPlan, ExcludeIsPlan
<1> HIDE DEF plan
<1>4. op' \in Ops /\ op'.pc = "planned"
  BY <1>1, <1>2, <1>3 DEF Ops
<1>5. \A r \in Receivers : IsLive(rx[r]) =>
        Attends(op', rx[r]) /\ Serves(world.request, op', rx[r], stored', quarantined')
  BY <1>1, <1>4 DEF ExchangeInv, Attends, Serves
<1> QED BY <1>1, <1>2, <1>4, <1>5, OperatorMoves DEF ExchangeTypes

LEMMA OpenDeployerKeeps ==
    ASSUME ExchangeInv, NEW r \in Receivers, OpenDeployer(r) PROVE ExchangeInv'
<1> DEFINE mismatch == Mismatches(op.expected)
           x == TargetState(op.expected)
<1>1. /\ op.pc = "connecting" /\ rx[r].pc = "none"
      /\ UNCHANGED <<stored, quarantined, hosted, box, world, serial>>
      /\ overlap' = (overlap \/ \E q \in Receivers : rx[q].pc # "none")
  BY DEF OpenDeployer
<1>2. \/ op' = Failed("mismatch") /\ UNCHANGED rx
      \/ op' = [op EXCEPT !.pc = "asking", !.mismatch = mismatch] /\ rx' = [rx EXCEPT ![r] = x]
  BY DEF OpenDeployer
<1>3. ExchangeTypes /\ op \in Ops /\ op.expected \in SUBSET Values
  BY DEF ExchangeInv, ExchangeTypes, Ops
<1>4. overlap' \in BOOLEAN /\ (overlap => overlap')
  BY <1>1, <1>3 DEF ExchangeTypes
<1>5. CASE op' = Failed("mismatch") /\ UNCHANGED rx
  <2>1. op' \in Ops
    BY <1>3, <1>5, IdleOperator DEF Results
  <2> QED BY <1>1, <1>4, <1>5, <2>1, OperatorTurns
<1>6. CASE op' = [op EXCEPT !.pc = "asking", !.mismatch = mismatch] /\ rx' = [rx EXCEPT ![r] = x]
  <2>1. mismatch \in SUBSET Values
    BY <1>3 DEF Mismatches
  <2> HIDE DEF mismatch
  <2>2. op' \in Ops /\ op'.pc = "asking"
    BY <1>3, <1>6, <2>1 DEF Ops
  <2>3. x \in ReceiverStates /\ x.pc = "selected" /\ ~x.stranded /\ x.current = hosted
    BY <1>3, NothingAtAll DEF TargetState, ReceiverStates, ExchangeTypes, Installations, NoReceiver
  <2> HIDE DEF x
  <2>4. rx'[r] = x /\ \A q \in Receivers : q # r => rx'[q] = rx[q]
    BY <1>3, <1>6 DEF ExchangeTypes
  <2>5. ExchangeTypes'
    BY <1>1, <1>3, <1>4, <1>6, <2>2, <2>3 DEF ExchangeTypes
  <2>6. \A q \in Receivers : Orderly(rx'[q])
    BY <1>1, <2>3, <2>4 DEF ExchangeInv, Orderly
  <2>7. \A q \in Receivers : q # r => ~IsLive(rx'[q])
    BY <1>1, <2>4 DEF ExchangeInv, Attends
  <2>8. Attends(op', x) /\ Serves(world'.request, op', x, stored', quarantined')
    BY <2>2, <2>3 DEF Attends, Serves
  <2>9. ASSUME ~overlap'
        PROVE  /\ \A p, q \in Receivers : rx'[p].pc # "none" /\ rx'[q].pc # "none" => p = q
               /\ \A q \in Receivers : Alone(rx'[q], hosted', box')
               /\ KeysWork(hosted', box')
    <3>1. \A q \in Receivers : q # r => rx'[q].pc = "none"
      BY <1>1, <2>4, <2>9
    <3>2. \A q \in Receivers : q # r => Alone(rx'[q], hosted', box')
      BY <3>1 DEF Alone, Before
    <3>3. Alone(x, hosted', box')
      BY <1>1, <2>3 DEF Alone
    <3>4. KeysWork(hosted', box')
      BY <1>1, <2>9 DEF ExchangeInv
    <3> QED BY <2>4, <3>1, <3>2, <3>3, <3>4
  <2> QED BY <2>2, <2>4, <2>5, <2>6, <2>7, <2>8, <2>9 DEF ExchangeInv
<1> QED BY <1>2, <1>5, <1>6

-----------------------------------------------------------------------------
(* The batch is sent.                                                      *)

LEMMA TheBatchIsBatch == ASSUME ExchangeTypes PROVE TheBatch \in Batches
<1>1. /\ op \in Ops /\ op.plan \in Plans /\ world.request \in SUBSET Values
      /\ stored \in [Values -> Vals]
  BY LeavesAssumption DEF ExchangeTypes, Ops
<1>2. op.plan.generate \in SUBSET Generatable /\ op.plan.shared \in SUBSET Values
      /\ op.plan.framed \in SUBSET Derived
  BY <1>1 DEF Plans
<1>3. Supplied \in SUBSET Values
  BY <1>1 DEF Supplied, Sent, Now
<1>4. Checked(op.plan.generate) \in SUBSET Generatable /\ Checked(op.plan.shared) \in SUBSET Values
      /\ op.plan.framed \ Uncheck \in SUBSET Derived
  BY <1>2 DEF Checked
<1> DEFINE given == [i \in Values |-> IF i \notin Supplied THEN None
                                      ELSE IF Kind(i) = "declared" /\ stored[i] = None THEN Default
                                      ELSE FromStore(i)]
<1>5. given \in [Values -> Vals]
  <2>1. ASSUME NEW i \in Values PROVE FromStore(i) \in Vals
    BY <1>1, LeavesAssumption DEF FromStore
  <2> QED BY <2>1, ValuesAre
<1>6. TheBatch = [entries |-> Supplied, given |-> given, generate |-> Checked(op.plan.generate),
                  shared |-> Checked(op.plan.shared), derive |-> op.plan.framed \ Uncheck]
  BY DEF TheBatch
<1> HIDE DEF given
<1> QED BY <1>3, <1>4, <1>5, <1>6 DEF Batches

\* A batch that is not refused holds what is asked for, and a value for each.
LEMMA SentIsWhole ==
    ASSUME ExchangeTypes, Refusal = "none", BatchValid(TheBatch),
           NEW o, o.left = Uncheck, o.plan = op.plan,
           NEW st, \A i \in Generatable : st[i] = stored[i]
    PROVE  BatchIsWhole(world.request, o, TheBatch, st)
<1>1. /\ TheBatch.entries = Supplied /\ TheBatch.generate = Checked(op.plan.generate)
      /\ TheBatch.derive = op.plan.framed \ Uncheck
      /\ \A i \in Supplied : i \in Values =>
            TheBatch.given[i] = IF Kind(i) = "declared" /\ stored[i] = None THEN Default ELSE FromStore(i)
  BY DEF TheBatch
<1>2. Supplied \subseteq Values
  BY LeavesAssumption DEF Supplied, Sent, Now, ExchangeTypes
<1>3. Asked(world.request, o) = Sent
  BY DEF Asked, Sent, Now
<1>4. Sent \subseteq Supplied \cup Checked(op.plan.generate) \cup (op.plan.framed \ Uncheck)
  BY DEF Supplied, Sent, Checked, Uncheck
<1>5. TheBatch.entries \cap (TheBatch.generate \cup TheBatch.derive) = {}
  BY DEF BatchValid
<1>6. ASSUME NEW i \in Supplied \ Tasks PROVE TheBatch.given[i] # None
  <2>1. i \in Values /\ Kind(i) # "local key"
    BY <1>2, <1>6 DEF Tasks
  <2>2. FromStore(i) = None => Kind(i) = "declared"
    <3>1. SourceGone = {} /\ BecameUnset = {}
      BY DEF Refusal
    <3>2. i \in Derived => FromStore(i) # None
      BY <1>6, <3>1 DEF SourceGone
    <3>3. i \notin Derived /\ stored[i] = None => Kind(i) = "declared"
      BY <1>6, <2>1, <3>1 DEF BecameUnset
    <3> QED BY <3>2, <3>3 DEF FromStore
  <2>3. Kind(i) = "declared" => FromStore(i) = stored[i]
    BY DEF FromStore, Derived
  <2> QED BY <1>1, <2>1, <2>2, <2>3, ValuesAre
<1>7. ASSUME NEW i \in Supplied \cap Generatable PROVE st[i] = TheBatch.given[i]
  <2>1. Kind(i) # "declared" /\ i \notin Derived /\ i \in Values
    BY <1>7 DEF Generatable, Derived
  <2> QED BY <1>1, <1>7, <2>1 DEF FromStore
<1> QED BY <1>1, <1>3, <1>4, <1>5, <1>6, <1>7 DEF BatchIsWhole

LEMMA SendBatchKeeps == ASSUME ExchangeInv, NEW r \in Receivers, SendBatch(r) PROVE ExchangeInv'
<1>1. /\ op.pc = "planned" /\ rx[r].pc = "selected"
      /\ UNCHANGED <<quarantined, hosted, box, world, serial, overlap>>
  BY DEF SendBatch
<1>2. PICK filled \in SUBSET Unmaterialized : stored' = [i \in Values |-> IF i \in filled THEN Default ELSE stored[i]]
  BY DEF SendBatch, Materialize
<1>3. ExchangeTypes /\ op \in Ops /\ rx[r] \in ReceiverStates
  BY DEF ExchangeInv, ExchangeTypes
<1>4. stored' \in [Values -> Vals] /\ \A i \in Generatable : stored'[i] = stored[i]
  <2>1. \A i \in filled : Kind(i) = "declared"
    BY DEF Unmaterialized
  <2> QED BY <1>2, <1>3, <2>1, ValuesAre DEF ExchangeTypes, Generatable
<1>5. IsLive(rx[r])
  BY <1>1 DEF ExchangeInv, Orderly, IsLive
<1>6. \/ \E why \in Results : op' = Failed(why) /\ Drop(r)
      \/ /\ Refusal = "none" /\ BatchValid(TheBatch)
         /\ op' = [op EXCEPT !.pc = "waiting", !.left = Uncheck]
         /\ rx' = [rx EXCEPT ![r].pc = "tasks", ![r].batch = TheBatch]
  <2>1. Refusal \in Results /\ "invalid" \in Results
    BY DEF Refusal, Results
  <2> QED BY <2>1 DEF SendBatch
<1>7. CASE \E why \in Results : op' = Failed(why) /\ Drop(r)
  <2>1. op' \in Ops /\ Drop(r)
    BY <1>3, <1>7, IdleOperator
  <2>2. /\ hosted' \in Installations /\ serial' \in Nat /\ box' \in [Values -> Nat]
        /\ ~overlap => KeysWork(hosted', box')
    BY <1>1, <1>3 DEF ExchangeInv, ExchangeTypes
  <2> QED BY <1>1, <1>4, <1>5, <2>1, <2>2, ReceiverEnds DEF IsLive
<1>8. CASE /\ Refusal = "none" /\ BatchValid(TheBatch)
           /\ op' = [op EXCEPT !.pc = "waiting", !.left = Uncheck]
           /\ rx' = [rx EXCEPT ![r].pc = "tasks", ![r].batch = TheBatch]
  <2> DEFINE b == TheBatch
             x == [rx[r] EXCEPT !.pc = "tasks", !.batch = b]
             left == Uncheck
  <2>1. b \in Batches
    BY <1>3, TheBatchIsBatch
  <2>2. left \in SUBSET Values
    <3>1. op.plan \in Plans /\ world.request \in SUBSET Values
      BY <1>3, LeavesAssumption DEF Ops, ExchangeTypes
    <3> QED BY <3>1, KindsApart DEF Uncheck, Unframed, Now, Plans
  <2>3. op' = [op EXCEPT !.pc = "waiting", !.left = left]
    BY <1>8
  <2> HIDE DEF left
  <2>4. op' \in Ops /\ op'.pc = "waiting" /\ op'.left = left /\ op'.plan = op.plan
    BY <1>3, <2>2, <2>3 DEF Ops
  <2>5. BatchIsWhole(world.request, op', b, stored')
    BY <1>3, <1>4, <1>8, <2>4, SentIsWhole DEF left
  <2> HIDE DEF b
  <2>6. x \in ReceiverStates /\ x.pc = "tasks" /\ x.batch = b /\ x.current = rx[r].current
        /\ x.stranded = rx[r].stranded
    BY <1>3, <2>1 DEF ReceiverStates
  <2>7. rx' = [rx EXCEPT ![r] = x]
    BY <1>3, <1>8 DEF b, ExchangeTypes, ReceiverStates
  <2> HIDE DEF x
  <2>8. Orderly(x)
    BY <1>1, <2>6 DEF ExchangeInv, Orderly, Before
  <2>9. Attends(op', x) /\ Serves(world.request, op', x, stored', quarantined')
        /\ AnswerIsInstalled(world.request, op', x, hosted')
    BY <2>4, <2>5, <2>6 DEF Attends, Serves, OutputIsWhole, RecordsAreKept, AnswerIsInstalled
  <2>10. ~overlap => Alone(x, hosted', box') /\ KeysWork(hosted', box')
    BY <1>1, <2>6 DEF ExchangeInv, Alone, Before
  <2>11. /\ hosted' \in Installations /\ box' \in [Values -> Nat] /\ serial' \in Nat
    BY <1>1, <1>3 DEF ExchangeTypes
  <2> QED BY <1>1, <1>4, <1>5, <2>4, <2>6, <2>7, <2>8, <2>9, <2>10, <2>11, ReceiverMoves
<1> QED BY <1>6, <1>7, <1>8

-----------------------------------------------------------------------------
(* The target.                                                             *)

LEMMA KeyIsThere ==
    ASSUME ExchangeTypes, NEW i \in Tasks
    PROVE  Key(i) \in Vals /\ Key(i) # None /\ (hosted[i] # None => Key(i) = hosted[i])
BY ValuesAre DEF Key, ExchangeTypes, Installations

\* A key put on its box is the installed one, if one is installed.
LEMMA AuthorizeKeeps ==
    ASSUME ExchangeInv, NEW keys \in SUBSET Tasks
    PROVE  /\ Authorize(keys) \in [Values -> Nat]
           /\ ~overlap => KeysWork(hosted, Authorize(keys))
<1>1. ExchangeTypes /\ box \in [Values -> Nat]
  BY DEF ExchangeInv, ExchangeTypes
<1>2. \A i \in keys : Key(i).c \in Nat /\ (hosted[i] # None => Key(i).c = hosted[i].c)
  BY <1>1, KeyIsThere, ValuesAre
<1>3. \A i \in Values : Authorize(keys)[i] = IF i \in keys THEN Key(i).c ELSE box[i]
  BY DEF Authorize
<1> QED BY <1>1, <1>2, <1>3 DEF Authorize, ExchangeInv, KeysWork

LEMMA SomeAuthorizedKeeps ==
    ASSUME ExchangeInv, NEW r \in Receivers, SomeAuthorized(r)
    PROVE  box' \in [Values -> Nat] /\ serial' \in Nat /\ (~overlap => KeysWork(hosted, box'))
<1>1. rx[r].batch.entries \in SUBSET Values /\ serial \in Nat
  BY DEF ExchangeInv, ExchangeTypes, ReceiverStates, Batches
<1>2. serial' \in Nat
  <2>1. serial' = serial \/ serial' = serial + 1
    BY DEF SomeAuthorized
  <2> QED BY <1>1, <2>1
<1>3. PICK keys \in SUBSET {i \in rx[r].batch.entries : Kind(i) = "box key" /\ KnownHosts(rx[r].batch, i)} :
        box' = Authorize(keys)
  BY DEF SomeAuthorized
<1>4. keys \in SUBSET Tasks
  BY <1>1, <1>3 DEF Tasks
<1> QED BY <1>2, <1>3, <1>4, AuthorizeKeeps

LEMMA RunTasksKeeps == ASSUME ExchangeInv, NEW r \in Receivers, RunTasks(r) PROVE ExchangeInv'
<1> DEFINE b == rx[r].batch
           run == b.entries \cap Tasks
           absent == {i \in run : Kind(i) = "box key" /\ ~KnownHosts(b, i)}
           made == run \ absent
           keys == {i \in made : Kind(i) = "box key"}
           out == [i \in Values |-> IF i \in made THEN TaskOutput(b, i)
                                    ELSE IF i \in b.entries \ Tasks THEN b.given[i] ELSE None]
           x == [rx[r] EXCEPT !.pc = "values", !.refused = absent, !.out = out]
<1>1. /\ rx[r].pc = "tasks" /\ box' = Authorize(keys)
      /\ serial' = (IF made = {} THEN serial ELSE serial + 1)
      /\ UNCHANGED <<stored, quarantined, hosted, world, op, overlap>>
  BY DEF RunTasks
<1>2. ExchangeTypes /\ op \in Ops /\ rx[r] \in ReceiverStates /\ b \in Batches /\ serial \in Nat
  BY DEF ExchangeInv, ExchangeTypes, ReceiverStates
<1>3. /\ b.entries \in SUBSET Values /\ b.given \in [Values -> Vals]
      /\ absent \in SUBSET Values /\ made \in SUBSET Values /\ made \subseteq Tasks \cap b.entries
      /\ \A i \in b.entries \cap Tasks : i \notin absent => i \in made
  BY <1>2 DEF Batches
<1>4. \A i \in keys : i \in made
  OBVIOUS
<1>5. \A i \in made : Kind(i) = "box key" => i \in keys
  OBVIOUS
<1>6. rx' = [rx EXCEPT ![r] = x]
  BY <1>2 DEF RunTasks, ExchangeTypes, ReceiverStates
<1> HIDE DEF keys, absent, made
<1>7. ASSUME NEW i \in made
      PROVE  TaskOutput(b, i) \in Vals /\ TaskOutput(b, i) # None /\ TaskOutput(b, i).c = Key(i).c
  <2>1. i \in Values /\ i \in Tasks /\ b.given[i].v \in Nat
    BY <1>3, <1>7, ValuesAre
  <2>2. Key(i).c \in Nat \ {0}
    BY <1>2, <2>1, KeyIsThere, ValuesAre
  <2> QED BY <2>1, <2>2, ValuesAre DEF TaskOutput
<1>8. /\ out \in [Values -> Vals]
      /\ \A i \in made : out[i] # None /\ out[i].c = Key(i).c
      /\ \A i \in b.entries \ Tasks : out[i] = b.given[i]
      /\ \A i \in Values \ b.entries : out[i] = None
      /\ \A i \in Tasks : out[i] # None => i \in made
  BY <1>3, <1>7, ValuesAre, KindsApart
<1> HIDE DEF out, b
<1>9. /\ x \in ReceiverStates /\ x.pc = "values" /\ x.refused = absent /\ x.out = out
      /\ x.batch = b /\ x.current = rx[r].current /\ x.stranded = rx[r].stranded
  BY <1>2, <1>3, <1>8 DEF ReceiverStates, b
<1> HIDE DEF x
<1>10. box' \in [Values -> Nat] /\ serial' \in Nat
  BY <1>1, <1>2, <1>3, <1>4, AuthorizeKeeps
<1>11. Orderly(x)
  BY <1>1, <1>8, <1>9 DEF ExchangeInv, Orderly, Before
<1>12. ASSUME ~overlap PROVE Alone(x, hosted', box') /\ KeysWork(hosted', box')
  <2>1. \A i \in Values : box'[i] = IF i \in keys THEN Key(i).c ELSE box[i]
    BY <1>1 DEF Authorize
  <2>2. x.current = hosted
    BY <1>1, <1>9, <1>12 DEF ExchangeInv, Alone, Before
  <2>3. ASSUME NEW i \in Tasks, x.out[i] # None
        PROVE  /\ hosted[i] # None => x.out[i].c = hosted[i].c
               /\ Kind(i) = "box key" => x.out[i].c = box'[i]
    <3>1. i \in made /\ i \in Values /\ i \in Tasks /\ x.out[i].c = Key(i).c
      BY <1>3, <1>8, <1>9, <2>3
    <3> QED BY <1>2, <1>5, <2>1, <3>1, KeyIsThere
  <2>4. KeysWork(hosted, box')
    BY <1>1, <1>3, <1>4, <1>12, AuthorizeKeeps
  <2> QED BY <1>1, <1>9, <2>2, <2>3, <2>4 DEF Alone
<1>13. ASSUME IsLive(rx[r])
       PROVE  /\ Attends(op', x) /\ Serves(world.request, op', x, stored', quarantined')
              /\ AnswerIsInstalled(world.request, op', x, hosted')
  <2>1. op.pc = "waiting" /\ BatchIsWhole(world.request, op, b, stored)
    BY <1>1, <1>13 DEF ExchangeInv, Attends, Serves, b
  <2>2. \A i \in b.entries \cap Generatable : out[i] = b.given[i]
    BY <1>8, KindsApart
  <2>3. \A i \in b.entries : i \notin absent => out[i] # None
    BY <1>3, <1>8, <2>1 DEF BatchIsWhole
  <2>4. OutputIsWhole(world.request, op, x)
    BY <1>9, <2>2, <2>3 DEF OutputIsWhole
  <2> QED BY <1>1, <1>9, <2>1, <2>4 DEF Attends, Serves, RecordsAreKept, AnswerIsInstalled
<1>14. IsLive(x) <=> IsLive(rx[r])
  BY <1>1, <1>9 DEF IsLive
<1>15. /\ hosted' \in Installations /\ stored' \in [Values -> Vals] /\ op' \in Ops
  BY <1>1, <1>2 DEF ExchangeTypes
<1> QED BY <1>1, <1>6, <1>9, <1>10, <1>11, <1>12, <1>13, <1>14, <1>15, ReceiverMoves

LEMMA TaskFailsKeeps == ASSUME ExchangeInv, NEW r \in Receivers, TaskFails(r) PROVE ExchangeInv'
<1>1. /\ rx[r].pc # "none" /\ Drop(r) /\ op' = IF rx[r].stranded THEN op ELSE Failed("rejected")
      /\ SomeAuthorized(r) /\ UNCHANGED <<stored, quarantined, hosted, world, overlap>>
  BY DEF TaskFails, Rejected
<1>2. "rejected" \in Results
  BY DEF Results
<1> QED BY <1>1, <1>2, SomeAuthorizedKeeps, ReceiverGone

\* A value adopted has contents.
LEMMA ProducedIsThere ==
    ASSUME ExchangeInv, NEW r \in Receivers, NEW i \in Values
    PROVE  Produced(r, i) \in Vals /\ Produced(r, i) # None
<1> DEFINE v == IF rx[r].current[i].v = 0 THEN serial + 1 ELSE rx[r].current[i].v
<1>1. rx[r].current[i].v \in Nat /\ hosted[i].c \in Nat /\ serial \in Nat
  BY DEF ExchangeInv, ExchangeTypes, ReceiverStates, Installations
<1>2. v \in Nat
  BY <1>1
<1>3. CASE i \in Own /\ rx[r].current[i] # None /\ hosted[i].c # 0
  <2>1. Produced(r, i) = [v |-> v, c |-> hosted[i].c]
    BY <1>3 DEF Produced
  <2> HIDE DEF v
  <2> QED BY <1>1, <1>2, <1>3, <2>1, ValuesAre
<1>4. CASE ~(i \in Own /\ rx[r].current[i] # None /\ hosted[i].c # 0)
  BY <1>1, <1>4, ValuesAre DEF Produced
<1> QED BY <1>3, <1>4

LEMMA GenerateValuesKeeps ==
    ASSUME ExchangeInv, NEW r \in Receivers, GenerateValues(r) PROVE ExchangeInv'
<1> DEFINE b == rx[r].batch
           made == b.generate \union b.shared
           records == {<<i, Produced(r, i)>> : i \in made}
           out == [i \in Values |-> IF i \in b.generate THEN Produced(r, i)
                                    ELSE IF i \in b.derive THEN Produced(r, Source(i))
                                    ELSE rx[r].out[i]]
           x == [rx[r] EXCEPT !.pc = "publishing", !.records = records, !.out = out]
<1>1. /\ rx[r].pc = "values" /\ UNCHANGED <<stored, quarantined, hosted, box, world, overlap>>
      /\ serial' \in {serial, serial + 1}
  BY DEF GenerateValues
<1>2. ExchangeTypes /\ op \in Ops /\ rx[r] \in ReceiverStates /\ b \in Batches /\ serial' \in Nat
  BY <1>1 DEF ExchangeInv, ExchangeTypes, ReceiverStates
<1>3. \/ Rejected(r)
      \/ rx' = [rx EXCEPT ![r] = x] /\ UNCHANGED op
  BY <1>2 DEF GenerateValues, ExchangeTypes, ReceiverStates
<1>4. CASE Rejected(r)
  <2>1. "rejected" \in Results
    BY DEF Results
  <2>2. Drop(r) /\ op' = IF rx[r].stranded THEN op ELSE Failed("rejected")
    BY <1>4 DEF Rejected
  <2>3. box' \in [Values -> Nat] /\ (~overlap => KeysWork(hosted, box'))
    BY <1>1, <1>2 DEF ExchangeInv, ExchangeTypes
  <2> QED BY <1>1, <1>2, <2>1, <2>2, <2>3, ReceiverGone
<1>5. CASE rx' = [rx EXCEPT ![r] = x] /\ UNCHANGED op
  <2>1. /\ b.generate \in SUBSET Generatable /\ b.derive \in SUBSET Derived /\ made \in SUBSET Values
        /\ b.generate \subseteq made /\ rx[r].out \in [Values -> Vals]
    BY <1>2, KindsApart DEF Batches, ReceiverStates
  <2> HIDE DEF made
  <2>2. \A i \in Values : Produced(r, i) \in Vals /\ Produced(r, i) # None
    BY ProducedIsThere
  <2>3. /\ records \in SUBSET Records
        /\ \A i \in made : <<i, Produced(r, i)>> \in records
        /\ \A p \in records : p[1] \in made /\ p = <<p[1], Produced(r, p[1])>>
    BY <2>1, <2>2 DEF Records
  <2>4. out \in [Values -> Vals]
    BY <2>1, <2>2, LeavesAssumption
  <2>5. /\ \A i \in b.generate : out[i] = Produced(r, i) /\ out[i] # None
        /\ \A i \in b.derive : out[i] # None
        /\ \A i \in Values : i \notin b.generate \cup b.derive => out[i] = rx[r].out[i]
    BY <2>1, <2>2, KindsApart, LeavesAssumption
  <2> HIDE DEF records, out, b
  <2>6. /\ x \in ReceiverStates /\ x.pc = "publishing" /\ x.records = records /\ x.out = out
        /\ x.batch = b /\ x.current = rx[r].current /\ x.stranded = rx[r].stranded
        /\ x.refused = rx[r].refused
    BY <1>2, <2>3, <2>4 DEF ReceiverStates, b
  <2> HIDE DEF x
  <2>7. Orderly(x)
    BY <1>1, <2>6 DEF ExchangeInv, Orderly, Before
  <2>8. ASSUME ~overlap PROVE Alone(x, hosted', box') /\ KeysWork(hosted', box')
    <3>1. Alone(rx[r], hosted, box) /\ KeysWork(hosted, box) /\ rx[r].current = hosted
      BY <1>1, <2>8 DEF ExchangeInv, Alone, Before
    <3>2. \A i \in Tasks : out[i] = rx[r].out[i]
      BY <2>1, <2>5, KindsApart
    <3>3. ASSUME NEW i \in Own \cap Generatable, i \notin b.entries, out[i] # None, hosted[i].c # 0
          PROVE  out[i] = hosted[i] \/ (hosted[i].v = 0 /\ out[i].c = hosted[i].c)
      <4>1. i \in Values /\ i \notin b.derive
        BY <2>1, KindsApart
      <4>2. i \in b.generate
        BY <1>1, <2>5, <3>3, <4>1 DEF ExchangeInv, Orderly, b
      <4>3. hosted[i] # None
        BY <3>3 DEF None
      <4>4. Produced(r, i) = [v |-> IF hosted[i].v = 0 THEN serial + 1 ELSE hosted[i].v, c |-> hosted[i].c]
        BY <3>1, <3>3, <4>3 DEF Produced
      <4>5. hosted[i] = [v |-> hosted[i].v, c |-> hosted[i].c]
        BY <1>2, <4>1 DEF ExchangeTypes, Installations
      <4> QED BY <2>5, <4>2, <4>4, <4>5
    <3> QED BY <1>1, <2>6, <3>1, <3>2, <3>3 DEF Alone
  <2>9. ASSUME IsLive(rx[r])
        PROVE  /\ Attends(op', x) /\ Serves(world.request, op', x, stored', quarantined')
               /\ AnswerIsInstalled(world.request, op', x, hosted')
    <3>1. /\ op.pc = "waiting" /\ BatchIsWhole(world.request, op, b, stored)
          /\ OutputIsWhole(world.request, op, rx[r])
      BY <1>1, <2>9 DEF ExchangeInv, Attends, Serves, b
    <3>2. \A i \in b.entries : out[i] = rx[r].out[i]
      BY <1>2, <2>5, <3>1 DEF BatchIsWhole, Batches
    <3>3. /\ \A i \in b.generate : <<i, out[i]>> \in records
          /\ \A i \in b.generate \cup b.derive : out[i] # None
      BY <2>1, <2>3, <2>5
    <3>4. \A p, q \in records : p[1] = q[1] => p = q
      BY <2>3
    <3>5. OutputIsWhole(world.request, op, x)
      BY <1>1, <2>6, <3>1, <3>2, <3>3, <3>4 DEF OutputIsWhole, b
    <3> QED BY <1>1, <1>5, <2>6, <3>1, <3>5 DEF Attends, Serves, RecordsAreKept, AnswerIsInstalled
  <2>10. IsLive(x) <=> IsLive(rx[r])
    BY <1>1, <2>6 DEF IsLive
  <2>11. /\ hosted' \in Installations /\ stored' \in [Values -> Vals] /\ op' \in Ops
         /\ box' \in [Values -> Nat]
    BY <1>1, <1>2, <1>5 DEF ExchangeTypes
  <2> QED BY <1>1, <1>2, <1>5, <2>6, <2>7, <2>8, <2>9, <2>10, <2>11, ReceiverMoves
<1> QED BY <1>3, <1>4, <1>5

\* A generation leaves a storage box the key that is installed for it.
LEMMA InstallAllKeeps ==
    ASSUME ExchangeInv, NEW r \in Receivers, rx[r].pc = "publishing", InstallAll(r)
    PROVE  /\ hosted' \in Installations
           /\ ~overlap => KeysWork(hosted', box)
<1>1. rx[r].out \in [Values -> Vals] /\ hosted \in Installations
  BY DEF ExchangeInv, ExchangeTypes, ReceiverStates
<1>2. \A i \in Values : hosted'[i] = IF i \in Resolved(r) THEN rx[r].out[i] ELSE hosted[i]
  BY DEF InstallAll
<1>3. \A i \in Resolved(r) : rx[r].out[i] # None
  BY DEF Resolved
<1>4. hosted' \in Installations
  <2>1. \A x \in Vals : x \in [v : Nat, c : Nat]
    BY DEF Vals, None
  <2>2. \A i \in Values : hosted'[i] \in [v : Nat, c : Nat]
    BY <1>1, <1>2, <2>1 DEF Installations
  <2>3. \A i \in Tasks : hosted'[i] \in Vals
    BY <1>1, <1>2, KindsApart DEF Installations
  <2> QED BY <2>2, <2>3 DEF InstallAll, Installations
<1>5. ASSUME ~overlap PROVE KeysWork(hosted', box)
  <2>1. SUFFICES ASSUME NEW i \in Values, Kind(i) = "box key", hosted'[i] # None
                 PROVE  box[i] = hosted'[i].c
    BY DEF KeysWork
  <2>2. i \in Tasks
    BY <2>1 DEF Tasks
  <2>3. rx[r].out[i] # None => rx[r].out[i].c = box[i]
    BY <1>5, <2>1, <2>2 DEF ExchangeInv, Alone
  <2>4. hosted[i] # None => box[i] = hosted[i].c
    BY <1>5, <2>1 DEF ExchangeInv, KeysWork
  <2> QED BY <1>2, <1>3, <2>1, <2>3, <2>4
<1> QED BY <1>2, <1>3, <1>4, <1>5

LEMMA PublishBatchKeeps == ASSUME ExchangeInv, NEW r \in Receivers, PublishBatch(r) PROVE ExchangeInv'
<1> DEFINE refused == RefusedThere(r)
           x == [rx[r] EXCEPT !.pc = "answered", !.refused = refused]
<1>1. /\ rx[r].pc = "publishing" /\ InstallAll(r)
      /\ UNCHANGED <<stored, quarantined, box, world, serial, overlap>>
  BY DEF PublishBatch
<1>2. ExchangeTypes /\ op \in Ops /\ rx[r] \in ReceiverStates
  BY DEF ExchangeInv, ExchangeTypes
<1>3. hosted' \in Installations /\ (~overlap => KeysWork(hosted', box))
  BY <1>1, InstallAllKeeps
<1>4. stored' \in [Values -> Vals] /\ box' \in [Values -> Nat] /\ serial' \in Nat
  BY <1>1, <1>2 DEF ExchangeTypes
<1>5. \/ Drop(r) /\ op' \in Ops /\ (rx[r].stranded => op' = op)
      \/ ~rx[r].stranded /\ rx' = [rx EXCEPT ![r] = x] /\ UNCHANGED op
  <2>1. Failed("rejected") \in Ops
    BY <1>2, IdleOperator DEF Results
  <2> QED BY <1>2, <2>1 DEF PublishBatch, Rejected, ExchangeTypes, ReceiverStates
<1>6. CASE Drop(r) /\ op' \in Ops /\ (rx[r].stranded => op' = op)
  BY <1>1, <1>3, <1>4, <1>6, ReceiverEnds
<1>7. CASE ~rx[r].stranded /\ rx' = [rx EXCEPT ![r] = x] /\ UNCHANGED op
  <2>1. refused \in SUBSET Values
    BY <1>2 DEF RefusedThere, Unfit, ExchangeTypes, ReceiverStates
  <2>2. /\ rx[r].refused \subseteq refused
        /\ \A i \in Values : i \notin refused /\ rx[r].out[i] # None => i \in Resolved(r)
    BY DEF RefusedThere, Unfit, Resolved
  <2> HIDE DEF refused
  <2>3. /\ x \in ReceiverStates /\ x.pc = "answered" /\ x.refused = refused /\ x.out = rx[r].out
        /\ x.batch = rx[r].batch /\ x.records = rx[r].records /\ ~x.stranded
    BY <1>2, <1>7, <2>1 DEF ReceiverStates
  <2> HIDE DEF x
  <2>4. IsLive(rx[r]) /\ IsLive(x)
    BY <1>1, <1>7, <2>3 DEF IsLive
  <2>5. /\ op.pc = "waiting" /\ BatchIsWhole(world.request, op, rx[r].batch, stored)
        /\ OutputIsWhole(world.request, op, rx[r])
    BY <1>1, <2>4 DEF ExchangeInv, Attends, Serves
  <2>6. OutputIsWhole(world.request, op, x)
    BY <1>1, <2>2, <2>3, <2>5 DEF OutputIsWhole
  <2>7. Attends(op', x) /\ Serves(world.request, op', x, stored', quarantined')
    BY <1>1, <1>7, <2>3, <2>5, <2>6 DEF Attends, Serves, RecordsAreKept
  <2>8. AnswerIsInstalled(world.request, op', x, hosted')
    <3>1. SUFFICES ASSUME NEW i \in Asked(world.request, op), i \notin refused
                   PROVE  hosted'[i] = rx[r].out[i]
      BY <1>7, <2>3 DEF AnswerIsInstalled
    <3>2. i \in Values
      BY <1>2, LeavesAssumption DEF Asked, ExchangeTypes
    <3>3. rx[r].out[i] # None
      BY <1>1, <2>2, <2>5, <3>1 DEF BatchIsWhole, OutputIsWhole
    <3> QED BY <1>1, <2>2, <3>1, <3>2, <3>3 DEF InstallAll
  <2>9. Orderly(x) /\ Alone(x, hosted', box')
    BY <2>3 DEF Orderly, Alone, Before
  <2> QED BY <1>1, <1>2, <1>3, <1>4, <1>7, <2>3, <2>4, <2>7, <2>8, <2>9, ReceiverMoves
<1> QED BY <1>5, <1>6, <1>7

LEMMA PublishedButRejectedKeeps ==
    ASSUME ExchangeInv, NEW r \in Receivers, PublishedButRejected(r) PROVE ExchangeInv'
<1>1. /\ rx[r].pc = "publishing" /\ InstallAll(r) /\ Drop(r)
      /\ op' = IF rx[r].stranded THEN op ELSE Failed("rejected")
      /\ UNCHANGED <<stored, quarantined, box, world, serial, overlap>>
  BY DEF PublishedButRejected, Rejected
<1>2. op' \in Ops /\ stored' \in [Values -> Vals] /\ serial' \in Nat /\ box' \in [Values -> Nat]
  <2>1. "rejected" \in Results
    BY DEF Results
  <2> QED BY <1>1, <2>1, IdleOperator DEF ExchangeInv, ExchangeTypes
<1> QED BY <1>1, <1>2, InstallAllKeeps, ReceiverEnds

-----------------------------------------------------------------------------
(* The answer, and faults and edits at any time.                           *)

\* A receiver that has answered was not left behind.
LEMMA AnsweredIsLive ==
    ASSUME ExchangeInv, NEW r \in Receivers, rx[r].pc = "answered"
    PROVE  /\ IsLive(rx[r]) /\ ~rx[r].stranded
           /\ \A q \in Receivers : IsLive(rx[q]) => q = r
BY DEF ExchangeInv, Orderly, IsLive

LEMMA TakeAnswerKeeps == ASSUME ExchangeInv, NEW r \in Receivers, TakeAnswer(r) PROVE ExchangeInv'
<1> DEFINE records == rx[r].records
<1>1. /\ op.pc = "waiting" /\ rx[r].pc = "answered"
      /\ op' = [op EXCEPT !.pc = "saving", !.todo = records]
      /\ UNCHANGED <<stored, quarantined, hosted, box, world, rx, serial, overlap>>
  BY DEF TakeAnswer
<1>2. ExchangeTypes /\ op \in Ops /\ records \in SUBSET Records
  BY DEF ExchangeInv, ExchangeTypes, ReceiverStates
<1>3. IsLive(rx[r]) /\ \A q \in Receivers : IsLive(rx[q]) => q = r
  BY <1>1, AnsweredIsLive
<1> HIDE DEF records
<1>4. /\ op' \in Ops /\ op'.pc = "saving" /\ op'.todo = records
      /\ op'.left = op.left /\ op'.plan = op.plan /\ op'.edited = op.edited
  BY <1>1, <1>2 DEF Ops
<1>5. /\ BatchIsWhole(world.request, op, rx[r].batch, stored)
      /\ OutputIsWhole(world.request, op, rx[r])
      /\ ~overlap => AnswerIsInstalled(world.request, op, rx[r], hosted)
  BY <1>1, <1>3 DEF ExchangeInv, Serves
<1>6. Asked(world.request, op') = Asked(world.request, op)
  BY <1>4 DEF Asked
<1>7. Attends(op', rx[r]) /\ Serves(world.request, op', rx[r], stored', quarantined')
  <2>1. BatchIsWhole(world.request, op', rx[r].batch, stored')
    BY <1>1, <1>4, <1>5, <1>6 DEF BatchIsWhole
  <2>2. OutputIsWhole(world.request, op', rx[r])
    BY <1>5, <1>6 DEF OutputIsWhole
  <2> QED BY <1>1, <1>4, <2>1, <2>2 DEF Attends, Serves, RecordsAreKept, records
<1>8. ~overlap => AnswerIsInstalled(world.request, op', rx[r], hosted)
  BY <1>5, <1>6 DEF AnswerIsInstalled
<1> QED BY <1>1, <1>2, <1>3, <1>4, <1>7, <1>8, OperatorMoves DEF ExchangeTypes

\* A value is stored where there was none, or edited.
LEMMA StoreMoves ==
    ASSUME ExchangeInv, op' \in Ops, stored' \in [Values -> Vals], serial' \in Nat,
           UNCHANGED <<hosted, box, world, rx, overlap>>,
           op'.pc = op.pc, op'.left = op.left, op'.plan = op.plan, op.edited \subseteq op'.edited,
           \A i \in Values : stored'[i] = stored[i] \/ stored[i] = None \/ i \in op'.edited,
           \A r \in Receivers : IsLive(rx[r]) /\ op.pc = "saving" =>
                                  RecordsAreKept(op', rx[r], stored', quarantined')
    PROVE  ExchangeInv'
<1>1. Asked(world.request, op') = Asked(world.request, op)
  BY DEF Asked
<1>2. ASSUME NEW r \in Receivers, IsLive(rx[r])
      PROVE  /\ Attends(op', rx[r]) /\ Serves(world.request, op', rx[r], stored', quarantined')
             /\ ~overlap' /\ op'.pc \in {"waiting", "saving"} =>
                   AnswerIsInstalled(world.request, op', rx[r], hosted)
  <2>1. Attends(op', rx[r])
    BY <1>2 DEF ExchangeInv, Attends
  <2>2. ASSUME op.pc \in {"waiting", "saving"}
        PROVE  BatchIsWhole(world.request, op', rx[r].batch, stored')
    <3>1. BatchIsWhole(world.request, op, rx[r].batch, stored)
      BY <1>2, <2>2 DEF ExchangeInv, Serves
    <3>2. ASSUME NEW i \in rx[r].batch.entries \cap Generatable
          PROVE  i \in op'.edited \/ stored'[i] = rx[r].batch.given[i]
      <4>1. i \in Values /\ i \notin Tasks
        BY KindsApart
      <4> QED BY <3>1, <4>1 DEF BatchIsWhole
    <3> QED BY <1>1, <3>1, <3>2 DEF BatchIsWhole
  <2>3. op.pc \in {"waiting", "saving"} => OutputIsWhole(world.request, op', rx[r])
    BY <1>1, <1>2 DEF ExchangeInv, Serves, OutputIsWhole
  <2>4. op.pc \in {"waiting", "saving"} => RecordsAreKept(op', rx[r], stored', quarantined')
    BY <1>2 DEF RecordsAreKept
  <2>5. ~overlap' /\ op'.pc \in {"waiting", "saving"} => AnswerIsInstalled(world.request, op', rx[r], hosted)
    BY <1>1, <1>2 DEF ExchangeInv, AnswerIsInstalled
  <2> QED BY <2>1, <2>2, <2>3, <2>4, <2>5 DEF Serves
<1>3. overlap' \in BOOLEAN /\ (overlap => overlap')
  BY DEF ExchangeInv, ExchangeTypes
<1> QED BY <1>2, <1>3, OperatorMoves

LEMMA StoreRecordKeeps ==
    ASSUME ExchangeInv, NEW record \in op.todo, StoreRecord(record) \/ QuarantineRecord(record)
    PROVE  ExchangeInv'
<1>1. ExchangeTypes /\ op \in Ops /\ record \in Records /\ stored \in [Values -> Vals] /\ serial \in Nat
  BY DEF ExchangeInv, ExchangeTypes, Ops
<1>2. op.pc = "saving" /\ UNCHANGED <<hosted, box, world, rx, serial, overlap>>
  BY DEF StoreRecord, QuarantineRecord
<1>3. record[1] \in Values /\ record[2] \in Vals /\ record = <<record[1], record[2]>>
  BY <1>1 DEF Records
<1>4. \/ /\ stored[record[1]] = None /\ stored' = [stored EXCEPT ![record[1]] = record[2]]
         /\ op' = [op EXCEPT !.todo = @ \ {record}] /\ UNCHANGED quarantined
      \/ Quarantine(record) /\ UNCHANGED stored
  BY <1>3 DEF StoreRecord, QuarantineRecord
<1>5. /\ op' \in Ops /\ op'.pc = op.pc /\ op'.left = op.left /\ op'.plan = op.plan
      /\ op'.edited = op.edited /\ op'.todo = op.todo \ {record} /\ op.told \subseteq op'.told
  <2> DEFINE todo == op.todo \ {record}
             told == op.told \cup {record}
  <2>1. todo \in SUBSET Records /\ told \in SUBSET Records
    BY <1>1 DEF Ops
  <2>2. op' = [op EXCEPT !.todo = todo] \/ op' = [op EXCEPT !.todo = todo, !.told = told]
    BY <1>1, <1>4 DEF Ops, Quarantine
  <2>3. op.told \subseteq told
    OBVIOUS
  <2> HIDE DEF todo, told
  <2>4. op' \in Ops /\ op'.todo = todo /\ (op'.told = op.told \/ op'.told = told)
    BY <1>1, <2>1, <2>2 DEF Ops
  <2> QED BY <1>1, <2>2, <2>3, <2>4 DEF Ops, todo
<1>6. /\ stored' \in [Values -> Vals] /\ quarantined \subseteq quarantined'
      /\ \A i \in Values : stored'[i] = stored[i] \/ (i = record[1] /\ stored[i] = None)
      /\ record \in quarantined' \cup op'.told \/ stored'[record[1]] = record[2]
  <2>1. CASE Quarantine(record) /\ UNCHANGED stored
    <3>1. op \in Ops /\ (quarantined' = quarantined \cup {record} \/ op' = [op EXCEPT !.todo = @ \ {record}, !.told = @ \union {record}])
      BY <1>1, <2>1 DEF Quarantine
    <3>2. record \in quarantined' \cup op'.told
      BY <3>1 DEF Ops
    <3> QED BY <1>1, <2>1, <3>2 DEF Quarantine
  <2> QED BY <1>1, <1>3, <1>4, <2>1
<1>7. ASSUME NEW r \in Receivers, IsLive(rx[r])
      PROVE  RecordsAreKept(op', rx[r], stored', quarantined')
  <2>1. /\ RecordsAreKept(op, rx[r], stored, quarantined) /\ OutputIsWhole(world.request, op, rx[r])
        /\ rx[r].pc = "answered" /\ rx[r].records \in SUBSET Records
    BY <1>2, <1>7 DEF ExchangeInv, Serves, Attends, ExchangeTypes, ReceiverStates
  <2>2. op.todo \subseteq rx[r].records
    BY <1>2, <2>1 DEF RecordsAreKept
  <2>3. \A p \in rx[r].records : p[1] = record[1] => p = record
    BY <2>1, <2>2 DEF OutputIsWhole
  <2>4. ASSUME NEW p \in rx[r].records, p # record
        PROVE  \/ p \in op'.todo \/ p \in quarantined' \cup op'.told
               \/ stored'[p[1]] = p[2] \/ p[1] \in op'.edited
    <3>1. p[1] \in Values /\ p[1] # record[1]
      BY <2>1, <2>3, <2>4 DEF Records
    <3>2. stored'[p[1]] = stored[p[1]]
      BY <1>6, <3>1
    <3> QED BY <1>2, <1>5, <1>6, <2>1, <2>4, <3>2 DEF RecordsAreKept
  <2> QED BY <1>2, <1>5, <1>6, <2>2, <2>4 DEF RecordsAreKept
<1> QED BY <1>1, <1>2, <1>5, <1>6, <1>7, StoreMoves

LEMMA EditKeeps ==
    ASSUME ExchangeInv, NEW i \in Values, EnterValue(i) \/ RemoveValue(i) PROVE ExchangeInv'
<1>1. ExchangeTypes /\ op \in Ops /\ stored \in [Values -> Vals] /\ serial \in Nat
  BY DEF ExchangeInv, ExchangeTypes
<1>2. /\ op' = [op EXCEPT !.edited = @ \union {i}]
      /\ UNCHANGED <<quarantined, hosted, box, world, rx, overlap>>
      /\ \E v \in {Value(serial + 1), None} : stored' = [stored EXCEPT ![i] = v]
      /\ serial' \in {serial, serial + 1}
  BY DEF EnterValue, RemoveValue
<1>3. /\ op' \in Ops /\ op'.pc = op.pc /\ op'.left = op.left /\ op'.plan = op.plan
      /\ op'.edited = op.edited \cup {i} /\ op'.todo = op.todo /\ op'.told = op.told
  BY <1>1, <1>2 DEF Ops
<1>4. stored' \in [Values -> Vals] /\ serial' \in Nat /\ \A j \in Values : j # i => stored'[j] = stored[j]
  BY <1>1, <1>2, ValuesAre
<1>5. ASSUME NEW r \in Receivers, IsLive(rx[r]), op.pc = "saving"
      PROVE  RecordsAreKept(op', rx[r], stored', quarantined')
  <2>1. RecordsAreKept(op, rx[r], stored, quarantined) /\ rx[r].records \in SUBSET Records
    BY <1>5 DEF ExchangeInv, Serves, ExchangeTypes, ReceiverStates
  <2>2. \A p \in rx[r].records : p[1] \in Values
    BY <2>1 DEF Records
  <2> QED BY <1>2, <1>3, <1>4, <1>5, <2>1, <2>2 DEF RecordsAreKept
<1> QED BY <1>1, <1>2, <1>3, <1>4, <1>5, StoreMoves

LEMMA ReportDoneKeeps == ASSUME ExchangeInv, NEW r \in Receivers, ReportDone(r) PROVE ExchangeInv'
<1> DEFINE left == op.left \union op.plan.missing \union rx[r].refused
<1>1. /\ op.pc = "saving" /\ rx[r].pc = "answered" /\ Drop(r)
      /\ op' = [op EXCEPT !.pc = "idle", !.result = "done", !.left = left]
      /\ UNCHANGED <<stored, quarantined, hosted, box, world, serial, overlap>>
  BY DEF ReportDone
<1>2. ExchangeTypes /\ op \in Ops /\ rx[r] \in ReceiverStates
  BY DEF ExchangeInv, ExchangeTypes
<1>3. left \in SUBSET Values
  <2>1. op.plan.missing \in SUBSET Values
    BY <1>2 DEF Ops, Plans
  <2>2. op.left \in SUBSET Values /\ rx[r].refused \in SUBSET Values
    BY <1>2 DEF Ops, ReceiverStates
  <2> QED BY <2>1, <2>2
<1> HIDE DEF left
<1>4. op' \in Ops
  <2>1. "done" \in Results
    BY DEF Results
  <2> QED BY <1>1, <1>2, <1>3, <2>1 DEF Ops
<1>5. ~rx[r].stranded
  BY <1>1, AnsweredIsLive
<1>6. /\ hosted' \in Installations /\ stored' \in [Values -> Vals] /\ serial' \in Nat
      /\ box' \in [Values -> Nat] /\ (~overlap => KeysWork(hosted', box'))
  BY <1>1, <1>2 DEF ExchangeInv, ExchangeTypes
<1> QED BY <1>1, <1>4, <1>5, <1>6, ReceiverEnds

LEMMA LinkLostKeeps == ASSUME ExchangeInv, NEW r \in Receivers, LinkLost(r) PROVE ExchangeInv'
<1> DEFINE x == [rx[r] EXCEPT !.stranded = TRUE]
<1>1. /\ rx[r].pc # "none" /\ ~rx[r].stranded /\ op' = Failed("lost")
      /\ UNCHANGED <<stored, quarantined, hosted, box, world, serial, overlap>>
  BY DEF LinkLost
<1>2. ExchangeTypes /\ op \in Ops /\ rx[r] \in ReceiverStates
  BY DEF ExchangeInv, ExchangeTypes
<1>3. "lost" \in Results /\ serial' \in Nat
  BY <1>1, <1>2 DEF Results, ExchangeTypes
<1>4. \/ Drop(r)
      \/ rx[r].pc \in {"tasks", "values", "publishing"} /\ rx' = [rx EXCEPT ![r] = x]
  <2>1. rx[r].pc \in {"none", "selected", "tasks", "values", "publishing", "answered"}
    BY <1>2 DEF ReceiverStates
  <2>2. rx' = [rx EXCEPT ![r] = IF rx[r].pc \in {"selected", "answered"} THEN NoReceiver ELSE x]
    BY <1>2 DEF LinkLost, ExchangeTypes
  <2> QED BY <1>1, <2>1, <2>2 DEF Drop
<1>5. CASE Drop(r)
  <2>1. box' \in [Values -> Nat] /\ (~overlap => KeysWork(hosted, box'))
    BY <1>1, <1>2 DEF ExchangeInv, ExchangeTypes
  <2> QED BY <1>1, <1>3, <1>5, <2>1, ReceiverGone
<1>6. CASE rx[r].pc \in {"tasks", "values", "publishing"} /\ rx' = [rx EXCEPT ![r] = x]
  <2>1. /\ x \in ReceiverStates /\ x.pc = rx[r].pc /\ x.stranded /\ x.current = rx[r].current
        /\ x.batch = rx[r].batch /\ x.out = rx[r].out
    BY <1>2 DEF ReceiverStates
  <2> HIDE DEF x
  <2>2. IsLive(rx[r]) /\ ~IsLive(x)
    BY <1>1, <2>1 DEF IsLive
  <2>3. Orderly(x)
    BY <1>1, <1>6, <2>1 DEF ExchangeInv, Orderly
  <2>4. ~overlap => Alone(x, hosted', box') /\ KeysWork(hosted', box')
    <3>1. ~overlap => Alone(rx[r], hosted, box) /\ KeysWork(hosted, box)
      BY DEF ExchangeInv
    <3>2. Alone(rx[r], hosted, box) => Alone(x, hosted, box)
      BY <2>1 DEF Alone
    <3> QED BY <1>1, <3>1, <3>2
  <2>5. op' \in Ops
    BY <1>1, <1>2, <1>3, IdleOperator
  <2>6. /\ hosted' \in Installations /\ stored' \in [Values -> Vals] /\ box' \in [Values -> Nat]
    BY <1>1, <1>2 DEF ExchangeTypes
  <2> QED BY <1>1, <1>3, <1>6, <2>1, <2>2, <2>3, <2>4, <2>5, <2>6, ReceiverMoves
<1> QED BY <1>4, <1>5, <1>6

LEMMA ReceiverDiesKeeps == ASSUME ExchangeInv, NEW r \in Receivers, ReceiverDies(r) PROVE ExchangeInv'
<1>1. /\ rx[r].pc # "none" /\ Drop(r) /\ op' = IF rx[r].stranded THEN op ELSE Failed("lost")
      /\ SomeAuthorized(r) \/ UNCHANGED <<box, serial>>
      /\ UNCHANGED <<stored, quarantined, hosted, world, overlap>>
  BY DEF ReceiverDies
<1>2. "lost" \in Results
  BY DEF Results
<1>3. box' \in [Values -> Nat] /\ serial' \in Nat /\ (~overlap => KeysWork(hosted, box'))
  <2>1. CASE UNCHANGED <<box, serial>>
    BY <2>1 DEF ExchangeInv, ExchangeTypes
  <2> QED BY <1>1, <2>1, SomeAuthorizedKeeps
<1> QED BY <1>1, <1>2, <1>3, ReceiverGone

-----------------------------------------------------------------------------
(* Every step.                                                             *)

LEMMA ExchangeInitially == ExchangeInit => ExchangeInv
<1> SUFFICES ASSUME ExchangeInit PROVE ExchangeInv
  OBVIOUS
<1>1. PICK req \in Requested : \E w \in Worlds(req) : \E set \in SUBSET Values :
        /\ world = w /\ stored = [i \in Values |-> IF i \in set THEN Default ELSE None]
        /\ hosted = [i \in Values |-> IF i \in w.foreign THEN [v |-> 0, c |-> 1]
                                     ELSE IF i \in w.erased THEN [v |-> 1, c |-> 0] ELSE None]
        /\ box = [i \in Values |-> 0]
        /\ op = NoOp /\ rx = [r \in Receivers |-> NoReceiver] /\ serial = 1 /\ overlap = FALSE
  BY DEF ExchangeInit, Enterable
<1>2. PICK w \in Worlds(req) : \E set \in SUBSET Values :
        /\ world = w /\ stored = [i \in Values |-> IF i \in set THEN Default ELSE None]
        /\ hosted = [i \in Values |-> IF i \in w.foreign THEN [v |-> 0, c |-> 1]
                                     ELSE IF i \in w.erased THEN [v |-> 1, c |-> 0] ELSE None]
        /\ box = [i \in Values |-> 0]
        /\ op = NoOp /\ rx = [r \in Receivers |-> NoReceiver] /\ serial = 1 /\ overlap = FALSE
  BY <1>1
<1>3. req \in SUBSET Own /\ req \in SUBSET Values
  BY LeavesAssumption
<1>4. /\ world.request = req /\ world.refused \in SUBSET Values
      /\ w.foreign \subseteq Generatable /\ w.erased \subseteq Generatable
  <2>1. /\ w.request = req /\ w.refused \in SUBSET Values
        /\ w.foreign \subseteq Generatable /\ w.erased \subseteq Generatable
    <3> DEFINE p == [Plain EXCEPT !.request = req]
    <3>1. /\ DOMAIN p = {"mismatch", "generator", "refused", "stale", "foreign", "erased",
                          "protocol", "known", "request"}
          /\ p.request = req /\ p.refused = {} /\ p.foreign = {} /\ p.erased = {}
      BY DEF Plain
    <3>2. \/ w = p
          \/ \E i \in req : \/ w = [p EXCEPT !.mismatch = {i}] \/ w = [p EXCEPT !.generator = {i}]
                            \/ w = [p EXCEPT !.refused = {i}] \/ w = [p EXCEPT !.stale = {i}]
          \/ \E i \in req \cap Generatable : w = [p EXCEPT !.foreign = {i}] \/ w = [p EXCEPT !.erased = {i}]
          \/ \E old \in (1..3) \X BOOLEAN : w = [p EXCEPT !.protocol = old[1], !.known = old[2]]
      <4> DEFINE m == {[p EXCEPT !.mismatch = {i}] : i \in req}
                 g == {[p EXCEPT !.generator = {i}] : i \in req \cap Generatable}
                 f == {[p EXCEPT !.refused = {i}] : i \in req}
                 s == {[p EXCEPT !.stale = {i}] : i \in {j \in req : Kind(j) = "public"}}
                 a == {[p EXCEPT !.foreign = {i}] : i \in req \cap Generatable}
                 d == {[p EXCEPT !.erased = {i}] : i \in req \cap Generatable}
                 o == {[p EXCEPT !.protocol = old[1], !.known = old[2]] : old \in (1..3) \X BOOLEAN}
      <4>1. Worlds(req) = {p} \union m \union g \union f \union s \union a \union d \union o
        BY DEF Worlds
      <4> HIDE DEF p
      <4>2. /\ w \in m => \E i \in req : w = [p EXCEPT !.mismatch = {i}]
            /\ w \in g => \E i \in req : w = [p EXCEPT !.generator = {i}]
        BY Zenon
      <4>3. /\ w \in f => \E i \in req : w = [p EXCEPT !.refused = {i}]
            /\ w \in s => \E i \in req : w = [p EXCEPT !.stale = {i}]
        BY Zenon
      <4>4. w \in o => \E old \in (1..3) \X BOOLEAN : w = [p EXCEPT !.protocol = old[1], !.known = old[2]]
        BY Zenon
      <4>5. /\ w \in a => \E i \in req \cap Generatable : w = [p EXCEPT !.foreign = {i}]
            /\ w \in d => \E i \in req \cap Generatable : w = [p EXCEPT !.erased = {i}]
        BY Zenon
      <4> HIDE DEF m, g, f, s, a, d, o
      <4>6. w = p \/ w \in m \/ w \in g \/ w \in f \/ w \in s \/ w \in a \/ w \in d \/ w \in o
        BY <4>1
      <4> QED BY <4>2, <4>3, <4>4, <4>5, <4>6, Zenon
    <3> HIDE DEF p
    <3>3. ASSUME NEW i \in req \cap Generatable, w = [p EXCEPT !.foreign = {i}] \/ w = [p EXCEPT !.erased = {i}]
          PROVE  /\ w.request = req /\ w.refused = {}
                 /\ w.foreign \subseteq Generatable /\ w.erased \subseteq Generatable
      BY <3>1, <3>3
    <3>4. ASSUME NEW i \in req, \/ w = [p EXCEPT !.mismatch = {i}] \/ w = [p EXCEPT !.generator = {i}]
                                \/ w = [p EXCEPT !.refused = {i}] \/ w = [p EXCEPT !.stale = {i}]
          PROVE  w.request = req /\ w.refused \subseteq req /\ w.foreign = {} /\ w.erased = {}
      BY <3>1, <3>4
    <3>5. ASSUME NEW old \in (1..3) \X BOOLEAN, w = [p EXCEPT !.protocol = old[1], !.known = old[2]]
          PROVE  w.request = req /\ w.refused = {} /\ w.foreign = {} /\ w.erased = {}
      BY <3>1, <3>5
    <3> QED BY <1>3, <3>1, <3>2, <3>3, <3>4, <3>5
  <2> QED BY <1>2, <2>1
<1>5. ExchangeTypes
  <2>1. stored \in [Values -> Vals] /\ hosted \in Installations
    BY <1>2, <1>4, ValuesAre, KindsApart DEF Installations, None
  <2>2. op \in Ops /\ rx \in [Receivers -> ReceiverStates]
    BY <1>2, NothingAtAll, IdleOperator
  <2>3. box = [i \in Values |-> 0] /\ serial = 1 /\ overlap = FALSE
    BY <1>2
  <2> QED BY <1>3, <1>4, <2>1, <2>2, <2>3 DEF ExchangeTypes
<1>6. \A r \in Receivers : rx[r] = NoReceiver
  BY <1>2
<1>7. KeysWork(hosted, box)
  BY <1>2, <1>4 DEF KeysWork, Generatable
<1> QED BY <1>5, <1>6, <1>7, NothingAtAll DEF ExchangeInv

LEMMA ExchangeStep == ASSUME ExchangeInv, [ExchangeNext]_exchangeVars PROVE ExchangeInv'
<1>1. CASE UNCHANGED exchangeVars
  BY <1>1 DEF exchangeVars, ExchangeInv, ExchangeTypes
<1>2. CASE SelectValues
  BY <1>2, SelectValuesKeeps
<1>3. ASSUME NEW rows \in {{}} \union {{i} : i \in world.request \union Shareable}, ApproveRows(rows)
      PROVE  ExchangeInv'
  <2>1. rows \in SUBSET Values
    BY LeavesAssumption, KindsApart DEF ExchangeInv, ExchangeTypes, Shareable
  <2> QED BY <1>3, <2>1, ApproveRowsKeeps
<1>4. ASSUME NEW r \in Receivers, OpenDeployer(r) \/ SendBatch(r) PROVE ExchangeInv'
  BY <1>4, OpenDeployerKeeps, SendBatchKeeps
<1>5. ASSUME NEW r \in Receivers, \/ RunTasks(r) \/ TaskFails(r) \/ GenerateValues(r)
                                  \/ PublishBatch(r) \/ PublishedButRejected(r)
      PROVE  ExchangeInv'
  BY <1>5, RunTasksKeeps, TaskFailsKeeps, GenerateValuesKeeps, PublishBatchKeeps, PublishedButRejectedKeeps
<1>6. ASSUME NEW r \in Receivers, TakeAnswer(r) \/ ReportDone(r) \/ LinkLost(r) \/ ReceiverDies(r)
      PROVE  ExchangeInv'
  BY <1>6, TakeAnswerKeeps, ReportDoneKeeps, LinkLostKeeps, ReceiverDiesKeeps
<1>7. ASSUME NEW record \in op.todo, StoreRecord(record) \/ QuarantineRecord(record)
      PROVE  ExchangeInv'
  BY <1>7, StoreRecordKeeps
<1>8. ASSUME NEW i \in Values, EnterValue(i) \/ RemoveValue(i) PROVE ExchangeInv'
  BY <1>8, EditKeeps
<1> QED BY <1>1, <1>2, <1>3, <1>4, <1>5, <1>6, <1>7, <1>8 DEF ExchangeNext

-----------------------------------------------------------------------------
(* The theorems.                                                           *)

(***************************************************************************)
(* The inductive invariant holds, whatever the leaves, the requests, the   *)
(* edits of the store and the faults, and however many receivers overlap.  *)
(***************************************************************************)
THEOREM ExchangeInvariant == ExchangeSpec => []ExchangeInv
<1>1. ExchangeInv /\ [ExchangeNext]_exchangeVars => ExchangeInv'
  BY ExchangeStep
<1> QED BY <1>1, ExchangeInitially, PTL DEF ExchangeSpec

(***************************************************************************)
(* Engine::run puts a key on the storage box before it is installed, and   *)
(* takes the installed key again: a task that fails, a receiver that dies  *)
(* or an answer that is lost never leaves a key the box does not accept.   *)
(***************************************************************************)
THEOREM InstalledKeysWork == ExchangeSpec => []InstalledKeyWorks
<1>1. ExchangeInv => InstalledKeyWorks
  <2>1. ASSUME ExchangeInv, ~overlap, NEW i \in Own, Kind(i) = "box key", hosted[i] # None
        PROVE  box[i] = hosted[i].c
    BY <2>1, LeavesAssumption DEF ExchangeInv, KeysWork
  <2> QED BY <2>1 DEF InstalledKeyWorks
<1> QED BY <1>1, ExchangeInvariant, PTL

\* Only publication changes what is installed.
LEMMA OnlyInstalled ==
    ASSUME ExchangeInv, [ExchangeNext]_exchangeVars, hosted' # hosted
    PROVE  \E r \in Receivers : rx[r].pc = "publishing" /\ InstallAll(r)
<1>1. ASSUME NEW r \in Receivers, hosted' # hosted,
             \/ OpenDeployer(r) \/ SendBatch(r) \/ RunTasks(r) \/ TaskFails(r) \/ GenerateValues(r)
             \/ PublishBatch(r) \/ PublishedButRejected(r) \/ TakeAnswer(r) \/ ReportDone(r)
             \/ LinkLost(r) \/ ReceiverDies(r)
      PROVE  rx[r].pc = "publishing" /\ InstallAll(r)
  <2>1. PublishBatch(r) \/ PublishedButRejected(r)
    BY <1>1 DEF OpenDeployer, SendBatch, RunTasks, TaskFails, GenerateValues, TakeAnswer, ReportDone,
                LinkLost, ReceiverDies
  <2> QED BY <2>1 DEF PublishBatch, PublishedButRejected
<1>2. ASSUME NEW rows, ApproveRows(rows) PROVE hosted' = hosted
  BY <1>2 DEF ApproveRows
<1>3. ASSUME NEW record, StoreRecord(record) \/ QuarantineRecord(record) PROVE hosted' = hosted
  BY <1>3 DEF StoreRecord, QuarantineRecord
<1>4. ASSUME NEW i, EnterValue(i) \/ RemoveValue(i) PROVE hosted' = hosted
  BY <1>4 DEF EnterValue, RemoveValue
<1>5. SelectValues \/ UNCHANGED exchangeVars => hosted' = hosted
  BY DEF SelectValues, exchangeVars
<1> QED BY <1>1, <1>2, <1>3, <1>4, <1>5 DEF ExchangeNext

(***************************************************************************)
(* run_value_generation and read_existing_key: a generation that follows   *)
(* a lost answer adopts the generated values and the keys it finds, and    *)
(* only a value the store has since got replaces an installed one; one     *)
(* whose version no store uses gets a new version.                         *)
(***************************************************************************)
THEOREM InstalledValuesAreKept == ExchangeSpec => InstalledIsKept
<1>1. ASSUME ExchangeInv, [ExchangeNext]_exchangeVars,
             NEW i \in Own, hosted[i].c # 0, hosted'[i] # hosted[i], ~overlap
      PROVE  /\ i \in Tasks => hosted'[i].c = hosted[i].c
             /\ i \in Generatable => \/ \E r \in Receivers : rx[r].pc = "publishing" /\ i \in rx[r].batch.entries
                                     \/ hosted[i].v = 0 /\ hosted'[i].c = hosted[i].c
  <2>1. PICK r \in Receivers : rx[r].pc = "publishing" /\ InstallAll(r)
    BY <1>1, OnlyInstalled
  <2>2. i \in Values /\ Alone(rx[r], hosted, box)
    BY <1>1, LeavesAssumption DEF ExchangeInv
  <2>3. hosted'[i] = rx[r].out[i] /\ rx[r].out[i] # None
    BY <1>1, <2>1, <2>2 DEF InstallAll, Resolved
  <2>4. i \in Tasks => hosted'[i].c = hosted[i].c
    <3>1. hosted[i] # None
      BY <1>1 DEF None
    <3> QED BY <1>1, <2>1, <2>2, <2>3, <3>1 DEF Alone
  <2>5. i \in Generatable => i \in rx[r].batch.entries \/ (hosted[i].v = 0 /\ hosted'[i].c = hosted[i].c)
    BY <1>1, <2>1, <2>2, <2>3 DEF Alone
  <2> QED BY <2>1, <2>4, <2>5
<1>2. ExchangeInv /\ [ExchangeNext]_exchangeVars =>
        [\A i \in Own : (hosted[i].c # 0 /\ hosted'[i] # hosted[i] /\ ~overlap) =>
           /\ i \in Tasks => hosted'[i].c = hosted[i].c
           /\ i \in Generatable => \/ \E r \in Receivers : rx[r].pc = "publishing" /\ i \in rx[r].batch.entries
                                   \/ hosted[i].v = 0 /\ hosted'[i].c = hosted[i].c]_exchangeVars
  BY <1>1
<1> QED BY <1>2, ExchangeInvariant, PTL DEF ExchangeSpec, InstalledIsKept

\* Nothing but the summary ends a deployment whose answer was taken as done.
LEMMA OnlyReported ==
    ASSUME ExchangeInv, [ExchangeNext]_exchangeVars,
           op.pc = "saving", op'.pc = "idle", op'.result = "done"
    PROVE  \E r \in Receivers : ReportDone(r)
<1>1. op \in Ops /\ "lost" \in Results /\ "rejected" \in Results
  BY DEF ExchangeInv, ExchangeTypes, Results
<1>2. op' # op /\ op' # Failed("lost") /\ op' # Failed("rejected")
  BY <1>1, IdleOperator
<1>3. ASSUME NEW r \in Receivers,
             \/ OpenDeployer(r) \/ SendBatch(r) \/ RunTasks(r) \/ TaskFails(r) \/ GenerateValues(r)
             \/ PublishBatch(r) \/ PublishedButRejected(r) \/ TakeAnswer(r) \/ ReportDone(r)
             \/ LinkLost(r) \/ ReceiverDies(r)
      PROVE  ReportDone(r)
  <2>1. ~(OpenDeployer(r) \/ SendBatch(r) \/ TakeAnswer(r))
    BY DEF OpenDeployer, SendBatch, TakeAnswer
  <2>2. ~(RunTasks(r) \/ TaskFails(r) \/ GenerateValues(r))
    BY <1>2 DEF RunTasks, TaskFails, GenerateValues, Rejected
  <2>3. ~(PublishBatch(r) \/ PublishedButRejected(r) \/ LinkLost(r) \/ ReceiverDies(r))
    BY <1>2 DEF PublishBatch, PublishedButRejected, LinkLost, ReceiverDies, Rejected
  <2> QED BY <1>3, <2>1, <2>2, <2>3
<1>4. ~SelectValues /\ ~UNCHANGED exchangeVars /\ \A rows : ~ApproveRows(rows)
  BY <1>2 DEF SelectValues, exchangeVars, ApproveRows
<1>5. ASSUME NEW record, StoreRecord(record) \/ QuarantineRecord(record) PROVE FALSE
  <2>1. \/ op' = [op EXCEPT !.todo = @ \ {record}]
        \/ op' = [op EXCEPT !.todo = @ \ {record}, !.told = @ \union {record}]
    BY <1>5 DEF StoreRecord, QuarantineRecord, Quarantine
  <2> QED BY <1>1, <2>1 DEF Ops
<1>6. ASSUME NEW i, EnterValue(i) \/ RemoveValue(i) PROVE FALSE
  <2>1. op' = [op EXCEPT !.edited = @ \union {i}]
    BY <1>6 DEF EnterValue, RemoveValue
  <2> QED BY <1>1, <2>1 DEF Ops
<1> QED BY <1>3, <1>4, <1>5, <1>6 DEF ExchangeNext

(***************************************************************************)
(* What deploy_active reports as deployed is installed as it was sent or   *)
(* made, unless the plan left it to the host's own default, and what       *)
(* store_generated_all was given is stored or quarantined, shown as not    *)
(* saved or edited since: whatever is refused, left out, lost or edited    *)
(* meanwhile, and whichever receivers were left behind.                    *)
(***************************************************************************)
THEOREM ReportsAreTrue == ExchangeSpec => ReportIsTrue
<1> DEFINE True == (op.pc = "saving" /\ op'.pc = "idle" /\ op'.result = "done") =>
                     \A r \in Receivers : (rx[r].pc = "answered") =>
                       /\ overlap \/ \A i \in (world.request \ op'.left) \ op.plan.host :
                            /\ hosted[i] = rx[r].out[i] /\ rx[r].out[i] # None
                            /\ i \in Generatable => \/ i \in op.edited \/ stored[i] = hosted[i]
                                                    \/ <<i, hosted[i]>> \in quarantined \union op.told
                       /\ \A record \in rx[r].records :
                            \/ record \in quarantined \union op.told \/ stored[record[1]] = record[2]
                            \/ record[1] \in op.edited
<1>1. ASSUME ExchangeInv, [ExchangeNext]_exchangeVars,
             op.pc = "saving", op'.pc = "idle", op'.result = "done",
             NEW r \in Receivers, rx[r].pc = "answered"
      PROVE  /\ ~overlap => \A i \in (world.request \ op'.left) \ op.plan.host :
                  /\ hosted[i] = rx[r].out[i] /\ rx[r].out[i] # None
                  /\ i \in Generatable => \/ i \in op.edited \/ stored[i] = hosted[i]
                                          \/ <<i, hosted[i]>> \in quarantined \union op.told
             /\ \A record \in rx[r].records :
                  \/ record \in quarantined \union op.told \/ stored[record[1]] = record[2]
                  \/ record[1] \in op.edited
  <2>1. PICK q \in Receivers : ReportDone(q)
    BY <1>1, OnlyReported
  <2>2. q = r
    BY <1>1, <2>1, AnsweredIsLive DEF ReportDone
  <2>3. /\ BatchIsWhole(world.request, op, rx[r].batch, stored)
        /\ OutputIsWhole(world.request, op, rx[r])
        /\ RecordsAreKept(op, rx[r], stored, quarantined)
        /\ ~overlap => AnswerIsInstalled(world.request, op, rx[r], hosted)
    BY <1>1, AnsweredIsLive DEF ExchangeInv, Serves
  <2>4. \A record \in rx[r].records :
           \/ record \in quarantined \union op.told \/ stored[record[1]] = record[2]
           \/ record[1] \in op.edited
    BY <1>1, <2>1, <2>3 DEF RecordsAreKept, ReportDone
  <2>5. op'.left = op.left \union op.plan.missing \union rx[r].refused
    <3>1. op \in Ops
      BY <1>1 DEF ExchangeInv, ExchangeTypes
    <3> QED BY <2>1, <2>2, <3>1 DEF ReportDone, Ops
  <2>6. ASSUME ~overlap, NEW i \in (world.request \ op'.left) \ op.plan.host
        PROVE  /\ hosted[i] = rx[r].out[i] /\ rx[r].out[i] # None
               /\ i \in Generatable => \/ i \in op.edited \/ stored[i] = hosted[i]
                                       \/ <<i, hosted[i]>> \in quarantined \union op.told
    <3>1. i \in Asked(world.request, op) /\ i \notin rx[r].refused
      BY <2>5, <2>6 DEF Asked, LeftOut
    <3>2. hosted[i] = rx[r].out[i]
      BY <1>1, <2>3, <2>6, <3>1 DEF AnswerIsInstalled
    <3>3. i \in rx[r].batch.entries \/ i \in rx[r].batch.generate \/ i \in rx[r].batch.derive
      BY <2>3, <3>1 DEF BatchIsWhole
    <3>4. rx[r].out[i] # None
      BY <1>1, <2>3, <3>1, <3>3 DEF OutputIsWhole
    <3>5. ASSUME i \in Generatable
          PROVE  i \in op.edited \/ stored[i] = hosted[i] \/ <<i, hosted[i]>> \in quarantined \union op.told
      <4>1. i \notin rx[r].batch.derive
        BY <1>1, <3>5, KindsApart DEF ExchangeInv, ExchangeTypes, ReceiverStates, Batches
      <4>2. CASE i \in rx[r].batch.entries
        BY <1>1, <2>3, <3>2, <3>5, <4>2 DEF BatchIsWhole, OutputIsWhole
      <4>3. CASE i \in rx[r].batch.generate
        <5>1. <<i, rx[r].out[i]>> \in rx[r].records
          BY <1>1, <2>3, <4>3 DEF OutputIsWhole
        <5> QED BY <2>4, <3>2, <5>1
      <4> QED BY <3>3, <4>1, <4>2, <4>3
    <3> QED BY <3>2, <3>4, <3>5
  <2> QED BY <2>4, <2>6
<1>2. ExchangeInv /\ [ExchangeNext]_exchangeVars => [True]_exchangeVars
  BY <1>1
<1> QED BY <1>2, ExchangeInvariant, PTL DEF ExchangeSpec, ReportIsTrue
=============================================================================
