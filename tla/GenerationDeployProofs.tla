----------------------- MODULE GenerationDeployProofs -----------------------
(***************************************************************************)
(* Theorems about GenerationDeploy, for any number of processes and        *)
(* generations.  Type correctness holds under every fault; the safety      *)
(* theorems are about hosts that do not lose power (processes may be       *)
(* killed anywhere and any operation may fail).                            *)
(***************************************************************************)
EXTENDS GenerationDeploy, TLAPS

\* Facts about the constants, in the form the provers use.
LEMMA Constants == /\ NoId \notin Ids /\ Nobody \notin Procs
                   /\ Secrets # Public /\ Secrets \in Roots /\ Public \in Roots
                   /\ Roots = {Secrets, Public}
  BY IdsAssumption, ProcsAssumption DEF Roots, Secrets, Public

\* The root a process works on is a root.
LEMMA HereType == ASSUME NEW p PROVE Here(p) \in Roots
  BY DEF Here, Roots, Secrets, Public

\* What Enter does to the types of the program counter.
LEMMA EnterType ==
  ASSUME TypeOK, NEW p \in Procs, NEW ph \in Phases, NEW rs \in SUBSET Roots,
         Enter(p, ph, rs)
  PROVE  /\ phase' \in [Procs -> Phases]
         /\ left' \in [Procs -> SUBSET Roots]
         /\ at' \in [Procs -> Steps]
         /\ seen' \in [Procs -> Ids \cup {NoId}]
         /\ gone' \in [Procs -> Ids \cup {NoId}]
  <1>1. FirstStep(ph) \in Steps
    BY DEF FirstStep, Phases, Steps
  <1> QED BY <1>1 DEF TypeOK, Enter

\* The types of what Advance changes.
LEMMA AdvanceType ==
  ASSUME TypeOK, NEW p \in Procs, Advance(p)
  PROVE  /\ phase' \in [Procs -> Phases]
         /\ left' \in [Procs -> SUBSET Roots]
         /\ at' \in [Procs -> Steps]
         /\ seen' \in [Procs -> Ids \cup {NoId}]
         /\ gone' \in [Procs -> Ids \cup {NoId}]
         /\ over' \in [Procs -> SUBSET Roots]
         /\ roots' \in [Procs -> SUBSET Roots]
         /\ id' \in [Procs -> Ids \cup {NoId}]
         /\ lock' \in [Roots -> Procs \cup {Nobody}]
         /\ target' \in [Ids -> SUBSET Roots]
         /\ outcome' \in [Ids -> {"none", "ok", "err"}]
  <1>1. CASE \E ph \in Phases, rs \in SUBSET Roots :
               Enter(p, ph, rs) /\ UNCHANGED <<over, roots, id, lock, ghostVars>>
    BY <1>1, EnterType DEF TypeOK, ghostVars
  <1>2. CASE /\ Enter(p, "prepare", roots[p])
             /\ \E i \in Ids : /\ id' = [id EXCEPT ![p] = i]
                               /\ target' = [target EXCEPT ![i] = roots[p]]
             /\ UNCHANGED <<over, roots, lock, outcome>>
    <2>1. "prepare" \in Phases /\ roots[p] \in SUBSET Roots BY DEF Phases, TypeOK
    <2> QED BY <1>2, <2>1, EnterType DEF TypeOK
  <1>3. CASE \E res \in {"ok", "err"} : Return(p, res)
    <2>1. "idle" \in Phases BY DEF Phases
    <2>2. PICK res \in {"ok", "err"} : Return(p, res) BY <1>3
    <2>3. Enter(p, "idle", {}) BY <2>2 DEF Return
    <2> QED BY <2>1, <2>2, <2>3, EnterType DEF TypeOK, Return
  <1>4. \/ phase[p] \in Phases
        \/ FALSE
    BY DEF TypeOK
  <1>5. left[p] \ {Here(p)} \in SUBSET Roots /\ roots[p] \in SUBSET Roots BY DEF TypeOK
  <1>6. {"switch", "prune"} \subseteq Phases BY DEF Phases
  <1> QED BY <1>1, <1>2, <1>3, <1>4, <1>5, <1>6 DEF Advance

\* The types of what Goto leaves.
LEMMA GotoType ==
  ASSUME TypeOK, NEW p \in Procs, NEW step \in Steps, Goto(p, step)
  PROVE  /\ phase' \in [Procs -> Phases]
         /\ left' \in [Procs -> SUBSET Roots]
         /\ at' \in [Procs -> Steps]
         /\ over' \in [Procs -> SUBSET Roots]
         /\ roots' \in [Procs -> SUBSET Roots]
         /\ id' \in [Procs -> Ids \cup {NoId}]
         /\ lock' \in [Roots -> Procs \cup {Nobody}]
         /\ target' \in [Ids -> SUBSET Roots]
         /\ outcome' \in [Ids -> {"none", "ok", "err"}]
  BY DEF TypeOK, Goto, ghostVars

\* The types of what the operations on the root directory change.
LEMMA DirType ==
  ASSUME TypeOK, NEW r \in Roots, NEW c \in Ids \cup {NoId}, NEW q \in SUBSET Ids
  PROVE  /\ SetDir(r, c, q) => /\ cur' \in [Roots -> Ids \cup {NoId}]
                               /\ pend' \in [Roots -> SUBSET Ids]
                               /\ disk' \in [Roots -> SUBSET DirState]
         /\ SyncRoot(r) => disk' \in [Roots -> SUBSET DirState]
  <1> DEFINE now == [cur |-> c, pend |-> q]
             here == [cur |-> cur[r], pend |-> pend[r]]
  <1>1. now \in DirState /\ here \in DirState BY DEF DirState, TypeOK
  <1>2. Unsynced(disk[r], now) \in SUBSET DirState BY <1>1 DEF Unsynced, TypeOK
  <1>3. ASSUME SetDir(r, c, q)
        PROVE  /\ cur' \in [Roots -> Ids \cup {NoId}]
               /\ pend' \in [Roots -> SUBSET Ids]
               /\ disk' \in [Roots -> SUBSET DirState]
    <2>1. disk' = [disk EXCEPT ![r] = Unsynced(disk[r], now)] BY <1>3 DEF SetDir
    <2>2. disk' \in [Roots -> SUBSET DirState] BY <2>1, <1>2 DEF TypeOK
    <2> QED BY <1>3, <2>2 DEF SetDir, TypeOK
  <1>4. ASSUME SyncRoot(r) PROVE disk' \in [Roots -> SUBSET DirState]
    <2>1. disk' = [disk EXCEPT ![r] = {here}] BY <1>4 DEF SyncRoot
    <2> QED BY <2>1, <1>1 DEF TypeOK
  <1> QED BY <1>3, <1>4

\* The types of what the operations on the generation store change.
LEMMA StoreType ==
  ASSUME TypeOK, NEW r \in Roots, NEW g \in SUBSET Ids
  PROVE  /\ SetGens(r, g) => /\ gens' \in [Roots -> SUBSET Ids]
                             /\ gdisk' \in [Roots -> SUBSET SUBSET Ids]
         /\ SyncStore(r) => gdisk' \in [Roots -> SUBSET SUBSET Ids]
  <1>1. Unsynced(gdisk[r], g) \in SUBSET SUBSET Ids BY DEF Unsynced, TypeOK
  <1>2. SetGens(r, g) => gdisk' = [gdisk EXCEPT ![r] = Unsynced(gdisk[r], g)]
    BY DEF SetGens
  <1>3. SetGens(r, g) => gdisk' \in [Roots -> SUBSET SUBSET Ids]
    BY <1>1, <1>2 DEF TypeOK
  <1>4. gens[r] \in SUBSET Ids BY DEF TypeOK
  <1>5. SyncStore(r) => gdisk' \in [Roots -> SUBSET SUBSET Ids]
    BY <1>4 DEF SyncStore, TypeOK
  <1>6. SetGens(r, g) => gens' \in [Roots -> SUBSET Ids] BY DEF SetGens, TypeOK
  <1> QED BY <1>3, <1>5, <1>6

\* Every step keeps the types.
LEMMA TypeStep == TypeOK /\ AllControl /\ [Next]_vars => TypeOK'
  <1> SUFFICES ASSUME TypeOK, AllControl, [Next]_vars PROVE TypeOK' OBVIOUS
  <1> USE HereType
  <1>i. \A p \in Procs : at[p] \in {"stage", "publish", "point", "rename", "prune"}
                          => id[p] \in Ids
    BY DEF AllControl, Control
  <1>0. /\ \A p \in Procs : /\ cur[Here(p)] \in Ids \cup {NoId}
                            /\ pend[Here(p)] \in SUBSET Ids
                            /\ gens[Here(p)] \in SUBSET Ids
                            /\ id[p] \in Ids \cup {NoId}
                            /\ seen[p] \in Ids \cup {NoId}
                            /\ over[p] \in SUBSET Roots
    BY DEF TypeOK
  <1>c. /\ {"discard", "remove", "rsync", "forward", "fsync", "publish"} \subseteq Steps
        /\ {"settle", "point", "psync", "ssync", "prune"} \subseteq Steps
        /\ {"idle", "lock", "recover", "prepare", "cleanup"} \subseteq Phases
    BY DEF Steps, Phases
  <1>1. ASSUME NEW p \in Procs, NEW o \in Operations, Begin(p, o) PROVE TypeOK'
    <2>1. o[1] \in SUBSET Roots /\ o[2] \in SUBSET Roots
      BY Constants DEF Operations
    <2>2. Enter(p, "lock", o[1]) BY <1>1 DEF Begin
    <2> QED BY <1>1, <1>c, <2>1, <2>2, EnterType DEF Begin, TypeOK, fsVars, ghostVars
  <1>2. ASSUME NEW p \in Procs, Lock(p) PROVE TypeOK'
    <2>1. \E ph \in Phases, rs \in SUBSET Roots : Enter(p, ph, rs)
      <3>1. left[p] \ {Here(p)} \in SUBSET Roots BY DEF TypeOK
      <3> QED BY <1>2, <1>0, <1>c, <3>1 DEF Lock
    <2> QED BY <1>2, <2>1, EnterType DEF Lock, TypeOK, fsVars, ghostVars
  <1>3. ASSUME NEW p \in Procs, RecRead(p) PROVE TypeOK'
    <2>1. CASE Advance(p)
      BY <1>3, <2>1, AdvanceType DEF RecRead, TypeOK, fsVars
    <2>2. CASE ~ Advance(p)
      <3> DEFINE s == IF Here(p) = Public THEN cur[Secrets] ELSE NoId
      <3>1. s \in Ids \cup {NoId} BY Constants DEF TypeOK
      <3>2. \E step \in Steps : Goto(p, step)
        BY <1>3, <2>2, <1>c DEF RecRead
      <3>3. seen' = [seen EXCEPT ![p] = s] /\ gone' = gone
        BY <1>3, <2>2 DEF RecRead
      <3> QED BY <1>3, <3>1, <3>2, <3>3, GotoType DEF RecRead, TypeOK, fsVars
    <2> QED BY <2>1, <2>2
  <1>4. ASSUME NEW p \in Procs, RecDiscard(p) PROVE TypeOK'
    <2>1. Goto(p, "remove") BY <1>4 DEF RecDiscard
    <2>2. PICK i \in Discards(Here(p), seen[p]) :
            /\ SetDir(Here(p), cur[Here(p)], pend[Here(p)] \ {i})
            /\ gone' = [gone EXCEPT ![p] = i]
      BY <1>4 DEF RecDiscard
    <2>3. i \in Ids /\ pend[Here(p)] \ {i} \in SUBSET Ids BY <1>0, <2>2 DEF Discards
    <2> QED BY <1>4, <1>0, <1>c, <2>1, <2>2, <2>3, GotoType, DirType DEF RecDiscard, TypeOK
  <1>5. ASSUME NEW p \in Procs, RecRemove(p) PROVE TypeOK'
    <2>1. \E step \in Steps : Goto(p, step) BY <1>5, <1>c DEF RecRemove
    <2>2. \E g \in SUBSET Ids : SetGens(Here(p), g) BY <1>5, <1>0 DEF RecRemove
    <2> QED BY <1>5, <2>1, <2>2, GotoType, StoreType DEF RecRemove, TypeOK
  <1>6. ASSUME NEW p \in Procs, RecSync(p) PROVE TypeOK'
    <2>1. SyncStore(Here(p)) /\ SyncRoot(Here(p)) BY <1>6 DEF RecSync
    <2>2. CASE Advance(p)
      BY <1>6, <1>0, <2>1, <2>2, AdvanceType, StoreType, DirType DEF RecSync, TypeOK
    <2>3. CASE Goto(p, "forward") /\ UNCHANGED <<seen, gone>>
      BY <1>6, <1>0, <1>c, <2>1, <2>3, GotoType, StoreType, DirType DEF RecSync, TypeOK
    <2> QED BY <1>6, <2>2, <2>3 DEF RecSync
  <1>7. ASSUME NEW p \in Procs, RecForward(p) PROVE TypeOK'
    <2>1. Goto(p, "fsync") BY <1>7 DEF RecForward
    <2>2. SetDir(Here(p), seen[p], pend[Here(p)] \ {seen[p]}) BY <1>7 DEF RecForward
    <2>3. pend[Here(p)] \ {seen[p]} \in SUBSET Ids BY <1>0
    <2> QED BY <1>7, <1>0, <1>c, <2>1, <2>2, <2>3, GotoType, DirType DEF RecForward, TypeOK
  <1>8. ASSUME NEW p \in Procs, RecForwardSync(p) \/ PointSync(p) \/ SwitchSync(p)
        PROVE TypeOK'
    <2>1. SyncRoot(Here(p)) /\ Advance(p) BY <1>8 DEF RecForwardSync, PointSync, SwitchSync
    <2> QED BY <1>8, <1>0, <2>1, AdvanceType, DirType
            DEF RecForwardSync, PointSync, SwitchSync, TypeOK
  <1>9. ASSUME NEW p \in Procs, Stage(p) PROVE TypeOK'
    <2>1. Goto(p, "publish") BY <1>9 DEF Stage
    <2>2. Installed(Here(p)) \in SUBSET Ids BY DEF Installed, TypeOK
    <2>3. carries' \in [Roots -> [Ids -> SUBSET Ids]]
      <3>1. Installed(Here(p)) \cup {id[p]} \in SUBSET Ids BY <1>9, <1>i, <2>2 DEF Stage
      <3>2. carries' = [carries EXCEPT ![Here(p)] =
                          [carries[Here(p)] EXCEPT ![id[p]] = Installed(Here(p)) \cup {id[p]}]]
        BY <1>9 DEF Stage
      <3> QED BY <3>1, <3>2 DEF TypeOK
    <2> QED BY <1>9, <1>c, <2>1, <2>3, GotoType DEF Stage, TypeOK
  <1>10. ASSUME NEW p \in Procs, Publish(p) PROVE TypeOK'
    <2>1. Goto(p, "settle") BY <1>10 DEF Publish
    <2>2. SetGens(Here(p), gens[Here(p)] \cup {id[p]}) BY <1>10 DEF Publish
    <2>3. gens[Here(p)] \cup {id[p]} \in SUBSET Ids BY <1>10, <1>0, <1>i DEF Publish
    <2> QED BY <1>10, <1>c, <2>1, <2>2, <2>3, GotoType, StoreType DEF Publish, TypeOK
  <1>11. ASSUME NEW p \in Procs, Settle(p) PROVE TypeOK'
    <2>1. Goto(p, "point") /\ SyncStore(Here(p)) /\ SyncRoot(Here(p)) BY <1>11 DEF Settle
    <2> QED BY <1>11, <1>0, <1>c, <2>1, GotoType, StoreType, DirType DEF Settle, TypeOK
  <1>12. ASSUME NEW p \in Procs, Point(p) PROVE TypeOK'
    <2>1. Goto(p, "psync") BY <1>12 DEF Point
    <2>2. SetDir(Here(p), cur[Here(p)], pend[Here(p)] \cup {id[p]}) BY <1>12 DEF Point
    <2>3. pend[Here(p)] \cup {id[p]} \in SUBSET Ids BY <1>12, <1>0, <1>i DEF Point
    <2> QED BY <1>12, <1>0, <1>c, <2>1, <2>2, <2>3, GotoType, DirType DEF Point, TypeOK
  <1>13. ASSUME NEW p \in Procs, Switch(p) PROVE TypeOK'
    <2>1. Goto(p, "ssync") BY <1>13 DEF Switch
    <2>2. SetDir(Here(p), id[p], pend[Here(p)] \ {id[p]}) BY <1>13 DEF Switch
    <2>3. pend[Here(p)] \ {id[p]} \in SUBSET Ids BY <1>0
    <2> QED BY <1>13, <1>0, <1>c, <2>1, <2>2, <2>3, GotoType, DirType DEF Switch, TypeOK
  <1>14. ASSUME NEW p \in Procs, PruneOne(p) PROVE TypeOK'
    <2>1. Goto(p, "prune") BY <1>14 DEF PruneOne
    <2>2. PICK g : SetGens(Here(p), gens[Here(p)] \ {g}) BY <1>14 DEF PruneOne
    <2>3. gens[Here(p)] \ {g} \in SUBSET Ids BY <1>0
    <2> QED BY <1>14, <1>c, <2>1, <2>2, <2>3, GotoType, StoreType DEF PruneOne, TypeOK
  <1>15. ASSUME NEW p \in Procs, PruneDone(p) PROVE TypeOK'
    <2>1. SyncStore(Here(p)) /\ Advance(p) BY <1>15 DEF PruneDone
    <2> QED BY <1>15, <1>0, <2>1, AdvanceType, StoreType DEF PruneDone, TypeOK
  <1>16. ASSUME NEW p \in Procs, Fail(p) PROVE TypeOK'
    <2>1. CASE Advance(p) BY <1>16, <2>1, AdvanceType DEF Fail, TypeOK, fsVars
    <2>2. CASE Return(p, "err")
      <3>1. Enter(p, "idle", {}) BY <2>2 DEF Return
      <3> QED BY <1>16, <1>c, <2>2, <3>1, EnterType DEF Fail, Return, TypeOK, fsVars
    <2>3. CASE Enter(p, "cleanup", over[p]) /\ UNCHANGED <<over, roots, id, lock, ghostVars>>
      BY <1>16, <1>0, <1>c, <2>3, EnterType DEF Fail, TypeOK, fsVars, ghostVars
    <2> QED BY <1>16, <2>1, <2>2, <2>3 DEF Fail
  <1>17. ASSUME NEW p \in Procs, Kill(p) PROVE TypeOK'
    <2>1. Enter(p, "idle", {}) BY <1>17 DEF Kill
    <2> QED BY <1>17, <1>c, <2>1, EnterType DEF Kill, TypeOK, fsVars, ghostVars
  <1>18. ASSUME PowerLoss PROVE TypeOK'
    <2>1. PICK d \in [Roots -> UNION {disk[r] : r \in Roots}],
               g \in [Roots -> UNION {gdisk[r] : r \in Roots}] :
            /\ \A r \in Roots : d[r] \in disk[r] /\ g[r] \in gdisk[r]
            /\ cur' = [r \in Roots |-> d[r].cur]
            /\ pend' = [r \in Roots |-> d[r].pend]
            /\ disk' = [r \in Roots |-> {d[r]}]
            /\ gens' = g
            /\ gdisk' = [r \in Roots |-> {g[r]}]
      BY <1>18 DEF PowerLoss
    <2>2. \A r \in Roots : d[r] \in DirState /\ g[r] \in SUBSET Ids
      BY <2>1 DEF TypeOK
    <2>3. \A r \in Roots : d[r].cur \in Ids \cup {NoId} /\ d[r].pend \in SUBSET Ids
      BY <2>2 DEF DirState
    <2>4. /\ cur' \in [Roots -> Ids \cup {NoId}]
          /\ pend' \in [Roots -> SUBSET Ids]
          /\ disk' \in [Roots -> SUBSET DirState]
          /\ gens' \in [Roots -> SUBSET Ids]
          /\ gdisk' \in [Roots -> SUBSET SUBSET Ids]
      BY <2>1, <2>2, <2>3
    <2>5. "none" \in Steps /\ "idle" \in Phases BY DEF Steps, Phases
    <2> QED BY <1>18, <2>4, <2>5 DEF PowerLoss, TypeOK, ghostVars
  <1>19. ASSUME UNCHANGED vars PROVE TypeOK'
    BY <1>19 DEF vars, fsVars, procVars, ghostVars, TypeOK
  <1> QED BY <1>1, <1>2, <1>3, <1>4, <1>5, <1>6, <1>7, <1>8, <1>9, <1>10, <1>11,
             <1>12, <1>13, <1>14, <1>15, <1>16, <1>17, <1>18, <1>19 DEF Next, Step

-----------------------------------------------------------------------------
\* Moving on within a phase keeps the control invariant.
LEMMA GotoControl ==
  ASSUME TypeOK, AllControl, NEW p \in Procs, NEW step, Goto(p, step),
         \/ /\ at[p] \in {"read", "discard", "remove", "rsync", "forward"}
            /\ step \in {"discard", "remove", "rsync", "forward", "fsync"}
         \/ /\ at[p] \in {"stage", "publish", "settle", "point"}
            /\ step \in {"publish", "settle", "point", "psync"}
         \/ at[p] = "rename" /\ step = "ssync"
         \/ at[p] = "prune" /\ step = "prune"
  PROVE  AllControl'
  <1> SUFFICES ASSUME NEW q \in Procs PROVE Control(q)' BY DEF AllControl
  <1>1. Control(q) /\ Control(p) BY DEF AllControl
  <1>2. /\ phase' = phase /\ left' = left /\ over' = over /\ roots' = roots
        /\ id' = id /\ target' = target /\ at' = [at EXCEPT ![p] = step]
    BY DEF Goto, ghostVars
  <1>3. CASE q = p
    <2>1. at'[p] = step BY <1>2 DEF TypeOK
    <2> QED BY <1>1, <1>2, <1>3, <2>1 DEF Control
  <1>4. CASE q # p
    <2>1. at'[q] = at[q] BY <1>2, <1>4 DEF TypeOK
    <2> QED BY <1>1, <1>2, <2>1 DEF Control
  <1> QED BY <1>3, <1>4

\* The program counter of p after Enter; nobody else's moves.
LEMMA EnterEffect ==
  ASSUME TypeOK, NEW p \in Procs, NEW ph, NEW rs, Enter(p, ph, rs)
  PROVE  /\ phase'[p] = ph /\ left'[p] = rs /\ at'[p] = FirstStep(ph)
         /\ \A q \in Procs : q # p => /\ phase'[q] = phase[q] /\ left'[q] = left[q]
                                      /\ at'[q] = at[q]
  BY DEF Enter, TypeOK

\* The first steps of the phases.
LEMMA FirstSteps ==
  /\ FirstStep("idle") = "none" /\ FirstStep("lock") = "take"
  /\ FirstStep("recover") = "read" /\ FirstStep("cleanup") = "read"
  /\ FirstStep("prepare") = "stage" /\ FirstStep("switch") = "rename"
  /\ FirstStep("prune") = "prune"
  BY DEF FirstStep

\* Processes whose own state and whose id's target a step leaves alone.
LEMMA ControlFrame ==
  ASSUME TypeOK, NEW q \in Procs, Control(q),
         phase'[q] = phase[q], left'[q] = left[q], at'[q] = at[q],
         over'[q] = over[q], roots'[q] = roots[q], id'[q] = id[q],
         id[q] \in Ids => target'[id[q]] = target[id[q]]
  PROVE  Control(q)'
  BY DEF Control

\* A process that returns or dies is idle, and the others stay as they are.
LEMMA IdleControl ==
  ASSUME TypeOK, AllControl, NEW p \in Procs, Enter(p, "idle", {}),
         over' = [over EXCEPT ![p] = {}], roots' = [roots EXCEPT ![p] = {}],
         id' = [id EXCEPT ![p] = NoId], target' = target
  PROVE  AllControl'
  <1> SUFFICES ASSUME NEW q \in Procs PROVE Control(q)' BY DEF AllControl
  <1>1. CASE q = p
    <2>1. over'[p] = {} /\ roots'[p] = {} /\ id'[p] = NoId BY DEF TypeOK
    <2> QED BY <1>1, <2>1, EnterEffect, FirstSteps DEF Control
  <1>2. CASE q # p
    <2>1. over'[q] = over[q] /\ roots'[q] = roots[q] /\ id'[q] = id[q]
      BY <1>2 DEF TypeOK
    <2>2. Control(q) BY DEF AllControl
    <2> QED BY <1>2, <2>1, <2>2, EnterEffect, ControlFrame
  <1> QED BY <1>1, <1>2

\* Entering a phase that p's roots and id allow keeps the control invariant.
LEMMA PhaseControl ==
  ASSUME TypeOK, AllControl, NEW p \in Procs, NEW ph, NEW rs, Enter(p, ph, rs),
         UNCHANGED <<over, roots, id, target>>, phase[p] # "idle",
         rs # {}, rs \subseteq over[p],
         \/ ph = "lock" /\ phase[p] = "lock"
         \/ ph = "recover" /\ phase[p] \in {"lock", "recover"}
         \/ /\ ph \in {"prepare", "switch", "prune"} /\ rs \subseteq roots[p]
            /\ phase[p] \in {"prepare", "switch", "prune"}
         \/ /\ ph = "cleanup"
            /\ phase[p] \in {"prepare", "switch", "prune", "cleanup"}
  PROVE  AllControl'
  <1> SUFFICES ASSUME NEW q \in Procs PROVE Control(q)' BY DEF AllControl
  <1>1. Control(q) BY DEF AllControl
  <1>2. CASE q = p
    BY <1>1, <1>2, EnterEffect, FirstSteps DEF Control
  <1>3. CASE q # p
    BY <1>1, <1>3, EnterEffect, ControlFrame
  <1> QED BY <1>2, <1>3

\* The root p works on is one it has left.
LEMMA HereLeft ==
  ASSUME TypeOK, NEW p \in Procs, left[p] # {} PROVE Here(p) \in left[p]
  BY Constants DEF Here, TypeOK

\* Drawing an id starts the prepare phase.
LEMMA DrawControl ==
  ASSUME TypeOK, AllControl, NEW p \in Procs, NEW i \in Ids, target[i] = {},
         Enter(p, "prepare", roots[p]), phase[p] = "recover", roots[p] # {},
         id' = [id EXCEPT ![p] = i], target' = [target EXCEPT ![i] = roots[p]],
         UNCHANGED <<over, roots>>
  PROVE  AllControl'
  <1> SUFFICES ASSUME NEW q \in Procs PROVE Control(q)' BY DEF AllControl
  <1>1. Control(q) BY DEF AllControl
  <1>2. CASE q = p
    <2>1. id'[p] = i /\ target'[i] = roots[p] BY DEF TypeOK
    <2> QED BY <1>1, <1>2, <2>1, EnterEffect, FirstSteps DEF Control
  <1>3. CASE q # p
    <2>1. id'[q] = id[q] BY <1>3 DEF TypeOK
    <2>2. id[q] \in Ids => id[q] # i
      <3>1. phase[q] \in Phases BY DEF TypeOK
      <3> QED BY <1>1, <3>1, IdsAssumption DEF Control, Phases
    <2>3. id[q] \in Ids => target'[id[q]] = target[id[q]] BY <2>2 DEF TypeOK
    <2> QED BY <1>1, <1>3, <2>1, <2>3, EnterEffect, ControlFrame
  <1> QED BY <1>2, <1>3

\* Advance keeps the control invariant.
LEMMA AdvanceControl ==
  ASSUME TypeOK, AllControl, NEW p \in Procs, phase[p] \notin {"idle", "lock"}, Advance(p)
  PROVE  AllControl'
  <1> DEFINE rest == left[p] \ {Here(p)}
  <1>0. /\ Control(p) /\ phase[p] \in Phases /\ rest \subseteq over[p]
        /\ roots[p] \subseteq over[p]
    BY DEF AllControl, Control, TypeOK
  <1>1. CASE rest # {} /\ Enter(p, phase[p], rest) /\ UNCHANGED <<over, roots, id, lock, ghostVars>>
    <2>1. UNCHANGED <<over, roots, id, target>> BY <1>1 DEF ghostVars
    <2>2. phase[p] \in {"prepare", "switch", "prune"} => rest \subseteq roots[p]
      BY <1>0 DEF Control
    <2> QED BY <1>0, <1>1, <2>1, <2>2, PhaseControl DEF Phases
  <1>2. CASE phase[p] = "recover" /\ roots[p] # {} /\ rest = {} /\ Advance(p)
    <2>1. PICK i \in Ids : /\ GenerationId(i) /\ id' = [id EXCEPT ![p] = i]
                            /\ target' = [target EXCEPT ![i] = roots[p]]
      BY <1>2 DEF Advance
    <2>2. Enter(p, "prepare", roots[p]) /\ UNCHANGED <<over, roots>> BY <1>2 DEF Advance
    <2>3. target[i] = {} BY <2>1 DEF GenerationId, Unused
    <2> QED BY <1>2, <2>1, <2>2, <2>3, DrawControl
  <1>3. CASE phase[p] \in {"prepare", "switch"} /\ rest = {} /\ Advance(p)
    <2>1. \E ph \in {"switch", "prune"} : Enter(p, ph, roots[p])
      BY <1>3 DEF Advance
    <2>2. UNCHANGED <<over, roots, id, target>> BY <1>3 DEF Advance, ghostVars
    <2>3. roots[p] # {} BY <1>0, <1>3 DEF Control
    <2> QED BY <1>0, <1>3, <2>1, <2>2, <2>3, PhaseControl
  <1>4. CASE \E res : Return(p, res)
    BY <1>4, IdleControl DEF Return
  <1> QED BY <1>0, <1>1, <1>2, <1>3, <1>4 DEF Advance

\* Every step keeps the control invariant, under every fault.
LEMMA ControlStep == TypeOK /\ AllControl /\ [Next]_vars => AllControl'
  <1> SUFFICES ASSUME TypeOK, AllControl, [Next]_vars PROVE AllControl' OBVIOUS
  <1>c. \A p \in Procs : Control(p) /\ phase[p] \in Phases
    BY DEF AllControl, TypeOK
  <1>1. ASSUME NEW p \in Procs, NEW o \in Operations, Begin(p, o) PROVE AllControl'
    <2>1. o[1] # {} /\ Public \in o[1] /\ o[2] \subseteq o[1]
      BY Constants DEF Operations
    <2> SUFFICES ASSUME NEW q \in Procs PROVE Control(q)' BY DEF AllControl
    <2>2. Enter(p, "lock", o[1]) /\ id' = id /\ target' = target /\ phase[p] = "idle"
      BY <1>1 DEF Begin, ghostVars
    <2>3. CASE q = p
      <3>1. over'[p] = o[1] /\ roots'[p] = o[2] BY <1>1 DEF Begin, TypeOK
      <3> QED BY <1>c, <2>1, <2>2, <2>3, <3>1, EnterEffect, FirstSteps DEF Control
    <2>4. CASE q # p
      <3>1. over'[q] = over[q] /\ roots'[q] = roots[q] BY <1>1, <2>4 DEF Begin, TypeOK
      <3> QED BY <1>c, <2>2, <2>4, <3>1, EnterEffect, ControlFrame
    <2> QED BY <2>3, <2>4
  <1>2. ASSUME NEW p \in Procs, Lock(p) PROVE AllControl'
    <2>1. phase[p] = "lock" /\ Public \in over[p] /\ left[p] \subseteq over[p]
      BY <1>2, <1>c DEF Lock, Control
    <2>2. UNCHANGED <<over, roots, id, target>> BY <1>2 DEF Lock, ghostVars
    <2>3. CASE left[p] \ {Here(p)} # {}
      <3>1. Enter(p, "lock", left[p] \ {Here(p)}) BY <1>2, <2>3 DEF Lock
      <3> QED BY <2>1, <2>2, <2>3, <3>1, PhaseControl
    <2>4. CASE left[p] \ {Here(p)} = {}
      <3>1. Enter(p, "recover", over[p]) BY <1>2, <2>4 DEF Lock
      <3> QED BY <2>1, <2>2, <3>1, PhaseControl
    <2> QED BY <2>3, <2>4
  <1>3. ASSUME NEW p \in Procs,
               \/ RecRead(p) \/ RecDiscard(p) \/ RecRemove(p) \/ RecSync(p)
               \/ RecForward(p) \/ RecForwardSync(p) \/ Stage(p) \/ Publish(p)
               \/ Settle(p) \/ Point(p) \/ PointSync(p) \/ Switch(p)
               \/ SwitchSync(p) \/ PruneOne(p) \/ PruneDone(p)
        PROVE AllControl'
    <2>1. CASE Advance(p)
      <3>1. phase[p] \notin {"idle", "lock"}
        BY <1>3, <1>c DEF RecRead, RecDiscard, RecRemove, RecSync, RecForward,
           RecForwardSync, Stage, Publish, Settle, Point, PointSync, Switch,
           SwitchSync, PruneOne, PruneDone, Control
      <3> QED BY <2>1, <3>1, AdvanceControl
    <2>2. CASE ~ Advance(p)
      <3>1. CASE RecRead(p)
        BY <2>2, <3>1, GotoControl DEF RecRead
      <3>2. CASE RecDiscard(p) \/ RecRemove(p) \/ RecSync(p) \/ RecForward(p)
        BY <2>2, <3>2, GotoControl DEF RecDiscard, RecRemove, RecSync, RecForward
      <3>3. CASE Stage(p) \/ Publish(p) \/ Settle(p) \/ Point(p) \/ Switch(p) \/ PruneOne(p)
        BY <3>3, GotoControl DEF Stage, Publish, Settle, Point, Switch, PruneOne
      <3> QED BY <1>3, <2>2, <3>1, <3>2, <3>3
              DEF RecForwardSync, PointSync, SwitchSync, PruneDone
    <2> QED BY <2>1, <2>2
  <1>4. ASSUME NEW p \in Procs, Fail(p) PROVE AllControl'
    <2>1. CASE phase[p] \in {"lock", "recover"} /\ Return(p, "err")
      BY <2>1, IdleControl DEF Return
    <2>2. CASE /\ phase[p] \in {"prepare", "switch", "prune"}
               /\ Enter(p, "cleanup", over[p])
               /\ UNCHANGED <<over, roots, id, lock, ghostVars>>
      <3>1. over[p] # {} BY <1>c, <2>2 DEF Control
      <3>2. UNCHANGED <<over, roots, id, target>> BY <2>2 DEF ghostVars
      <3> QED BY <2>2, <3>1, <3>2, PhaseControl
    <2>3. CASE phase[p] = "cleanup" /\ Advance(p)
      BY <2>3, AdvanceControl
    <2> QED BY <1>4, <2>1, <2>2, <2>3 DEF Fail
  <1>5. ASSUME NEW p \in Procs, Kill(p) PROVE AllControl'
    BY <1>5, IdleControl DEF Kill, ghostVars
  <1>6. ASSUME PowerLoss PROVE AllControl'
    <2> SUFFICES ASSUME NEW q \in Procs PROVE Control(q)' BY DEF AllControl
    <2> QED BY <1>6 DEF PowerLoss, Control
  <1>7. ASSUME UNCHANGED vars PROVE AllControl'
    BY <1>7 DEF vars, procVars, ghostVars, AllControl, Control
  <1> QED BY <1>1, <1>2, <1>3, <1>4, <1>5, <1>6, <1>7 DEF Next, Step

\* Every variable keeps its type, whatever crashes, fails or loses power.
THEOREM TypeCorrect == Spec => []TypeOK
  <1>1. Init => TypeOK /\ AllControl
    <2> SUFFICES ASSUME Init PROVE TypeOK /\ AllControl OBVIOUS
    <2>1. [cur |-> NoId, pend |-> {}] \in DirState BY DEF DirState
    <2>2. "none" \in Steps /\ "idle" \in Phases BY DEF Steps, Phases
    <2>3. AllControl BY DEF Init, AllControl, Control
    <2> QED BY <2>1, <2>2, <2>3 DEF Init, TypeOK
  <1> QED BY <1>1, TypeStep, ControlStep, PTL DEF Spec

-----------------------------------------------------------------------------
\* A step that gives p no lock of another process and keeps the others'.
LEMMA LockFrame ==
  ASSUME TypeOK, NEW q \in Procs, Locking(q),
         phase'[q] = phase[q], left'[q] = left[q], over'[q] = over[q],
         \A r \in Roots : lock[r] = q => lock'[r] = q
  PROVE  Locking(q)'
  <1>1. over[q] \subseteq Roots BY DEF TypeOK
  <1> QED BY <1>1 DEF Locking, Active

\* A process that returns or dies gives up only its own locks.
LEMMA IdleLocking ==
  ASSUME TypeOK, AllLocking, NEW p \in Procs, Enter(p, "idle", {}),
         over' = [over EXCEPT ![p] = {}],
         lock' = [r \in Roots |-> IF lock[r] = p THEN Nobody ELSE lock[r]]
  PROVE  AllLocking'
  <1> SUFFICES ASSUME NEW q \in Procs PROVE Locking(q)' BY DEF AllLocking
  <1>1. CASE q = p
    BY <1>1, EnterEffect DEF Locking, Active
  <1>2. CASE q # p
    <2>1. over'[q] = over[q] BY <1>2 DEF TypeOK
    <2>2. Locking(q) BY DEF AllLocking
    <2> QED BY <1>2, <2>1, <2>2, EnterEffect, LockFrame
  <1> QED BY <1>1, <1>2

\* Moving on under the locks keeps them.
LEMMA PhaseLocking ==
  ASSUME TypeOK, AllLocking, NEW p \in Procs, NEW ph, NEW rs, Enter(p, ph, rs),
         Active(p), ph \notin {"idle", "lock"}, UNCHANGED <<over, lock>>
  PROVE  AllLocking'
  <1> SUFFICES ASSUME NEW q \in Procs PROVE Locking(q)' BY DEF AllLocking
  <1>0. Locking(q) BY DEF AllLocking
  <1>1. CASE q = p
    BY <1>0, <1>1, EnterEffect DEF Locking, Active
  <1>2. CASE q # p
    BY <1>0, <1>2, EnterEffect, LockFrame
  <1> QED BY <1>1, <1>2

\* Advance keeps or drops the locks.
LEMMA AdvanceLocking ==
  ASSUME TypeOK, AllLocking, NEW p \in Procs, Active(p), Advance(p)
  PROVE  AllLocking'
  <1>1. CASE \E ph, rs : /\ Enter(p, ph, rs) /\ ph \notin {"idle", "lock"}
                         /\ UNCHANGED <<over, lock>>
    BY <1>1, PhaseLocking
  <1>2. CASE \E res : Return(p, res)
    BY <1>2, IdleLocking DEF Return
  <1>3. phase[p] \notin {"idle", "lock"} BY DEF Active
  <1> QED BY <1>1, <1>2, <1>3 DEF Advance

\* Every step keeps the locks where the control says they are.
LEMMA LockingStep == TypeOK /\ AllControl /\ AllLocking /\ [Next]_vars => AllLocking'
  <1> SUFFICES ASSUME TypeOK, AllControl, AllLocking, [Next]_vars PROVE AllLocking'
    OBVIOUS
  <1>c. \A p \in Procs : Control(p) /\ Locking(p)
    BY DEF AllControl, AllLocking
  <1>1. ASSUME NEW p \in Procs, NEW o \in Operations, Begin(p, o) PROVE AllLocking'
    <2> SUFFICES ASSUME NEW q \in Procs PROVE Locking(q)' BY DEF AllLocking
    <2>1. Enter(p, "lock", o[1]) /\ lock' = lock BY <1>1 DEF Begin
    <2>2. CASE q = p
      <3>1. over'[p] = o[1] BY <1>1 DEF Begin, TypeOK
      <3> QED BY <2>1, <2>2, <3>1, EnterEffect DEF Locking, Active
    <2>3. CASE q # p
      <3>1. over'[q] = over[q] BY <1>1, <2>3 DEF Begin, TypeOK
      <3> QED BY <1>c, <2>1, <2>3, <3>1, EnterEffect, LockFrame
    <2> QED BY <2>2, <2>3
  <1>2. ASSUME NEW p \in Procs, Lock(p) PROVE AllLocking'
    <2> SUFFICES ASSUME NEW q \in Procs PROVE Locking(q)' BY DEF AllLocking
    <2> DEFINE r == Here(p)
               rest == left[p] \ {r}
    <2>1. /\ phase[p] = "lock" /\ lock[r] = Nobody /\ over' = over
          /\ lock' = [lock EXCEPT ![r] = p]
      BY <1>2, <1>c DEF Lock, Control
    <2>2. lock'[r] = p /\ \A x \in Roots : x # r => lock'[x] = lock[x]
      BY <2>1, HereType DEF TypeOK
    <2>3. CASE q = p
      <3>1. \A x \in over[p] \ rest : lock'[x] = p
        <4>1. \A x \in over[p] \ left[p] : lock[x] = p BY <1>c, <2>1 DEF Locking
        <4>2. over[p] \subseteq Roots BY DEF TypeOK
        <4> QED BY <2>2, <4>1, <4>2
      <3>2. CASE rest # {}
        <4>1. Enter(p, "lock", rest) BY <1>2, <3>2 DEF Lock
        <4> QED BY <2>1, <2>3, <3>1, <4>1, EnterEffect DEF Locking, Active
      <3>3. CASE rest = {}
        <4>1. Enter(p, "recover", over[p]) BY <1>2, <3>3 DEF Lock
        <4> QED BY <2>1, <2>3, <3>1, <3>3, <4>1, EnterEffect DEF Locking, Active
      <3> QED BY <3>2, <3>3
    <2>4. CASE q # p
      <3>1. \E ph, rs : Enter(p, ph, rs) BY <1>2 DEF Lock
      <3>2. \A x \in Roots : lock[x] = q => lock'[x] = q
        BY <2>1, <2>2, <2>4, Constants
      <3> QED BY <1>c, <2>1, <2>4, <3>1, <3>2, EnterEffect, LockFrame
    <2> QED BY <2>3, <2>4
  <1>3. ASSUME NEW p \in Procs, NEW step, Goto(p, step) PROVE AllLocking'
    BY <1>3 DEF Goto, AllLocking, Locking, Active
  <1>4. ASSUME NEW p \in Procs,
               \/ RecRead(p) \/ RecDiscard(p) \/ RecRemove(p) \/ RecSync(p)
               \/ RecForward(p) \/ RecForwardSync(p) \/ Stage(p) \/ Publish(p)
               \/ Settle(p) \/ Point(p) \/ PointSync(p) \/ Switch(p)
               \/ SwitchSync(p) \/ PruneOne(p) \/ PruneDone(p)
        PROVE AllLocking'
    <2>1. Active(p)
      BY <1>4, <1>c DEF RecRead, RecDiscard, RecRemove, RecSync, RecForward,
         RecForwardSync, Stage, Publish, Settle, Point, PointSync, Switch,
         SwitchSync, PruneOne, PruneDone, Control, Active
    <2>2. Advance(p) \/ \E step : Goto(p, step)
      BY <1>4 DEF RecRead, RecDiscard, RecRemove, RecSync, RecForward,
         RecForwardSync, Stage, Publish, Settle, Point, PointSync, Switch,
         SwitchSync, PruneOne, PruneDone
    <2> QED BY <1>3, <2>1, <2>2, AdvanceLocking
  <1>5. ASSUME NEW p \in Procs, Fail(p) PROVE AllLocking'
    <2>1. CASE Return(p, "err") BY <2>1, IdleLocking DEF Return
    <2>2. CASE /\ phase[p] \in {"prepare", "switch", "prune"}
               /\ Enter(p, "cleanup", over[p])
               /\ UNCHANGED <<over, roots, id, lock, ghostVars>>
      BY <2>2, PhaseLocking DEF Active
    <2>3. CASE phase[p] = "cleanup" /\ Advance(p) BY <2>3, AdvanceLocking DEF Active
    <2> QED BY <1>5, <2>1, <2>2, <2>3 DEF Fail
  <1>6. ASSUME NEW p \in Procs, Kill(p) PROVE AllLocking'
    BY <1>6, IdleLocking DEF Kill
  <1>7. ASSUME PowerLoss PROVE AllLocking'
    BY <1>7 DEF PowerLoss, AllLocking, Locking, Active
  <1>8. ASSUME UNCHANGED vars PROVE AllLocking'
    BY <1>8 DEF vars, procVars, AllLocking, Locking, Active
  <1> QED BY <1>1, <1>2, <1>4, <1>5, <1>6, <1>7, <1>8 DEF Next, Step

\* At most one process is past its locks: everyone locks the public root.
LEMMA Exclusive ==
  ASSUME AllControl, AllLocking, NEW p \in Procs, NEW q \in Procs, p # q, Active(p)
  PROVE  ~ Active(q)
  BY DEF AllControl, AllLocking, Control, Locking, Active

-----------------------------------------------------------------------------
\* A process that is not past its locks has made no progress.
LEMMA Vacuous ==
  ASSUME NEW q \in Procs, Control(q), ~ Active(q)
  PROVE  RecoveryProgress(q) /\ DeployProgress(q)
  BY DEF Control, Active, RecoveryProgress, DeployProgress

\* The file-system invariant speaks of these variables only.
LEMMA FilesFrame ==
  ASSUME Files, UNCHANGED <<cur, pend, gens, carries, target, outcome>>
  PROVE  Files'
  BY DEF Files, NoDangling, Pointers, Contents, LogicalAtomicity, Logical,
         Forwardable, Outcomes, AckedInstalled, Installed

\* A fresh id is in no root and in no generation.
LEMMA FreshId ==
  ASSUME TypeOK, Files, NEW i \in Ids, target[i] = {}
  PROVE  /\ \A r \in Roots : cur[r] # i /\ i \notin pend[r]
         /\ \A r \in Roots : i \notin Installed(r) /\ i \notin Logical(r)
  <1>1. \A r \in Roots : cur[r] # i /\ i \notin pend[r]
    BY IdsAssumption DEF Files, Pointers
  <1>2. \A r \in Roots, g \in Ids : i \notin carries[r][g]
    BY DEF Files, Contents
  <1>3. \A r \in Roots : cur[r] \in Ids \cup {NoId} BY DEF TypeOK
  <1>4. \A r \in Roots : i \notin Installed(r) BY <1>2, <1>3 DEF Installed
  <1>5. pend[Public] \subseteq Ids BY Constants DEF TypeOK
  <1> QED BY <1>1, <1>2, <1>4, <1>5, Constants DEF Logical

\* Drawing a fresh id leaves the files as they are.
LEMMA FilesDraw ==
  ASSUME TypeOK, Files, NEW i \in Ids, target[i] = {}, NEW rs,
         target' = [target EXCEPT ![i] = rs],
         UNCHANGED <<cur, pend, gens, carries, outcome>>
  PROVE  Files'
  <1>1. \A j \in Ids : j # i => target'[j] = target[j] BY DEF TypeOK
  <1>2. /\ \A r \in Roots : cur[r] # i /\ i \notin pend[r]
        /\ \A r \in Roots : i \notin Installed(r) /\ i \notin Logical(r)
    BY FreshId
  <1>3. /\ \A r \in Roots : Installed(r)' = Installed(r)
        /\ \A r \in Roots : Logical(r)' = Logical(r)
    BY DEF Installed, Logical
  <1>4. NoDangling' /\ Forwardable' BY DEF Files, NoDangling, Forwardable, Installed
  <1>5. Pointers'
    <2>1. \A r \in Roots : cur[r] \in Ids \cup {NoId} /\ pend[r] \subseteq Ids
      BY DEF TypeOK
    <2> QED BY <1>1, <1>2, <2>1 DEF Files, Pointers
  <1>6. Contents'
    <2>1. \A r \in Roots, g \in Ids : i \notin carries[r][g] /\ carries[r][g] \subseteq Ids
      BY DEF Files, Contents, TypeOK
    <2> QED BY <1>1, <2>1 DEF Files, Contents
  <1>7. LogicalAtomicity' BY <1>1, <1>2, <1>3, Constants DEF Files, LogicalAtomicity
  <1>8. outcome[i] = "none" BY DEF Files, Outcomes
  <1>9. Outcomes' BY <1>1, <1>8 DEF Files, Outcomes
  <1>10. AckedInstalled'
    <2>1. \A j \in Ids : target[j] \subseteq Roots BY DEF TypeOK
    <2> QED BY <1>1, <1>3, <1>8, <2>1 DEF Files, AckedInstalled
  <1> QED BY <1>4, <1>5, <1>6, <1>7, <1>9, <1>10 DEF Files

\* Telling the caller leaves the files as they are; an "ok" is told only
\* when the deployment is current in all its roots.
LEMMA FilesReturn ==
  ASSUME TypeOK, AllControl, Files, NEW p \in Procs, NEW res \in {"ok", "err"},
         Return(p, res), UNCHANGED <<cur, pend, gens, carries>>,
         (res = "ok" /\ id[p] \in Ids) => \A r \in target[id[p]] : Switched(p, r)
  PROVE  Files'
  <1>1. CASE id[p] \notin Ids
    BY <1>1, FilesFrame DEF Return
  <1>2. CASE id[p] \in Ids
    <2>1. target' = target /\ outcome' = [outcome EXCEPT ![id[p]] = res]
      BY <1>2 DEF Return
    <2>2. \A r \in Roots : Installed(r)' = Installed(r) /\ Logical(r)' = Logical(r)
      BY DEF Installed, Logical
    <2>3. target[id[p]] # {}
      <3>1. Control(p) /\ phase[p] \in Phases BY DEF AllControl, TypeOK
      <3> QED BY <1>2, <3>1, IdsAssumption DEF Control, Phases
    <2>4. Outcomes' BY <1>2, <2>1, <2>3 DEF Files, Outcomes, TypeOK
    <2>5. AckedInstalled'
      <3>1. \A j \in Ids : target[j] \subseteq Roots BY DEF TypeOK
      <3>2. \A j \in Ids : j # id[p] => outcome'[j] = outcome[j] BY <2>1 DEF TypeOK
      <3>3. outcome'[id[p]] = res BY <1>2, <2>1 DEF TypeOK
      <3>4. res = "ok" => \A r \in target[id[p]] : id[p] \in Installed(r)
        BY <1>2, IdsAssumption DEF Switched, Installed
      <3> QED BY <1>2, <2>1, <2>2, <3>1, <3>2, <3>3, <3>4 DEF Files, AckedInstalled
    <2>6. NoDangling' /\ Forwardable' /\ Pointers' /\ Contents' /\ LogicalAtomicity'
      BY <2>1, <2>2, Constants
         DEF Files, NoDangling, Forwardable, Pointers, Contents, LogicalAtomicity, Installed
    <2> QED BY <2>4, <2>5, <2>6 DEF Files
  <1> QED BY <1>1, <1>2

\* What a process has reached when Here(p) is done in its phase.
RootDone(p) ==
    /\ phase[p] = "recover" => pend[Here(p)] = {}
    /\ phase[p] = "prepare" => Prepared(p, Here(p))
    /\ phase[p] = "switch" => Switched(p, Here(p))

\* Moving to the next root or phase keeps the progress of p ...
LEMMA AdvanceProgress ==
  ASSUME TypeOK, IndInv, NEW p \in Procs, Active(p), RootDone(p), Advance(p),
         UNCHANGED <<cur, pend, gens, carries>>, AllControl'
  PROVE  RecoveryProgress(p)' /\ DeployProgress(p)'
  <1> DEFINE rest == left[p] \ {Here(p)}
  <1>0. /\ Control(p) /\ Control(p)' /\ RecoveryProgress(p) /\ DeployProgress(p)
        /\ over[p] \subseteq Roots
    BY DEF IndInv, AllControl, AllProgress, TypeOK
  <1>1. CASE rest # {} /\ Enter(p, phase[p], rest) /\ UNCHANGED <<over, roots, id, lock, ghostVars>>
    <2>1. /\ phase'[p] = phase[p] /\ left'[p] = rest /\ at'[p] = FirstStep(phase[p])
      BY <1>1, EnterEffect
    <2>2. CASE phase[p] \in {"recover", "cleanup"}
      BY <1>0, <1>1, <2>1, <2>2, FirstSteps DEF RecoveryProgress, DeployProgress, RootDone
    <2>3. CASE phase[p] = "prepare"
      <3>1. \A r \in Roots : Prepared(p, r)' = Prepared(p, r)
        BY <1>1 DEF Prepared, Staged, Installed
      <3>2. \A r \in roots[p] \ rest : Prepared(p, r)
        BY <1>0, <2>3 DEF DeployProgress, RootDone
      <3> QED BY <1>0, <1>1, <2>1, <2>3, <3>1, <3>2, FirstSteps
              DEF RecoveryProgress, DeployProgress, Control
    <2>4. CASE phase[p] = "switch"
      <3>1. \A r \in Roots : /\ Prepared(p, r)' = Prepared(p, r)
                             /\ Switched(p, r)' = Switched(p, r)
        BY <1>1 DEF Prepared, Staged, Installed, Switched
      <3>2. \A r \in roots[p] \ rest : Switched(p, r)
        BY <1>0, <2>4 DEF DeployProgress, RootDone
      <3>3. \A r \in rest : Prepared(p, r)
        BY <1>0, <2>4 DEF DeployProgress
      <3> QED BY <1>0, <1>1, <2>1, <2>4, <3>1, <3>2, <3>3, FirstSteps
              DEF RecoveryProgress, DeployProgress, Control
    <2>5. CASE phase[p] = "prune"
      <3>1. \A r \in Roots : Switched(p, r)' = Switched(p, r)
        BY <1>1 DEF Switched
      <3> QED BY <1>0, <1>1, <2>1, <2>5, <3>1, FirstSteps
              DEF RecoveryProgress, DeployProgress, Control
    <2>6. phase[p] \in Phases BY DEF TypeOK
    <2> QED BY <2>2, <2>3, <2>4, <2>5, <2>6 DEF Phases, Active
  <1>2. CASE phase[p] = "recover" /\ roots[p] # {} /\ rest = {} /\ Advance(p)
    <2>1. PICK i \in Ids : /\ GenerationId(i) /\ id' = [id EXCEPT ![p] = i]
      BY <1>2 DEF Advance
    <2>2. Enter(p, "prepare", roots[p]) /\ UNCHANGED <<over, roots>> BY <1>2 DEF Advance
    <2>3. /\ phase'[p] = "prepare" /\ left'[p] = roots[p] /\ at'[p] = "stage" /\ id'[p] = i
      BY <2>1, <2>2, EnterEffect, FirstSteps DEF TypeOK
    <2>4. target[i] = {} BY <2>1 DEF GenerationId, Unused
    <2>5. \A r \in Roots : cur[r] # i BY <2>4, FreshId DEF IndInv
    <2>6. \A r \in over[p] : pend[r] = {}
      BY <1>0, <1>2 DEF RecoveryProgress, RootDone
    <2> QED BY <2>2, <2>3, <2>5, <2>6 DEF RecoveryProgress, DeployProgress
  <1>3. CASE phase[p] = "prepare" /\ rest = {} /\ Advance(p)
    <2>1. Enter(p, "switch", roots[p]) /\ UNCHANGED <<over, roots, id>> BY <1>3 DEF Advance
    <2>2. phase'[p] = "switch" /\ left'[p] = roots[p] /\ at'[p] = "rename"
      BY <2>1, EnterEffect, FirstSteps
    <2>3. \A r \in Roots : Prepared(p, r)' = Prepared(p, r)
      BY <2>1 DEF Prepared, Staged, Installed
    <2>4. \A r \in roots[p] : Prepared(p, r)
      BY <1>0, <1>3 DEF DeployProgress, RootDone
    <2> QED BY <1>0, <1>3, <2>1, <2>2, <2>3, <2>4
            DEF RecoveryProgress, DeployProgress, Control
  <1>4. CASE phase[p] = "switch" /\ rest = {} /\ Advance(p)
    <2>1. Enter(p, "prune", roots[p]) /\ UNCHANGED <<over, roots, id>> BY <1>4 DEF Advance
    <2>2. phase'[p] = "prune" /\ left'[p] = roots[p] /\ at'[p] = "prune"
      BY <2>1, EnterEffect, FirstSteps
    <2>3. \A r \in Roots : Switched(p, r)' = Switched(p, r)
      BY <2>1 DEF Switched
    <2>4. \A r \in roots[p] : Switched(p, r)
      BY <1>0, <1>4 DEF DeployProgress, RootDone
    <2> QED BY <1>0, <1>4, <2>1, <2>2, <2>3, <2>4
            DEF RecoveryProgress, DeployProgress, Control
  <1>5. CASE \E res : Return(p, res)
    <2>1. Enter(p, "idle", {}) BY <1>5 DEF Return
    <2>2. phase'[p] = "idle" /\ at'[p] = "none" BY <2>1, EnterEffect, FirstSteps
    <2> QED BY <2>2 DEF RecoveryProgress, DeployProgress
  <1> QED BY <1>1, <1>2, <1>3, <1>4, <1>5 DEF Advance

\* ... and leaves the files as they are.
LEMMA AdvanceFiles ==
  ASSUME TypeOK, IndInv, NEW p \in Procs, Active(p), Advance(p),
         UNCHANGED <<cur, pend, gens, carries>>
  PROVE  Files'
  <1> USE DEF IndInv
  <1>0. Control(p) /\ DeployProgress(p) BY DEF AllControl, AllProgress
  <1>1. CASE UNCHANGED ghostVars BY <1>1, FilesFrame DEF ghostVars
  <1>2. CASE phase[p] = "recover" /\ roots[p] # {} /\ left[p] \ {Here(p)} = {}
    <2>1. PICK i \in Ids : GenerationId(i) /\ target' = [target EXCEPT ![i] = roots[p]]
      BY <1>2 DEF Advance
    <2>2. outcome' = outcome /\ target[i] = {} BY <1>2, <2>1 DEF Advance, GenerationId, Unused
    <2> QED BY <2>1, <2>2, FilesDraw
  <1>3. CASE phase[p] = "recover" /\ Return(p, "ok")
    <2>1. id[p] \notin Ids BY <1>0, <1>3, IdsAssumption DEF Control
    <2> QED BY <1>3, <2>1, FilesReturn
  <1>4. CASE phase[p] = "prune" /\ Return(p, "ok")
    <2>1. \A r \in target[id[p]] : Switched(p, r)
      BY <1>0, <1>4 DEF Control, DeployProgress
    <2> QED BY <1>4, <2>1, FilesReturn
  <1>5. CASE phase[p] = "cleanup" /\ Return(p, "err")
    BY <1>5, FilesReturn
  <1> QED BY <1>1, <1>2, <1>3, <1>4, <1>5 DEF Advance

\* What Goto leaves of p: only its step changes.
LEMMA GotoEffect ==
  ASSUME TypeOK, NEW p \in Procs, NEW step, Goto(p, step)
  PROVE  /\ at'[p] = step /\ phase' = phase /\ left' = left /\ over' = over
         /\ roots' = roots /\ id' = id /\ target' = target /\ outcome' = outcome
         /\ Here(p)' = Here(p)
  <1>1. at'[p] = step BY DEF Goto, TypeOK
  <1>2. /\ phase' = phase /\ left' = left /\ over' = over /\ roots' = roots
        /\ id' = id /\ target' = target /\ outcome' = outcome
    BY DEF Goto, ghostVars
  <1> QED BY <1>1, <1>2 DEF Here

\* The facts every step of an active process starts from.
LEMMA AtWork ==
  ASSUME TypeOK, IndInv, NEW p \in Procs
  PROVE  /\ Control(p) /\ RecoveryProgress(p) /\ DeployProgress(p) /\ Files
         /\ Here(p) \in Roots /\ over[p] \subseteq Roots /\ left[p] \subseteq over[p]
         /\ roots[p] \subseteq over[p]
         /\ phase[p] # "idle" => Here(p) \in left[p] /\ Public \in over[p]
  BY HereType, HereLeft DEF IndInv, AllControl, AllProgress, TypeOK, Control

\* The recovery of a root decides by the commit pointer.
LEMMA RecReadInv ==
  ASSUME TypeOK, IndInv, NEW p \in Procs, RecRead(p), ~ Advance(p)
  PROVE  Files' /\ RecoveryProgress(p)' /\ DeployProgress(p)'
  <1> DEFINE r == Here(p)
             s == IF r = Public THEN cur[Secrets] ELSE NoId
             step == IF Discards(r, s) # {} THEN "discard" ELSE "forward"
  <1>1. /\ at[p] = "read" /\ pend[r] # {} /\ Goto(p, step)
        /\ seen' = [seen EXCEPT ![p] = s] /\ UNCHANGED fsVars
    BY DEF RecRead
  <1>2. seen'[p] = s BY <1>1 DEF TypeOK
  <1>3. /\ at'[p] = step /\ phase' = phase /\ left' = left /\ over' = over
        /\ roots' = roots /\ id' = id /\ target' = target /\ outcome' = outcome
        /\ Here(p)' = r
    BY <1>1, GotoEffect
  <1>4. Files' BY <1>1, <1>3, AtWork, FilesFrame DEF fsVars
  <1>5. step = "forward" => Discards(r, s) = {} /\ s \in pend[r]
    BY <1>1 DEF Discards
  <1>6. RecoveryProgress(p)'
    BY <1>1, <1>2, <1>3, <1>5, AtWork DEF RecoveryProgress, fsVars, Discards
  <1>7. DeployProgress(p)' BY <1>1, <1>3, AtWork DEF DeployProgress, Control
  <1> QED BY <1>4, <1>6, <1>7

\* Discarding an uncommitted pointer.
LEMMA RecDiscardInv ==
  ASSUME TypeOK, IndInv, NEW p \in Procs, RecDiscard(p)
  PROVE  /\ Files' /\ RecoveryProgress(p)' /\ DeployProgress(p)'
         /\ \A x \in Roots : Logical(x)' = Logical(x)
  <1> DEFINE r == Here(p)
  <1>1. PICK i \in Discards(r, seen[p]) :
          /\ SetDir(r, cur[r], pend[r] \ {i})
          /\ gone' = [gone EXCEPT ![p] = i]
    BY DEF RecDiscard
  <1>2. /\ at[p] = "discard" /\ Goto(p, "remove")
        /\ UNCHANGED <<gens, gdisk, carries, seen>>
    BY DEF RecDiscard
  <1>3. /\ at'[p] = "remove" /\ phase' = phase /\ left' = left /\ over' = over
        /\ roots' = roots /\ id' = id /\ target' = target /\ outcome' = outcome
        /\ Here(p)' = r
    BY <1>2, GotoEffect
  <1>4. /\ cur' = cur /\ pend' = [pend EXCEPT ![r] = pend[r] \ {i}]
    BY <1>1, AtWork DEF SetDir, TypeOK
  <1>5. gone'[p] = i BY <1>1 DEF TypeOK
  <1>6. /\ pend'[r] = pend[r] \ {i} /\ \A x \in Roots : x # r => pend'[x] = pend[x]
    BY <1>4, AtWork DEF TypeOK
  <1>7. r = Public => i # cur[Secrets]
    BY <1>1, <1>2, AtWork DEF RecoveryProgress, Discards
  <1>8. cur[Secrets] \in pend'[Public] <=> cur[Secrets] \in pend[Public]
    BY <1>6, <1>7, Constants, AtWork
  <1>9. \A x \in Roots : Installed(x)' = Installed(x) /\ Logical(x)' = Logical(x)
    BY <1>2, <1>4, <1>8 DEF Installed, Logical
  <1>10. Files'
    <2>1. NoDangling' BY <1>2, <1>4, AtWork DEF Files, NoDangling
    <2>2. Pointers' BY <1>3, <1>4, <1>6, AtWork DEF Files, Pointers
    <2>3. Contents' BY <1>2, <1>3, AtWork DEF Files, Contents
    <2>4. LogicalAtomicity' BY <1>3, <1>9, Constants, AtWork DEF Files, LogicalAtomicity
    <2>5. Forwardable' BY <1>2, <1>4, <1>8, <1>9, Constants, AtWork DEF Files, Forwardable
    <2>6. Outcomes' BY <1>3, AtWork DEF Files, Outcomes
    <2>7. AckedInstalled'
      <3>1. \A j \in Ids : target[j] \subseteq Roots BY DEF TypeOK
      <3> QED BY <1>3, <1>9, <3>1, AtWork DEF Files, AckedInstalled
    <2> QED BY <2>1, <2>2, <2>3, <2>4, <2>5, <2>6, <2>7 DEF Files
  <1>11. RecoveryProgress(p)'
    BY <1>2, <1>3, <1>4, <1>5, <1>6, AtWork DEF RecoveryProgress
  <1>12. DeployProgress(p)' BY <1>2, <1>3, AtWork DEF DeployProgress, Control
  <1> QED BY <1>9, <1>10, <1>11, <1>12

\* Removing a generation nothing names keeps the file-system invariant.
LEMMA RemoveFiles ==
  ASSUME TypeOK, Files, NEW r \in Roots, NEW g,
         gens' = [gens EXCEPT ![r] = gens[r] \ {g}], cur[r] # g,
         r = Public /\ cur[Secrets] \in pend[Public] => g # cur[Secrets],
         UNCHANGED <<cur, pend, carries, target, outcome>>
  PROVE  Files'
  <1>1. gens'[r] = gens[r] \ {g} /\ \A x \in Roots : x # r => gens'[x] = gens[x]
    BY DEF TypeOK
  <1>2. \A x \in Roots : Installed(x)' = Installed(x) /\ Logical(x)' = Logical(x)
    BY DEF Installed, Logical
  <1>3. NoDangling' BY <1>1 DEF Files, NoDangling
  <1>4. Forwardable' BY <1>1, <1>2, Constants DEF Files, Forwardable
  <1>5. Pointers' /\ Contents' /\ LogicalAtomicity' /\ Outcomes'
    BY <1>2, Constants DEF Files, Pointers, Contents, LogicalAtomicity, Outcomes
  <1>6. AckedInstalled'
    <2>1. \A j \in Ids : target[j] \subseteq Roots BY DEF TypeOK
    <2> QED BY <1>2, <2>1 DEF Files, AckedInstalled
  <1> QED BY <1>3, <1>4, <1>5, <1>6 DEF Files

\* Removing the generation of a discarded pointer.
LEMMA RecRemoveInv ==
  ASSUME TypeOK, IndInv, NEW p \in Procs, RecRemove(p)
  PROVE  Files' /\ RecoveryProgress(p)' /\ DeployProgress(p)'
  <1> DEFINE r == Here(p)
             step == IF Discards(r, seen[p]) # {} THEN "discard" ELSE "rsync"
  <1>1. /\ at[p] = "remove" /\ Goto(p, step)
        /\ UNCHANGED <<cur, pend, disk, carries, seen, gone>>
        /\ gens' = [gens EXCEPT ![r] = IF cur[r] = gone[p] THEN gens[r]
                                       ELSE gens[r] \ {gone[p]}]
    BY DEF RecRemove, SetGens
  <1>2. /\ at'[p] = step /\ phase' = phase /\ left' = left /\ over' = over
        /\ roots' = roots /\ id' = id /\ target' = target /\ outcome' = outcome
        /\ Here(p)' = r
    BY <1>1, GotoEffect
  <1>3. Files'
    <2>1. CASE cur[r] = gone[p]
      <3>1. gens' = gens BY <1>1, <2>1, AtWork DEF TypeOK
      <3> QED BY <1>1, <1>2, <3>1, AtWork, FilesFrame
    <2>2. CASE cur[r] # gone[p]
      <3>1. r = Public /\ cur[Secrets] \in pend[Public] => gone[p] # cur[Secrets]
        BY <1>1, AtWork DEF RecoveryProgress
      <3> QED BY <1>1, <1>2, <2>2, <3>1, AtWork, RemoveFiles
    <2> QED BY <2>1, <2>2
  <1>4. RecoveryProgress(p)'
    BY <1>1, <1>2, AtWork DEF RecoveryProgress, Discards
  <1>5. DeployProgress(p)' BY <1>1, <1>2, AtWork DEF DeployProgress, Control
  <1> QED BY <1>3, <1>4, <1>5

\* After the discards are synced, the committed pointer is what is left.
LEMMA RecSyncInv ==
  ASSUME TypeOK, IndInv, NEW p \in Procs, RecSync(p), ~ Advance(p)
  PROVE  Files' /\ RecoveryProgress(p)' /\ DeployProgress(p)'
  <1>1. /\ at[p] = "rsync" /\ Goto(p, "forward") /\ UNCHANGED <<seen, gone>>
        /\ Forwards(Here(p), seen[p]) # {} /\ UNCHANGED <<cur, pend, gens, carries>>
    BY DEF RecSync
  <1>2. /\ at'[p] = "forward" /\ phase' = phase /\ left' = left /\ over' = over
        /\ roots' = roots /\ id' = id /\ target' = target /\ outcome' = outcome
        /\ Here(p)' = Here(p)
    BY <1>1, GotoEffect
  <1>3. Files' BY <1>1, <1>2, AtWork, FilesFrame
  <1>4. seen[p] \in pend[Here(p)] BY <1>1 DEF Forwards
  <1>5. RecoveryProgress(p)'
    BY <1>1, <1>2, <1>4, AtWork DEF RecoveryProgress, Discards
  <1>6. DeployProgress(p)' BY <1>1, <1>2, AtWork DEF DeployProgress, Control
  <1> QED BY <1>3, <1>5, <1>6

\* Finishing a committed deployment changes nothing logically.
LEMMA RecForwardInv ==
  ASSUME TypeOK, IndInv, NEW p \in Procs, RecForward(p)
  PROVE  /\ Files' /\ RecoveryProgress(p)' /\ DeployProgress(p)'
         /\ \A x \in Roots : Logical(x)' = Logical(x)
  <1> DEFINE r == Here(p)
             s == seen[p]
  <1>1. /\ at[p] = "forward" /\ s \in gens[r] /\ Goto(p, "fsync")
        /\ cur' = [cur EXCEPT ![r] = s] /\ pend' = [pend EXCEPT ![r] = pend[r] \ {s}]
        /\ UNCHANGED <<gens, gdisk, carries, seen, gone>>
    BY DEF RecForward, SetDir
  <1>2. /\ at'[p] = "fsync" /\ phase' = phase /\ left' = left /\ over' = over
        /\ roots' = roots /\ id' = id /\ target' = target /\ outcome' = outcome
        /\ Here(p)' = r
    BY <1>1, GotoEffect
  <1>3. /\ s = (IF r = Public THEN cur[Secrets] ELSE NoId) /\ s \in pend[r]
        /\ pend[r] \ {s} = {}
    BY <1>1, AtWork DEF RecoveryProgress, Discards
  <1>4. r = Public /\ s = cur[Secrets] /\ s \in Ids
    BY <1>3, AtWork, Constants DEF TypeOK
  <1>5. /\ cur'[Public] = s /\ pend'[Public] = {} /\ cur'[Secrets] = cur[Secrets]
        /\ pend'[Secrets] = pend[Secrets]
    BY <1>1, <1>3, <1>4, Constants DEF TypeOK
  <1>6. Installed(Secrets)' = Installed(Secrets) BY <1>1, <1>5 DEF Installed
  <1>7. Installed(Public)' = carries[Public][s]
    BY <1>1, <1>4, <1>5, IdsAssumption DEF Installed
  <1>8. Logical(Public)' = carries[Public][s] BY <1>5, <1>7 DEF Logical
  <1>9. Logical(Public) = carries[Public][s] BY <1>3, <1>4 DEF Logical
  <1>10. Logical(Secrets)' = Logical(Secrets) BY <1>6, Constants DEF Logical
  <1>11. Installed(Public) \subseteq Installed(Public)'
    BY <1>3, <1>4, <1>7, AtWork DEF Files, Forwardable
  <1>12. Files'
    <2>1. NoDangling' BY <1>1, <1>4, <1>5, Constants, AtWork DEF Files, NoDangling
    <2>2. Pointers'
      <3>1. Public \in target[s] BY <1>3, <1>4, Constants, AtWork DEF Files, Pointers
      <3> QED BY <1>2, <1>5, <3>1, Constants, AtWork DEF Files, Pointers
    <2>3. Contents' BY <1>1, <1>2, AtWork DEF Files, Contents
    <2>4. LogicalAtomicity'
      BY <1>2, <1>8, <1>9, <1>10, AtWork DEF Files, LogicalAtomicity
    <2>5. Forwardable' BY <1>5 DEF Forwardable
    <2>6. Outcomes' BY <1>2, AtWork DEF Files, Outcomes
    <2>7. AckedInstalled'
      <3>1. \A j \in Ids : target[j] \subseteq Roots BY DEF TypeOK
      <3>2. \A x \in Roots : Installed(x) \subseteq Installed(x)'
        BY <1>6, <1>11, Constants
      <3> QED BY <1>2, <3>1, <3>2, AtWork DEF Files, AckedInstalled
    <2> QED BY <2>1, <2>2, <2>3, <2>4, <2>5, <2>6, <2>7 DEF Files
  <1>13. RecoveryProgress(p)'
    BY <1>1, <1>2, <1>3, <1>4, <1>5, AtWork, Constants DEF RecoveryProgress
  <1>14. DeployProgress(p)' BY <1>1, <1>2, AtWork DEF DeployProgress, Control
  <1> QED BY <1>8, <1>9, <1>10, <1>12, <1>13, <1>14, Constants

\* Staging writes a generation that nothing names yet.
LEMMA StageInv ==
  ASSUME TypeOK, IndInv, NEW p \in Procs, Stage(p)
  PROVE  /\ Files' /\ RecoveryProgress(p)' /\ DeployProgress(p)'
         /\ \A x \in Roots : Logical(x)' = Logical(x)
  <1> DEFINE r == Here(p)
             new == Installed(r) \cup {id[p]}
  <1>1. /\ at[p] = "stage" /\ Goto(p, "publish") /\ UNCHANGED <<cur, pend, gens>>
        /\ carries' = [carries EXCEPT ![r] = [carries[r] EXCEPT ![id[p]] = new]]
    BY DEF Stage
  <1>2. /\ at'[p] = "publish" /\ phase' = phase /\ left' = left /\ over' = over
        /\ roots' = roots /\ id' = id /\ target' = target /\ outcome' = outcome
        /\ Here(p)' = r
    BY <1>1, GotoEffect
  <1>3. /\ phase[p] = "prepare" /\ id[p] \in Ids /\ r \in left[p]
        /\ left[p] \subseteq roots[p] /\ target[id[p]] = roots[p]
        /\ \A x \in Roots : cur[x] # id[p]
        /\ \A x \in over[p] : pend[x] \subseteq {id[p]}
    BY <1>1, AtWork DEF Control, DeployProgress
  <1>4. /\ carries'[r][id[p]] = new
        /\ \A x \in Roots, g \in Ids : ~(x = r /\ g = id[p]) => carries'[x][g] = carries[x][g]
    BY <1>1, <1>3, AtWork DEF TypeOK
  <1>5. \A x \in Roots : cur[x] \in Ids \cup {NoId} BY DEF TypeOK
  <1>6. \A x \in Roots : Installed(x)' = Installed(x)
    BY <1>1, <1>3, <1>4, <1>5 DEF Installed
  <1>7. cur[Secrets] \notin pend[Public]
    BY <1>1, <1>3, AtWork, Constants
  <1>8. \A x \in Roots : Logical(x)' = Logical(x)
    BY <1>1, <1>6, <1>7 DEF Logical
  <1>9. Files'
    <2>1. NoDangling' BY <1>1, AtWork DEF Files, NoDangling
    <2>2. Pointers' BY <1>1, <1>2, AtWork DEF Files, Pointers
    <2>3. Contents'
      <3>1. \A i \in new : r \in target[i]
        <4>1. \A i \in Installed(r) : r \in target[i]
          BY <1>5, AtWork DEF Files, Contents, Installed
        <4> QED BY <1>3, <4>1
      <3> QED BY <1>2, <1>4, <3>1, AtWork DEF Files, Contents
    <2>4. LogicalAtomicity' BY <1>2, <1>8, Constants, AtWork DEF Files, LogicalAtomicity
    <2>5. Forwardable' BY <1>1, <1>7 DEF Forwardable
    <2>6. Outcomes' BY <1>2, AtWork DEF Files, Outcomes
    <2>7. AckedInstalled'
      <3>1. \A j \in Ids : target[j] \subseteq Roots BY DEF TypeOK
      <3> QED BY <1>2, <1>6, <3>1, AtWork DEF Files, AckedInstalled
    <2> QED BY <2>1, <2>2, <2>3, <2>4, <2>5, <2>6, <2>7 DEF Files
  <1>10. RecoveryProgress(p)' BY <1>2, <1>3 DEF RecoveryProgress
  <1>11. DeployProgress(p)'
    <2>1. Staged(p, r)' BY <1>2, <1>4, <1>6, AtWork DEF Staged
    <2>2. \A x \in roots[p] \ left[p] : Prepared(p, x)'
      <3>1. \A x \in roots[p] \ left[p] : Prepared(p, x) /\ x # r /\ x \in Roots
        BY <1>3, AtWork DEF DeployProgress
      <3> QED BY <1>1, <1>2, <1>3, <1>4, <1>6, <3>1 DEF Prepared, Staged
    <2> QED BY <1>1, <1>2, <1>3, <2>1, <2>2 DEF DeployProgress
  <1> QED BY <1>8, <1>9, <1>10, <1>11

\* Adding a generation to the store, or a pointer that does not commit.
LEMMA GrowFiles ==
  ASSUME TypeOK, Files, UNCHANGED <<cur, carries, target, outcome>>,
         \A x \in Roots : gens[x] \subseteq gens'[x],
         cur[Secrets] \notin pend[Public], cur[Secrets] \notin pend'[Public],
         \A x \in Roots : \A i \in pend'[x] : x \in target[i]
  PROVE  Files' /\ \A x \in Roots : Logical(x)' = Logical(x)
  <1>1. \A x \in Roots : Installed(x)' = Installed(x) /\ Logical(x)' = Logical(x)
    BY DEF Installed, Logical
  <1>2. NoDangling' BY DEF Files, NoDangling
  <1>3. Pointers' /\ Contents' /\ Outcomes' BY DEF Files, Pointers, Contents, Outcomes
  <1>4. LogicalAtomicity' BY <1>1, Constants DEF Files, LogicalAtomicity
  <1>5. Forwardable' BY DEF Forwardable
  <1>6. AckedInstalled'
    <2>1. \A j \in Ids : target[j] \subseteq Roots BY DEF TypeOK
    <2> QED BY <1>1, <2>1 DEF Files, AckedInstalled
  <1> QED BY <1>1, <1>2, <1>3, <1>4, <1>5, <1>6 DEF Files

\* Publishing, syncing and pointing at a generation do not commit it.
LEMMA PrepareInv ==
  ASSUME TypeOK, IndInv, NEW p \in Procs, Publish(p) \/ Settle(p) \/ Point(p)
  PROVE  /\ Files' /\ RecoveryProgress(p)' /\ DeployProgress(p)'
         /\ \A x \in Roots : Logical(x)' = Logical(x)
  <1> DEFINE r == Here(p)
  <1>0. at[p] \in {"publish", "settle", "point"} BY DEF Publish, Settle, Point
  <1>1. /\ phase[p] = "prepare" /\ id[p] \in Ids /\ r \in left[p]
        /\ left[p] \subseteq roots[p] /\ target[id[p]] = roots[p]
        /\ \A x \in Roots : cur[x] # id[p]
        /\ \A x \in over[p] : pend[x] \subseteq {id[p]}
        /\ Staged(p, r)
        /\ \A x \in roots[p] \ left[p] : Prepared(p, x) /\ x # r /\ x \in Roots
        /\ r \in Roots
    BY <1>0, AtWork DEF Control, DeployProgress
  <1>2. cur[Secrets] \notin pend[Public] BY <1>0, <1>1, AtWork, Constants
  <1>3. CASE Publish(p)
    <2>1. /\ at[p] = "publish" /\ Goto(p, "settle") /\ UNCHANGED <<cur, pend, carries>>
          /\ gens' = [gens EXCEPT ![r] = gens[r] \cup {id[p]}]
      BY <1>3 DEF Publish, SetGens
    <2>2. /\ at'[p] = "settle" /\ phase' = phase /\ left' = left /\ over' = over
          /\ roots' = roots /\ id' = id /\ target' = target /\ outcome' = outcome
          /\ Here(p)' = r
      BY <2>1, GotoEffect
    <2>3. /\ gens'[r] = gens[r] \cup {id[p]}
          /\ \A x \in Roots : x # r => gens'[x] = gens[x]
      BY <1>1, <2>1 DEF TypeOK
    <2>4. Files' /\ \A x \in Roots : Logical(x)' = Logical(x)
      BY <1>2, <2>1, <2>2, <2>3, AtWork, GrowFiles DEF Files, Pointers
    <2>5. Staged(p, r)' /\ \A x \in roots[p] \ left[p] : Prepared(p, x)'
      BY <1>1, <2>1, <2>2, <2>3 DEF Prepared, Staged, Installed
    <2> QED BY <1>1, <2>1, <2>2, <2>3, <2>4, <2>5 DEF RecoveryProgress, DeployProgress
  <1>4. CASE Settle(p)
    <2>1. at[p] = "settle" /\ Goto(p, "point") /\ UNCHANGED <<cur, pend, gens, carries>>
      BY <1>4 DEF Settle
    <2>2. /\ at'[p] = "point" /\ phase' = phase /\ left' = left /\ over' = over
          /\ roots' = roots /\ id' = id /\ target' = target /\ outcome' = outcome
          /\ Here(p)' = r
      BY <2>1, GotoEffect
    <2>3. Files' /\ \A x \in Roots : Logical(x)' = Logical(x)
      BY <1>2, <2>1, <2>2, AtWork, GrowFiles DEF Files, Pointers
    <2>4. Staged(p, r)' /\ \A x \in roots[p] \ left[p] : Prepared(p, x)'
      BY <1>1, <2>1, <2>2 DEF Prepared, Staged, Installed
    <2>5. id[p] \in gens[r] BY <2>1, <1>1, AtWork DEF DeployProgress
    <2> QED BY <1>1, <2>1, <2>2, <2>3, <2>4, <2>5 DEF RecoveryProgress, DeployProgress
  <1>5. CASE Point(p)
    <2>1. /\ at[p] = "point" /\ Goto(p, "psync") /\ UNCHANGED <<gens, carries>>
          /\ cur' = [cur EXCEPT ![r] = cur[r]]
          /\ pend' = [pend EXCEPT ![r] = pend[r] \cup {id[p]}]
      BY <1>5 DEF Point, SetDir
    <2>2. /\ at'[p] = "psync" /\ phase' = phase /\ left' = left /\ over' = over
          /\ roots' = roots /\ id' = id /\ target' = target /\ outcome' = outcome
          /\ Here(p)' = r
      BY <2>1, GotoEffect
    <2>3. /\ pend'[r] = pend[r] \cup {id[p]} /\ cur' = cur
          /\ \A x \in Roots : x # r => pend'[x] = pend[x]
      BY <1>1, <2>1 DEF TypeOK
    <2>4. cur[Secrets] \notin pend'[Public] BY <1>1, <1>2, <2>3, Constants
    <2>5. \A x \in Roots : \A i \in pend'[x] : x \in target[i]
      BY <1>1, <2>3, AtWork DEF Files, Pointers
    <2>6. Files' /\ \A x \in Roots : Logical(x)' = Logical(x)
      BY <1>2, <2>1, <2>2, <2>3, <2>4, <2>5, AtWork, GrowFiles
    <2>7. Staged(p, r)' /\ \A x \in roots[p] \ left[p] : Prepared(p, x)'
      BY <1>1, <2>1, <2>2, <2>3 DEF Prepared, Staged, Installed
    <2>8. id[p] \in gens[r] BY <2>1, <1>1, AtWork DEF DeployProgress
    <2>9. \A x \in over[p] : pend'[x] \subseteq {id[p]} BY <1>1, <2>3, AtWork
    <2> QED BY <1>1, <2>1, <2>2, <2>3, <2>6, <2>7, <2>8, <2>9
            DEF RecoveryProgress, DeployProgress
  <1> QED BY <1>3, <1>4, <1>5

\* The switch of the secret root commits the deployment in every root it is
\* for; the switch of the public root then changes nothing logically.
LEMMA SwitchInv ==
  ASSUME TypeOK, IndInv, NEW p \in Procs, Switch(p)
  PROVE  /\ Files' /\ RecoveryProgress(p)' /\ DeployProgress(p)'
         /\ \/ \A x \in Roots : Logical(x)' = Logical(x)
            \/ \A x \in Roots : Logical(x)' = IF x \in target[id[p]]
                                              THEN Logical(x) \cup {id[p]} ELSE Logical(x)
  <1> DEFINE r == Here(p)
             i == id[p]
             commits == \A x \in Roots : Logical(x)' = IF x \in target[i]
                                                      THEN Logical(x) \cup {i} ELSE Logical(x)
             stays == \A x \in Roots : Logical(x)' = Logical(x)
  <1>1. /\ at[p] = "rename" /\ Goto(p, "ssync") /\ UNCHANGED <<gens, carries>>
        /\ cur' = [cur EXCEPT ![r] = i]
        /\ pend' = [pend EXCEPT ![r] = pend[r] \ {i}]
    BY DEF Switch, SetDir
  <1>2. /\ at'[p] = "ssync" /\ phase' = phase /\ left' = left /\ over' = over
        /\ roots' = roots /\ id' = id /\ target' = target /\ outcome' = outcome
        /\ Here(p)' = r
    BY <1>1, GotoEffect
  <1>3. /\ phase[p] = "switch" /\ i \in Ids /\ r \in left[p] /\ r \in Roots
        /\ left[p] \subseteq roots[p] /\ target[i] = roots[p] /\ i # NoId
        /\ \A x \in over[p] : pend[x] \subseteq {i}
        /\ \A x \in left[p] : Prepared(p, x)
        /\ \A x \in roots[p] \ left[p] : Switched(p, x)
        /\ Public \in over[p]
    BY <1>1, AtWork, IdsAssumption DEF Control, DeployProgress
  <1>4. /\ cur'[r] = i /\ pend'[r] = pend[r] \ {i}
        /\ \A x \in Roots : x # r => cur'[x] = cur[x] /\ pend'[x] = pend[x]
    BY <1>1, <1>3 DEF TypeOK
  <1>5. /\ carries[r][i] = Installed(r) \cup {i} /\ i \in gens[r] /\ i \in pend[r]
    BY <1>3 DEF Prepared, Staged
  <1>6. \A x \in Roots : Installed(x)' = IF x = r THEN Installed(x) \cup {i}
                                                 ELSE Installed(x)
    <2> SUFFICES ASSUME NEW x \in Roots
                 PROVE  Installed(x)' = IF x = r THEN Installed(x) \cup {i}
                                        ELSE Installed(x)
      OBVIOUS
    <2>1. CASE x = r
      <3>1. Installed(x)' = carries[x][i] BY <1>1, <1>3, <1>4, <2>1 DEF Installed
      <3> QED BY <1>5, <2>1, <3>1
    <2>2. CASE x # r BY <1>1, <1>4, <2>2 DEF Installed
    <2> QED BY <2>1, <2>2
  <1>7. pend[Public] \subseteq {i} BY <1>3
  <1>8. /\ r = Public => Secrets \notin left[p]
    BY <1>3, Constants DEF Here
  <1>9. ASSUME r = Public PROVE stays \/ commits
    <2>1. pend'[Public] = {} BY <1>4, <1>7, <1>9
    <2>2. Logical(Public)' = Installed(Public) \cup {i} BY <1>6, <1>9, <2>1, Constants DEF Logical
    <2>3. Logical(Secrets)' = Logical(Secrets) BY <1>6, <1>9, Constants DEF Logical
    <2>4. CASE Secrets \in roots[p]
      <3>1. cur[Secrets] = i BY <1>3, <1>8, <1>9, <2>4 DEF Switched
      <3>2. Logical(Public) = Installed(Public) \cup {i}
        BY <1>5, <1>9, <3>1 DEF Logical
      <3> QED BY <2>2, <2>3, <3>2, Constants
    <2>5. CASE Secrets \notin roots[p]
      <3>1. cur[Secrets] # i
        BY <1>3, <2>5, Constants, AtWork DEF Files, Pointers
      <3>2. Logical(Public) = Installed(Public) BY <1>7, <3>1 DEF Logical
      <3>3. Public \in target[i] /\ Secrets \notin target[i] BY <1>3, <1>9, <2>5
      <3> QED BY <2>2, <2>3, <3>2, <3>3, Constants
    <2> QED BY <2>4, <2>5
  <1>10. ASSUME r = Secrets PROVE stays \/ commits
    <2>1. Logical(Secrets)' = Logical(Secrets) \cup {i}
      BY <1>6, <1>10, Constants DEF Logical
    <2>2. Secrets \in target[i] BY <1>3, <1>10
    <2>3. cur'[Secrets] = i /\ pend'[Public] = pend[Public] BY <1>4, <1>10, Constants
    <2>4. CASE Public \in roots[p]
      <3>1. CASE Public \in left[p]
        <4>1. i \in pend[Public] /\ carries[Public][i] = Installed(Public) \cup {i}
          BY <1>3, <3>1 DEF Prepared, Staged
        <4>2. Logical(Public)' = Installed(Public) \cup {i}
          BY <1>1, <2>3, <4>1 DEF Logical
        <4>3. Logical(Public) = Installed(Public) \/ Logical(Public) = Installed(Public) \cup {i}
          BY <1>7, <4>1 DEF Logical
        <4>4. Logical(Public)' = Logical(Public) \cup {i} BY <4>2, <4>3
        <4> QED BY <1>3, <2>1, <2>2, <2>4, <4>4, Constants
      <3>2. CASE Public \notin left[p]
        <4>1. cur[Public] = i /\ i \in carries[Public][i]
          BY <1>3, <2>4, <3>2 DEF Switched
        <4>2. i \in Installed(Public) BY <1>3, <4>1 DEF Installed
        <4>3. Installed(Public)' = Installed(Public) BY <1>6, <1>10, Constants
        <4>4. Logical(Public)' = Installed(Public) \/ Logical(Public)' = carries[Public][i]
          BY <1>1, <2>3, <4>3 DEF Logical
        <4>5. Installed(Public) = carries[Public][i] BY <1>3, <4>1 DEF Installed
        <4>6. Logical(Public) = carries[Public][i] BY <1>7, <4>5 DEF Logical
        <4> QED BY <1>3, <2>1, <2>2, <4>1, <4>4, <4>5, <4>6, Constants
      <3> QED BY <3>1, <3>2
    <2>5. CASE Public \notin roots[p]
      <3>1. i \notin pend[Public] BY <1>3, <2>5, Constants, AtWork DEF Files, Pointers
      <3>2. Installed(Public)' = Installed(Public) BY <1>6, <1>10, Constants
      <3>3. pend[Public] = {} BY <1>7, <3>1
      <3>4. Logical(Public)' = Logical(Public) BY <2>3, <3>2, <3>3 DEF Logical
      <3>5. Public \notin target[i] BY <1>3, <2>5
      <3> QED BY <2>1, <2>2, <3>4, <3>5, Constants
    <2> QED BY <2>4, <2>5
  <1>11. stays \/ commits
    BY <1>3, <1>9, <1>10, Constants
  <1>12. Files'
    <2>1. NoDangling' BY <1>1, <1>4, <1>5, AtWork DEF Files, NoDangling
    <2>2. Pointers' BY <1>2, <1>3, <1>4, AtWork DEF Files, Pointers
    <2>3. Contents' BY <1>1, <1>2, AtWork DEF Files, Contents
    <2>4. LogicalAtomicity'
      BY <1>2, <1>3, <1>11, Constants, AtWork DEF Files, LogicalAtomicity
    <2>5. Forwardable'
      <3>1. CASE r = Public
        BY <1>4, <1>7, <3>1 DEF Forwardable
      <3>2. CASE r = Secrets /\ Public \in left[p]
        <4>1. Prepared(p, Public) BY <1>3, <3>2
        <4>2. Installed(Public)' = Installed(Public) BY <1>6, <3>2, Constants
        <4> QED BY <1>1, <1>4, <3>2, <4>1, <4>2, Constants
                DEF Forwardable, Prepared, Staged
      <3>3. CASE r = Secrets /\ Public \notin left[p]
        <4>1. CASE Public \in roots[p]
          <5>1. cur[Public] = i BY <1>3, <3>3, <4>1 DEF Switched
          <5>2. i \in gens[Public]
            BY <1>3, <5>1, Constants, AtWork DEF Files, NoDangling
          <5>3. Installed(Public)' = carries[Public][i]
            BY <1>3, <1>6, <3>3, <5>1, Constants DEF Installed
          <5> QED BY <1>1, <1>4, <3>3, <5>2, <5>3, Constants DEF Forwardable
        <4>2. CASE Public \notin roots[p]
          <5>1. i \notin pend[Public] BY <1>3, <4>2, Constants, AtWork DEF Files, Pointers
          <5> QED BY <1>4, <3>3, <5>1, Constants DEF Forwardable
        <4> QED BY <4>1, <4>2
      <3> QED BY <1>3, <3>1, <3>2, <3>3, Constants
    <2>6. Outcomes' BY <1>2, AtWork DEF Files, Outcomes
    <2>7. AckedInstalled'
      <3>1. \A j \in Ids : target[j] \subseteq Roots BY DEF TypeOK
      <3>2. \A x \in Roots : Installed(x) \subseteq Installed(x)'
        BY <1>3, <1>6
      <3> QED BY <1>2, <3>1, <3>2, AtWork DEF Files, AckedInstalled
    <2> QED BY <2>1, <2>2, <2>3, <2>4, <2>5, <2>6, <2>7 DEF Files
  <1>13. RecoveryProgress(p)' BY <1>2, <1>3 DEF RecoveryProgress
  <1>14. DeployProgress(p)'
    <2>1. Switched(p, r)' BY <1>1, <1>2, <1>4, <1>5 DEF Switched
    <2>2. \A x \in roots[p] \ left[p] : Switched(p, x)'
      <3>1. \A x \in roots[p] \ left[p] : x # r /\ x \in Roots BY <1>3, AtWork
      <3> QED BY <1>1, <1>2, <1>3, <1>4, <3>1 DEF Switched
    <2>3. \A x \in left[p] : x # r => Prepared(p, x)'
      <3>1. \A x \in left[p] : x \in Roots BY AtWork
      <3> QED BY <1>1, <1>2, <1>3, <1>4, <1>6, <3>1 DEF Prepared, Staged
    <2>4. \A x \in over[p] : pend'[x] \subseteq {i} BY <1>3, <1>4, AtWork
    <2> QED BY <1>2, <1>3, <2>1, <2>2, <2>3, <2>4 DEF DeployProgress
  <1> QED BY <1>11, <1>12, <1>13, <1>14

\* Pruning removes generations nothing names.
LEMMA PruneInv ==
  ASSUME TypeOK, IndInv, NEW p \in Procs, PruneOne(p)
  PROVE  /\ Files' /\ RecoveryProgress(p)' /\ DeployProgress(p)'
  <1> DEFINE r == Here(p)
  <1>1. PICK g \in gens[r] \ Keep(r, id[p]) : SetGens(r, gens[r] \ {g})
    BY DEF PruneOne
  <1>2. /\ at[p] = "prune" /\ Goto(p, "prune") /\ UNCHANGED <<cur, pend, carries>>
        /\ gens' = [gens EXCEPT ![r] = gens[r] \ {g}] /\ g # id[p]
    BY <1>1 DEF PruneOne, SetGens, Keep
  <1>3. /\ at'[p] = "prune" /\ phase' = phase /\ left' = left /\ over' = over
        /\ roots' = roots /\ id' = id /\ target' = target /\ outcome' = outcome
        /\ Here(p)' = r
    BY <1>2, GotoEffect
  <1>4. /\ phase[p] = "prune" /\ r \in left[p] /\ left[p] \subseteq roots[p]
        /\ \A x \in roots[p] : Switched(p, x)
        /\ \A x \in over[p] : pend[x] \subseteq {id[p]}
    BY <1>2, AtWork DEF Control, DeployProgress
  <1>5. cur[r] # g BY <1>2, <1>4 DEF Switched
  <1>6. r = Public /\ cur[Secrets] \in pend[Public] => g # cur[Secrets]
    BY <1>2, <1>4, AtWork
  <1>7. Files' BY <1>2, <1>3, <1>5, <1>6, AtWork, RemoveFiles
  <1>8. \A x \in roots[p] : Switched(p, x)' BY <1>2, <1>3, <1>4 DEF Switched
  <1> QED BY <1>2, <1>3, <1>4, <1>7, <1>8 DEF RecoveryProgress, DeployProgress

-----------------------------------------------------------------------------
\* A process whose state a step leaves alone keeps its progress if the step
\* leaves the files alone too.
LEMMA ProgressFrame ==
  ASSUME NEW q \in Procs, RecoveryProgress(q), DeployProgress(q), UNCHANGED fsVars,
         phase'[q] = phase[q], at'[q] = at[q], left'[q] = left[q],
         over'[q] = over[q], roots'[q] = roots[q], id'[q] = id[q],
         seen'[q] = seen[q], gone'[q] = gone[q]
  PROVE  RecoveryProgress(q)' /\ DeployProgress(q)'
  <1>1. Here(q)' = Here(q) BY DEF Here
  <1>2. UNCHANGED <<cur, pend, gens, carries>> BY DEF fsVars
  <1>3. \A x : /\ Staged(q, x)' = Staged(q, x) /\ Prepared(q, x)' = Prepared(q, x)
               /\ Switched(q, x)' = Switched(q, x)
    BY <1>2 DEF Staged, Prepared, Switched, Installed
  <1>4. RecoveryProgress(q)' BY <1>1, <1>2 DEF RecoveryProgress, Discards
  <1>5. Staged(q, Here(q))' = Staged(q, Here(q)) BY <1>1, <1>2 DEF Staged, Installed
  <1>6. DeployProgress(q)' BY <1>1, <1>2, <1>3, <1>5 DEF DeployProgress
  <1> QED BY <1>4, <1>6

\* Every step but a power loss keeps the inductive invariant.
LEMMA IndInvStep ==
  ASSUME "power" \notin Faults, TypeOK, IndInv, [Next]_vars
  PROVE  IndInv'
  <1>1. AllControl' /\ AllLocking' BY ControlStep, LockingStep DEF IndInv
  <1>2. TypeOK' BY TypeStep DEF IndInv
  <1>3. ASSUME NEW p \in Procs, Active(p), RecoveryProgress(p)', DeployProgress(p)',
               \A q \in Procs : q # p => phase'[q] = phase[q]
        PROVE  AllProgress'
    <2> SUFFICES ASSUME NEW q \in Procs PROVE RecoveryProgress(q)' /\ DeployProgress(q)'
      BY DEF AllProgress
    <2>1. CASE q = p BY <1>3, <2>1
    <2>2. CASE q # p
      <3>1. ~ Active(q) BY <1>3, <2>2, Exclusive DEF IndInv
      <3>2. Control(q)' /\ ~ Active(q)' BY <1>1, <1>3, <2>2, <3>1 DEF AllControl, Active
      <3> QED BY <3>2 DEF Control, Active, RecoveryProgress, DeployProgress
    <2> QED BY <2>1, <2>2
  <1>4. ASSUME NEW p \in Procs, Goto(p, at'[p]) PROVE \A q \in Procs : phase'[q] = phase[q]
    BY <1>4 DEF Goto
  <1>5. ASSUME NEW p \in Procs, Advance(p)
        PROVE  \A q \in Procs : q # p => phase'[q] = phase[q]
    <2>1. \E ph, rs : Enter(p, ph, rs) BY <1>5 DEF Advance, Return
    <2> QED BY <2>1, EnterEffect
  <1>6. ASSUME NEW p \in Procs, Active(p), Advance(p), RootDone(p),
               UNCHANGED <<cur, pend, gens, carries>>
        PROVE  AllProgress' /\ Files'
    BY <1>1, <1>3, <1>5, <1>6, AdvanceProgress, AdvanceFiles
  <1>7. ASSUME NEW p \in Procs, at[p] \notin {"none", "take"} PROVE Active(p)
    BY <1>7, AtWork DEF Control, Active
  <1>8. ASSUME NEW p \in Procs, NEW o \in Operations, Begin(p, o) PROVE AllProgress' /\ Files'
    <2>1. Enter(p, "lock", o[1]) /\ UNCHANGED <<fsVars, id, ghostVars>> BY <1>8 DEF Begin
    <2>2. Files' BY <2>1, FilesFrame DEF IndInv, fsVars, ghostVars
    <2>3. ASSUME NEW q \in Procs PROVE RecoveryProgress(q)' /\ DeployProgress(q)'
      <3>1. CASE q = p
        BY <2>1, <3>1, EnterEffect, FirstSteps DEF RecoveryProgress, DeployProgress
      <3>2. CASE q # p
        <4>1. /\ phase'[q] = phase[q] /\ at'[q] = at[q] /\ left'[q] = left[q]
              /\ over'[q] = over[q] /\ roots'[q] = roots[q] /\ id'[q] = id[q]
              /\ seen'[q] = seen[q] /\ gone'[q] = gone[q]
          BY <1>8, <3>2 DEF Begin, Enter, TypeOK
        <4> QED BY <2>1, <4>1, AtWork, ProgressFrame
      <3> QED BY <3>1, <3>2
    <2> QED BY <2>2, <2>3 DEF AllProgress
  <1>9. ASSUME NEW p \in Procs, Lock(p) PROVE AllProgress' /\ Files'
    <2>1. \E ph \in {"lock", "recover"}, rs \in SUBSET over[p] :
             Enter(p, ph, rs) /\ (ph = "recover" => rs = over[p])
      <3>1. left[p] \ {Here(p)} \in SUBSET over[p] BY AtWork
      <3> QED BY <1>9, <3>1 DEF Lock
    <2>2. UNCHANGED <<fsVars, over, roots, id, ghostVars>> BY <1>9 DEF Lock
    <2>3. Files' BY <2>2, FilesFrame DEF IndInv, fsVars, ghostVars
    <2>4. ASSUME NEW q \in Procs PROVE RecoveryProgress(q)' /\ DeployProgress(q)'
      <3>1. CASE q = p
        BY <2>1, <2>2, <3>1, EnterEffect, FirstSteps DEF RecoveryProgress, DeployProgress
      <3>2. CASE q # p
        <4>1. /\ phase'[q] = phase[q] /\ at'[q] = at[q] /\ left'[q] = left[q]
              /\ seen'[q] = seen[q] /\ gone'[q] = gone[q]
          BY <2>1, <3>2 DEF Enter, TypeOK
        <4> QED BY <2>2, <4>1, AtWork, ProgressFrame
      <3> QED BY <3>1, <3>2
    <2> QED BY <2>3, <2>4 DEF AllProgress
  <1>10. ASSUME NEW p \in Procs, RecRead(p) PROVE AllProgress' /\ Files'
    <2>1. at[p] = "read" /\ Active(p) BY <1>7, <1>10 DEF RecRead
    <2>2. CASE Advance(p) /\ pend[Here(p)] = {}
      <3>1. RootDone(p) BY <2>1, <2>2, AtWork DEF RootDone, Control
      <3> QED BY <1>6, <1>10, <2>1, <2>2, <3>1 DEF RecRead, fsVars
    <2>3. CASE pend[Here(p)] # {}
      <3>1. \E step : Goto(p, step) BY <1>10, <2>3 DEF RecRead
      <3>2. phase' = phase BY <3>1 DEF Goto
      <3>3. CASE Advance(p)
        <4>1. at'[p] # "read" /\ at'[p] \in {"discard", "forward"}
          BY <1>10, <2>3, GotoEffect DEF RecRead
        <4>2. \E ph, rs : Enter(p, ph, rs) /\ ph = phase'[p]
          BY <3>3, EnterEffect DEF Advance, Return
        <4>3. at'[p] = FirstStep(phase[p]) BY <3>2, <4>2, EnterEffect
        <4>4. phase[p] \in {"recover", "cleanup"} BY <2>1, AtWork DEF Control
        <4> QED BY <4>1, <4>3, <4>4, FirstSteps
      <3>4. CASE ~ Advance(p) BY <1>3, <1>10, <2>1, <3>2, <3>4, RecReadInv
      <3> QED BY <3>3, <3>4
    <2> QED BY <1>10, <2>2, <2>3 DEF RecRead
  <1>11. ASSUME NEW p \in Procs, RecSync(p) PROVE AllProgress' /\ Files'
    <2>1. at[p] = "rsync" /\ Active(p) /\ UNCHANGED <<cur, pend, gens, carries>>
      BY <1>7, <1>11 DEF RecSync
    <2>2. CASE Advance(p) /\ Forwards(Here(p), seen[p]) = {}
      <3>1. pend[Here(p)] = {} BY <2>1, <2>2, AtWork DEF RecoveryProgress, Discards, Forwards
      <3>2. RootDone(p) BY <2>1, <3>1, AtWork DEF RootDone, Control
      <3> QED BY <1>6, <2>1, <2>2, <3>2
    <2>3. CASE Forwards(Here(p), seen[p]) # {}
      <3>1. Goto(p, "forward") BY <1>11, <2>3 DEF RecSync
      <3>2. phase' = phase BY <3>1 DEF Goto
      <3>3. CASE Advance(p)
        <4>1. at'[p] = "forward" BY <3>1, GotoEffect
        <4>2. \E ph, rs : Enter(p, ph, rs) /\ ph = phase'[p]
          BY <3>3, EnterEffect DEF Advance, Return
        <4>3. at'[p] = FirstStep(phase[p]) BY <3>2, <4>2, EnterEffect
        <4>4. phase[p] \in {"recover", "cleanup"} BY <2>1, AtWork DEF Control
        <4> QED BY <4>1, <4>3, <4>4, FirstSteps
      <3>4. CASE ~ Advance(p) BY <1>3, <1>11, <2>1, <3>2, <3>4, RecSyncInv
      <3> QED BY <3>3, <3>4
    <2> QED BY <1>11, <2>2, <2>3 DEF RecSync
  <1>12. ASSUME NEW p \in Procs, RecForwardSync(p) \/ PointSync(p) \/ SwitchSync(p) \/ PruneDone(p)
         PROVE AllProgress' /\ Files'
    <2>1. /\ at[p] \in {"fsync", "psync", "ssync", "prune"} /\ Advance(p)
          /\ UNCHANGED <<cur, pend, gens, carries>>
      BY <1>12 DEF RecForwardSync, PointSync, SwitchSync, PruneDone
    <2>2. RootDone(p)
      BY <2>1, AtWork DEF RootDone, Control, RecoveryProgress, DeployProgress, Prepared
    <2> QED BY <1>6, <1>7, <2>1, <2>2
  <1>13. ASSUME NEW p \in Procs,
                \/ RecDiscard(p) \/ RecRemove(p) \/ RecForward(p) \/ Stage(p) \/ Publish(p)
                \/ Settle(p) \/ Point(p) \/ Switch(p) \/ PruneOne(p)
         PROVE AllProgress' /\ Files'
    <2>1. at[p] \notin {"none", "take"} /\ phase' = phase
      BY <1>13 DEF RecDiscard, RecRemove, RecForward, Stage, Publish, Settle, Point,
         Switch, PruneOne, Goto
    <2>2. RecoveryProgress(p)' /\ DeployProgress(p)' /\ Files'
      BY <1>13, RecDiscardInv, RecRemoveInv, RecForwardInv, StageInv, PrepareInv,
         SwitchInv, PruneInv
    <2> QED BY <1>3, <1>7, <2>1, <2>2
  <1>14. ASSUME NEW p \in Procs, Fail(p) PROVE AllProgress' /\ Files'
    <2>0. UNCHANGED fsVars BY <1>14 DEF Fail
    <2>1. CASE phase[p] \in {"lock", "recover"} /\ Return(p, "err")
      <3>1. Files' BY <2>0, <2>1, FilesReturn DEF IndInv, fsVars
      <3>2. ASSUME NEW q \in Procs PROVE RecoveryProgress(q)' /\ DeployProgress(q)'
        <4>1. Enter(p, "idle", {}) BY <2>1 DEF Return
        <4>2. CASE q = p
          BY <4>1, <4>2, EnterEffect, FirstSteps DEF RecoveryProgress, DeployProgress
        <4>3. CASE q # p
          <5>1. /\ phase'[q] = phase[q] /\ at'[q] = at[q] /\ left'[q] = left[q]
                /\ over'[q] = over[q] /\ roots'[q] = roots[q] /\ id'[q] = id[q]
                /\ seen'[q] = seen[q] /\ gone'[q] = gone[q]
            BY <2>1, <4>1, <4>3 DEF Return, Enter, TypeOK
          <5> QED BY <2>0, <5>1, AtWork, ProgressFrame
        <4> QED BY <4>2, <4>3
      <3> QED BY <3>1, <3>2 DEF AllProgress
    <2>2. CASE /\ phase[p] \in {"prepare", "switch", "prune"}
               /\ Enter(p, "cleanup", over[p])
               /\ UNCHANGED <<over, roots, id, lock, ghostVars>>
      <3>1. Files' BY <2>0, <2>2, FilesFrame DEF IndInv, fsVars, ghostVars
      <3>2. phase'[p] = "cleanup" /\ at'[p] = "read" BY <2>2, EnterEffect, FirstSteps
      <3>3. RecoveryProgress(p)' /\ DeployProgress(p)'
        BY <3>2 DEF RecoveryProgress, DeployProgress
      <3>4. Active(p) BY <2>2 DEF Active
      <3> QED BY <1>3, <2>2, <3>1, <3>3, <3>4, EnterEffect
    <2>3. CASE phase[p] = "cleanup" /\ Advance(p)
      <3>1. Active(p) /\ RootDone(p) BY <2>3 DEF Active, RootDone
      <3> QED BY <1>6, <2>0, <2>3, <3>1 DEF fsVars
    <2> QED BY <1>14, <2>1, <2>2, <2>3 DEF Fail
  <1>15. ASSUME NEW p \in Procs, Kill(p) PROVE AllProgress' /\ Files'
    <2>1. Enter(p, "idle", {}) /\ UNCHANGED <<fsVars, ghostVars>> BY <1>15 DEF Kill
    <2>2. Files' BY <2>1, FilesFrame DEF IndInv, fsVars, ghostVars
    <2>3. ASSUME NEW q \in Procs PROVE RecoveryProgress(q)' /\ DeployProgress(q)'
      <3>1. CASE q = p
        BY <2>1, <3>1, EnterEffect, FirstSteps DEF RecoveryProgress, DeployProgress
      <3>2. CASE q # p
        <4>1. /\ phase'[q] = phase[q] /\ at'[q] = at[q] /\ left'[q] = left[q]
              /\ over'[q] = over[q] /\ roots'[q] = roots[q] /\ id'[q] = id[q]
              /\ seen'[q] = seen[q] /\ gone'[q] = gone[q]
          BY <1>15, <2>1, <3>2 DEF Kill, Enter, TypeOK
        <4> QED BY <2>1, <4>1, AtWork, ProgressFrame
      <3> QED BY <3>1, <3>2
    <2> QED BY <2>2, <2>3 DEF AllProgress
  <1>16. ASSUME UNCHANGED vars PROVE AllProgress' /\ Files'
    <2>1. Files' BY <1>16, FilesFrame DEF IndInv, vars, fsVars, ghostVars
    <2>2. AllProgress'
      BY <1>16, AtWork, ProgressFrame DEF AllProgress, vars, procVars
    <2> QED BY <2>1, <2>2
  <1>17. ~ PowerLoss BY DEF PowerLoss
  <1>18. AllProgress' /\ Files'
    BY <1>8, <1>9, <1>10, <1>11, <1>12, <1>13, <1>14, <1>15, <1>16, <1>17 DEF Next, Step
  <1> QED BY <1>1, <1>18 DEF IndInv

\* The inductive invariant holds initially.
LEMMA IndInvInit == Init => TypeOK /\ IndInv
  <1> SUFFICES ASSUME Init PROVE TypeOK /\ IndInv OBVIOUS
  <1>1. [cur |-> NoId, pend |-> {}] \in DirState BY DEF DirState
  <1>2. "none" \in Steps /\ "idle" \in Phases BY DEF Steps, Phases
  <1>3. TypeOK BY <1>1, <1>2 DEF Init, TypeOK
  <1>4. AllControl /\ AllLocking
    BY DEF Init, AllControl, Control, AllLocking, Locking, Active
  <1>5. AllProgress BY DEF Init, AllProgress, RecoveryProgress, DeployProgress
  <1>6. \A r \in Roots : Installed(r) = {} /\ Logical(r) = {}
    BY Constants DEF Init, Installed, Logical
  <1>7. NoDangling /\ Pointers /\ Contents /\ Outcomes BY DEF Init, NoDangling, Pointers, Contents, Outcomes
  <1>8. LogicalAtomicity BY <1>6, Constants DEF LogicalAtomicity
  <1>9. Forwardable BY Constants DEF Init, Forwardable
  <1>10. AckedInstalled BY DEF Init, AckedInstalled
  <1> QED BY <1>3, <1>4, <1>5, <1>7, <1>8, <1>9, <1>10 DEF IndInv, Files

\* The invariant and the types hold together on a host that keeps its power.
LEMMA Invariant == ASSUME "power" \notin Faults PROVE Spec => [](TypeOK /\ IndInv)
  <1>1. TypeOK /\ IndInv /\ [Next]_vars => (TypeOK /\ IndInv)'
    BY IndInvStep, TypeStep DEF IndInv
  <1> QED BY <1>1, IndInvInit, PTL DEF Spec

\* Between any two steps of the deployers the locks, the progress each process
\* has made and the files it made it on agree: what deploy_together, recover and
\* prune rely on at every line, whoever is killed and whatever fails.
THEOREM DeployersKeepStep ==
  ASSUME "power" \notin Faults PROVE Spec => []IndInv
  <1> QED BY Invariant, PTL

\* `.current` never dangles, whichever process is killed and whatever fails.
THEOREM CurrentNeverDangles ==
  ASSUME "power" \notin Faults PROVE Spec => []NoDangling
  <1>1. IndInv => NoDangling BY DEF IndInv, Files
  <1> QED BY <1>1, Invariant, PTL

\* Once no public pointer is pending, every joint deployment is in both roots
\* or in neither, for any number of processes, kills, failures and retries
\* (the promise of deploy_together).
THEOREM JointDeploymentsAreAtomic ==
  ASSUME "power" \notin Faults PROVE Spec => []JointAtomicity
  <1>1. IndInv => JointAtomicity
    <2> SUFFICES ASSUME IndInv, pend[Public] = {}
                 PROVE  \A i \in Ids : target[i] = Roots =>
                          (i \in Installed(Secrets) <=> i \in Installed(Public))
      BY DEF JointAtomicity
    <2>1. Logical(Secrets) = Installed(Secrets) /\ Logical(Public) = Installed(Public)
      BY Constants DEF Logical
    <2> QED BY <2>1 DEF IndInv, Files, LogicalAtomicity
  <1> QED BY <1>1, Invariant, PTL

\* A deployment that was reported successful stays installed in all its roots
\* through every later kill, failure, recovery and deployment.
THEOREM AckedDeploymentsStay ==
  ASSUME "power" \notin Faults PROVE Spec => []AckedInstalled
  <1>1. IndInv => AckedInstalled BY DEF IndInv, Files
  <1> QED BY <1>1, Invariant, PTL

\* recover_alone may read the secret root's `.current` without its lock: what
\* it read is still so when it acts on it.
THEOREM CommitPointerIsNotStale ==
  ASSUME "power" \notin Faults PROVE Spec => []ViewIsCurrent
  <1>1. IndInv => ViewIsCurrent
    BY DEF IndInv, AllProgress, RecoveryProgress, ViewIsCurrent
  <1> QED BY <1>1, Invariant, PTL

-----------------------------------------------------------------------------
\* A step that leaves the logical contents alone refines a stutter or a
\* request; the others publish.
LEMMA RefinesStep ==
  ASSUME "power" \notin Faults, TypeOK, IndInv, [Next]_vars
  PROVE  [Abstract!Next]_<<target, [r \in Roots |-> Logical(r)]>>
  <1> DEFINE same == [r \in Roots |-> Logical(r)]' = [r \in Roots |-> Logical(r)]
  <1>0. ASSUME \A x \in Roots : Logical(x)' = Logical(x) PROVE same BY <1>0
  <1>1. ASSUME UNCHANGED <<cur, pend, carries>> PROVE same
    BY <1>1 DEF Logical, Installed
  <1>2. ASSUME same, target' = target
        PROVE [Abstract!Next]_<<target, [r \in Roots |-> Logical(r)]>>
    BY <1>2
  <1>3. ASSUME NEW p \in Procs, Advance(p), same
        PROVE [Abstract!Next]_<<target, [r \in Roots |-> Logical(r)]>>
    <2>1. CASE target' = target BY <1>2, <1>3, <2>1
    <2>2. CASE \E i \in Ids : GenerationId(i) /\ target' = [target EXCEPT ![i] = roots[p]]
      <3>1. PICK i \in Ids : GenerationId(i) /\ target' = [target EXCEPT ![i] = roots[p]]
        BY <2>2
      <3>2. target[i] = {} /\ roots[p] \in SUBSET Roots
        BY <3>1 DEF GenerationId, Unused, TypeOK
      <3>3. Abstract!Request(i, roots[p]) BY <1>3, <3>1, <3>2 DEF Abstract!Request
      <3> QED BY <3>2, <3>3 DEF Abstract!Next
    <2> QED BY <1>3, <2>1, <2>2 DEF Advance, Return, ghostVars
  <1>4. ASSUME NEW p \in Procs, Goto(p, at'[p]) PROVE target' = target
    BY <1>4 DEF Goto, ghostVars
  <1>5. ASSUME NEW p \in Procs, Switch(p)
        PROVE [Abstract!Next]_<<target, [r \in Roots |-> Logical(r)]>>
    <2>1. target' = target /\ id[p] \in Ids
      <3>1. target' = target BY <1>5 DEF Switch, Goto, ghostVars
      <3>2. id[p] \in Ids BY <1>5, AtWork DEF Switch, Control
      <3> QED BY <3>1, <3>2
    <2>2. CASE \A x \in Roots : Logical(x)' = Logical(x) BY <1>0, <1>2, <2>1, <2>2
    <2>3. CASE \A x \in Roots : Logical(x)' = IF x \in target[id[p]]
                                              THEN Logical(x) \cup {id[p]} ELSE Logical(x)
      <3> DEFINE pub == [r \in Roots |-> Logical(r)]
      <3>1. pub' = [r \in Roots |-> IF r \in target[id[p]]
                                    THEN pub[r] \cup {id[p]} ELSE pub[r]]
        BY <2>3
      <3>2. Abstract!Publish(id[p]) BY <2>1, <3>1 DEF Abstract!Publish
      <3> QED BY <2>1, <3>2 DEF Abstract!Next
    <2> QED BY <1>5, <2>2, <2>3, SwitchInv
  <1>6. ASSUME NEW p \in Procs, RecDiscard(p) \/ RecForward(p) \/ Stage(p) \/ Publish(p)
                                \/ Settle(p) \/ Point(p)
        PROVE [Abstract!Next]_<<target, [r \in Roots |-> Logical(r)]>>
    <2>1. target' = target
      BY <1>6 DEF RecDiscard, RecForward, Stage, Publish, Settle, Point, Goto, ghostVars
    <2>2. \A x \in Roots : Logical(x)' = Logical(x)
      BY <1>6, RecDiscardInv, RecForwardInv, StageInv, PrepareInv
    <2> QED BY <1>0, <1>2, <2>1, <2>2
  <1>7. ASSUME NEW p \in Procs, RecRemove(p) \/ PruneOne(p)
        PROVE [Abstract!Next]_<<target, [r \in Roots |-> Logical(r)]>>
    <2>1. target' = target /\ UNCHANGED <<cur, pend, carries>>
      BY <1>7 DEF RecRemove, PruneOne, Goto, ghostVars
    <2> QED BY <1>1, <1>2, <2>1
  <1>8. ASSUME NEW p \in Procs,
               \/ RecRead(p) \/ RecSync(p) \/ RecForwardSync(p) \/ PointSync(p)
               \/ SwitchSync(p) \/ PruneDone(p) \/ Fail(p)
        PROVE [Abstract!Next]_<<target, [r \in Roots |-> Logical(r)]>>
    <2>1. UNCHANGED <<cur, pend, carries>>
      BY <1>8 DEF RecRead, RecSync, RecForwardSync, PointSync, SwitchSync, PruneDone,
         Fail, fsVars
    <2>2. Advance(p) \/ target' = target
      BY <1>8 DEF RecRead, RecSync, RecForwardSync, PointSync, SwitchSync, PruneDone,
         Fail, Goto, Return, ghostVars
    <2> QED BY <1>1, <1>2, <1>3, <2>1, <2>2
  <1>9. ASSUME NEW p \in Procs, (\E o \in Operations : Begin(p, o)) \/ Lock(p) \/ Kill(p)
        PROVE [Abstract!Next]_<<target, [r \in Roots |-> Logical(r)]>>
    <2>1. target' = target /\ UNCHANGED <<cur, pend, carries>>
      BY <1>9 DEF Begin, Lock, Kill, fsVars, ghostVars
    <2> QED BY <1>1, <1>2, <2>1
  <1>10. ASSUME UNCHANGED vars
         PROVE [Abstract!Next]_<<target, [r \in Roots |-> Logical(r)]>>
    <2>1. target' = target /\ UNCHANGED <<cur, pend, carries>>
      BY <1>10 DEF vars, fsVars, ghostVars
    <2> QED BY <1>1, <1>2, <2>1
  <1>11. ~ PowerLoss BY DEF PowerLoss
  <1> QED BY <1>5, <1>6, <1>7, <1>8, <1>9, <1>10, <1>11 DEF Next, Step

\* The two-root deployment implements atomic publication: the commit point is
\* the rename of the secret root's `.current`.
THEOREM Refinement ==
  ASSUME "power" \notin Faults PROVE Spec => ImplementsJointPublish
  <1>1. Init => Abstract!Init
    <2> SUFFICES ASSUME Init PROVE Abstract!Init OBVIOUS
    <2>1. \A r \in Roots : Logical(r) = {} BY Constants DEF Init, Installed, Logical
    <2> QED BY <2>1 DEF Init, Abstract!Init
  <1>2. TypeOK /\ IndInv /\ [Next]_vars
          => [Abstract!Next]_<<target, [r \in Roots |-> Logical(r)]>>
    BY RefinesStep
  <1> QED BY <1>1, <1>2, Invariant, PTL DEF Spec, ImplementsJointPublish, Abstract!Spec

=============================================================================
