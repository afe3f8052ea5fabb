--------------------------- MODULE DialogsProofs ---------------------------
(***************************************************************************)
(* What the operations of the TUI's model keep, for any procedures,        *)
(* requests and messages (manager/src/model/procedures.rs, ui/drive.rs).   *)
(* A dialog that presses for an answer is located: it has the screen or an *)
(* entry in the task bar that calls (Good).  An operation keeps that, and  *)
(* what it does besides is kept apart: that nothing which runs is taken    *)
(* for ended or steps back (Calm), that failures stay (BadKept), that no   *)
(* prompt is added or dropped.  A pass over the messages is a recursive    *)
(* function; what it keeps is shown of the first message that would break  *)
(* it, the least counterexample.                                           *)
(***************************************************************************)
EXTENDS ProcedureDialogs, SequenceTheorems, WellFoundedInduction, TLAPS

Prompts == Requests \ Deployments
Outcomes == {"done", "warning", "denied", "failed", "timedout"}
Reports == {"warning", "failed"} \X Nat
InFlights == [req : Requests, n : Nat, kind : {"confirm", "ask", "deploy"}, denied : BOOLEAN]
Results == [req : Requests \union Reports, n : Nat, outcome : Outcomes]
Betweens == {"none", "waiting", "working", "ok", "bad"}
DialogRecords ==
    [here : BOOLEAN, step : Nat, prompts : Seq(Prompts), minimised : BOOLEAN, flashing : BOOLEAN,
     aside : BOOLEAN, ended : BOOLEAN, exit : Exits, between : Betweens, flight : SUBSET InFlights,
     finished : Seq(Results), reported : BOOLEAN]
Modes == {"browse", "dialog"} \union Deployments
Uis == [proc : [Dialogs -> DialogRecords], foreground : Dialogs \union {NoDialog}, mode : Modes,
        pending : Seq(Deployments), completed : SUBSET Deployments, cancelled : SUBSET Requests,
        lost : BOOLEAN, misled : SUBSET Procs]

\* The operator finds the dialog p: it has the screen or an entry that calls.
Located(p, front) == \/ front /\ ~p.minimised
                     \/ p.minimised /\ (p.flashing \/ p.aside)

\* A dialog that asks or has a result to show is located.  `front' is whether it
\* has the foreground, `called' whether an approval is pending or open.
Pressing(p, called) == p.prompts # <<>> \/ called \/ p.between = "bad" \/ (p.ended /\ p.between = "ok")
Insisting(p, called) == p.prompts # <<>> \/ called \/ p.between = "bad" \/ (p.ended /\ p.between = "ok" /\ Warned(p))
Sound(p, id, front) ==
    /\ front => p.here /\ ~p.minimised
    /\ ~p.here => p.flight = {} /\ ~p.ended
    /\ Implicit(id) => p.between = "none" /\ p.flight = {} /\ ~p.ended
    /\ p.prompts # <<>> => p.between \notin {"ok", "bad"}

Called(u, id) == HasPending(u, id) \/ ApprovalOf(u, id)
DialogOK(u, id) ==
    /\ Sound(u.proc[id], id, u.foreground = id)
    /\ Pressing(u.proc[id], Called(u, id)) => u.proc[id].here /\ Located(u.proc[id], u.foreground = id)
DialogUntidy(u, id) ==
    /\ Sound(u.proc[id], id, u.foreground = id)
    /\ Insisting(u.proc[id], Called(u, id)) => u.proc[id].here /\ Located(u.proc[id], u.foreground = id)

Good(u) == u \in Uis /\ \A id \in Dialogs : DialogOK(u, id)
Untidy(u) == u \in Uis /\ \A id \in Dialogs : DialogUntidy(u, id)

-----------------------------------------------------------------------------
LEMMA Names ==
    /\ NoDialog \notin Dialogs /\ \A p \in Procs : p \in Dialogs /\ ~Implicit(p)
    /\ "browse" \notin Deployments /\ "dialog" \notin Deployments
    /\ \A r \in Requests : Owner(r) \in Dialogs
    /\ \A id \in Dialogs : ~Implicit(id) => id \in Procs
  BY ProcedureNames DEF NoDialog, Dialogs, Implicit, Owner

LEMMA NewRecord ==
    /\ NewProcedure \in DialogRecords
    /\ NewProcedure.here = FALSE /\ NewProcedure.step = 0 /\ NewProcedure.prompts = <<>>
    /\ NewProcedure.minimised = FALSE /\ NewProcedure.ended = FALSE /\ NewProcedure.between = "none"
    /\ NewProcedure.flight = {}
  BY DEF NewProcedure, DialogRecords, Exits, Betweens

LEMMA FieldTypes ==
    ASSUME NEW u \in Uis
    PROVE  /\ u.proc \in [Dialogs -> DialogRecords] /\ u.foreground \in Dialogs \union {NoDialog}
           /\ u.mode \in Modes /\ u.pending \in Seq(Deployments) /\ u.completed \in SUBSET Deployments
           /\ u.cancelled \in SUBSET Requests /\ u.lost \in BOOLEAN /\ u.misled \in SUBSET Procs
           /\ \A id \in Dialogs : u.proc[id] \in DialogRecords
  BY DEF Uis

LEMMA RecordTypes ==
    ASSUME NEW p \in DialogRecords
    PROVE  /\ p.here \in BOOLEAN /\ p.step \in Nat /\ p.prompts \in Seq(Prompts)
           /\ p.minimised \in BOOLEAN /\ p.flashing \in BOOLEAN /\ p.aside \in BOOLEAN
           /\ p.ended \in BOOLEAN /\ p.exit \in Exits /\ p.between \in Betweens
           /\ p.flight \in SUBSET InFlights /\ p.finished \in Seq(Results) /\ p.reported \in BOOLEAN
  BY DEF DialogRecords

LEMMA PutIs ==
    ASSUME NEW u \in Uis, NEW id \in Dialogs, NEW p \in DialogRecords
    PROVE  /\ Put(u, id, p) \in Uis
           /\ Put(u, id, p).proc[id] = p
           /\ \A i \in Dialogs : i # id => Put(u, id, p).proc[i] = u.proc[i]
           /\ Put(u, id, p).foreground = u.foreground /\ Put(u, id, p).mode = u.mode
           /\ Put(u, id, p).pending = u.pending /\ Put(u, id, p).completed = u.completed
           /\ Put(u, id, p).cancelled = u.cancelled /\ Put(u, id, p).lost = u.lost
           /\ Put(u, id, p).misled = u.misled
  BY DEF Put, Uis

\* The fields of a UI other than its dialogs are those of another.
SameRest(u, v) ==
    /\ v.mode = u.mode /\ v.pending = u.pending /\ v.completed = u.completed
    /\ v.cancelled = u.cancelled /\ v.lost = u.lost /\ v.misled = u.misled

Redrawn(u, f, g) == [u EXCEPT !.proc = f, !.foreground = g]
Fronted(u, g) == [u EXCEPT !.foreground = g]
Switched(u, m) == [u EXCEPT !.mode = m]
Switched2(u, m, s) == [u EXCEPT !.mode = m, !.pending = s]

LEMMA RedrawnIs ==
    ASSUME NEW u \in Uis, NEW f \in [Dialogs -> DialogRecords], NEW g \in Dialogs \union {NoDialog}
    PROVE  /\ Redrawn(u, f, g) \in Uis /\ Redrawn(u, f, g).proc = f /\ Redrawn(u, f, g).foreground = g
           /\ SameRest(u, Redrawn(u, f, g))
  BY DEF Uis, SameRest, Redrawn

LEMMA FrontedIs ==
    ASSUME NEW u \in Uis, NEW g \in Dialogs \union {NoDialog}
    PROVE  /\ Fronted(u, g) \in Uis /\ Fronted(u, g).proc = u.proc /\ Fronted(u, g).foreground = g
           /\ SameRest(u, Fronted(u, g))
  BY DEF Uis, SameRest, Fronted

\* The fields other than mode and pending.
SameDialogs(u, v) ==
    /\ v.proc = u.proc /\ v.foreground = u.foreground /\ v.completed = u.completed
    /\ v.cancelled = u.cancelled /\ v.lost = u.lost /\ v.misled = u.misled

LEMMA SwitchedIs ==
    ASSUME NEW u \in Uis, NEW m \in Modes, NEW s \in Seq(Deployments)
    PROVE  /\ Switched(u, m) \in Uis /\ Switched(u, m).mode = m /\ Switched(u, m).pending = u.pending
           /\ SameDialogs(u, Switched(u, m))
           /\ Switched2(u, m, s) \in Uis /\ Switched2(u, m, s).mode = m /\ Switched2(u, m, s).pending = s
           /\ SameDialogs(u, Switched2(u, m, s))
  BY DEF Uis, SameDialogs, Switched, Switched2

-----------------------------------------------------------------------------
(* What the operations on the model have in common.                        *)

\* The procedures that have not ended.
Running == {p \in Procs : phase[p] \in {"new", "begun", "serving"}}

\* Nothing that runs ends, disappears or steps back, but for what a list misled;
\* failures stay; nothing else takes the screen.
RecordCalm(p, q) == ~p.ended => ~q.ended /\ (p.here => q.here /\ q.step >= p.step)
Calm(u, v) == /\ u.misled \subseteq v.misled
              /\ \A p \in Running : p \notin v.misled => RecordCalm(u.proc[p], v.proc[p])
BadKept(u, v) == \A p \in Procs : u.proc[p].between = "bad" => v.proc[p].between = "bad"
Quieter(u, v) == /\ v.mode = u.mode /\ v.pending = u.pending /\ v.completed = u.completed
                 /\ \A id \in Dialogs : OnScreen(v, id) => OnScreen(u, id)
Follows(u, v) == Calm(u, v) /\ BadKept(u, v) /\ Quieter(u, v)

LEMMA RunningIsProc == Running \subseteq Procs /\ Running \subseteq Dialogs /\ Procs \subseteq Dialogs
  BY DEF Running, Dialogs

LEMMA CalmTransitive ==
    ASSUME NEW u \in Uis, NEW v \in Uis, NEW w \in Uis, Calm(u, v), Calm(v, w)
    PROVE  Calm(u, w)
<1> SUFFICES ASSUME NEW p \in Running, p \notin w.misled PROVE RecordCalm(u.proc[p], w.proc[p])
  BY DEF Calm
<1>1. RecordCalm(u.proc[p], v.proc[p]) /\ RecordCalm(v.proc[p], w.proc[p])
  BY DEF Calm
<1>2. u.proc[p].step \in Nat /\ v.proc[p].step \in Nat /\ w.proc[p].step \in Nat
  BY RunningIsProc, FieldTypes, RecordTypes
<1> QED BY <1>1, <1>2 DEF RecordCalm

LEMMA FollowsTransitive ==
    ASSUME NEW u \in Uis, NEW v \in Uis, NEW w \in Uis, Follows(u, v), Follows(v, w)
    PROVE  Follows(u, w)
  BY CalmTransitive DEF Follows, BadKept, Quieter

LEMMA FollowsItself ==
    ASSUME NEW u \in Uis
    PROVE  Follows(u, u) /\ Calm(u, u)
<1>1. \A p \in Running : u.proc[p].step \in Nat
  BY RunningIsProc, FieldTypes, RecordTypes
<1> QED BY <1>1 DEF Follows, Calm, RecordCalm, BadKept, Quieter

\* A UI that differs in its dialogs only, one by one.
LEMMA FollowsByDialog ==
    ASSUME NEW u \in Uis, NEW v \in Uis, v.mode = u.mode, v.pending = u.pending,
           v.completed = u.completed, v.misled = u.misled,
           \A id \in Dialogs : OnScreen(v, id) => OnScreen(u, id),
           \A id \in Procs : /\ id \in Running => RecordCalm(u.proc[id], v.proc[id])
                             /\ u.proc[id].between = "bad" => v.proc[id].between = "bad"
    PROVE  Follows(u, v)
  BY RunningIsProc DEF Follows, Calm, BadKept, Quieter

LEMMA CalledSame ==
    ASSUME NEW u, NEW v, v.mode = u.mode, v.pending = u.pending
    PROVE  \A id \in Dialogs : Called(v, id) = Called(u, id)
  BY DEF Called, HasPending, ApprovalOf

\* What changes one dialog.
LEMMA PutGood ==
    ASSUME NEW u, Good(u), NEW id \in Dialogs, NEW p \in DialogRecords,
           Sound(p, id, u.foreground = id),
           Pressing(p, Called(u, id)) => p.here /\ Located(p, u.foreground = id)
    PROVE  Good(Put(u, id, p))
<1> DEFINE v == Put(u, id, p)
<1>1. u \in Uis
  BY DEF Good
<1>2. v \in Uis /\ v.proc[id] = p /\ v.foreground = u.foreground /\ v.mode = u.mode /\ v.pending = u.pending
      /\ \A i \in Dialogs : i # id => v.proc[i] = u.proc[i]
  BY <1>1, PutIs
<1> HIDE DEF v
<1>3. \A i \in Dialogs : Called(v, i) = Called(u, i)
  BY <1>2, CalledSame
<1>4. ASSUME NEW i \in Dialogs PROVE DialogOK(v, i)
  <2>1. CASE i = id
    BY <1>2, <1>3, <2>1 DEF DialogOK
  <2>2. CASE i # id
    BY <1>2, <1>3, <2>2 DEF DialogOK, Good
  <2> QED BY <2>1, <2>2
<1> QED BY <1>2, <1>4 DEF Good, v

LEMMA PutFollows ==
    ASSUME NEW u \in Uis, NEW id \in Dialogs, NEW p \in DialogRecords,
           RecordCalm(u.proc[id], p), u.proc[id].between = "bad" => p.between = "bad",
           u.foreground = id /\ ~p.minimised => ~u.proc[id].minimised
    PROVE  Follows(u, Put(u, id, p))
<1> DEFINE v == Put(u, id, p)
<1>1. v \in Uis /\ v.proc[id] = p /\ v.foreground = u.foreground /\ v.mode = u.mode /\ v.pending = u.pending
      /\ (\A i \in Dialogs : i # id => v.proc[i] = u.proc[i]) /\ v.completed = u.completed /\ v.misled = u.misled
  BY PutIs
<1> HIDE DEF v
<1>2. \A i \in Dialogs : OnScreen(v, i) => OnScreen(u, i)
  BY <1>1 DEF OnScreen
<1>3. ASSUME NEW i \in Procs
      PROVE  /\ i \in Running => RecordCalm(u.proc[i], v.proc[i])
             /\ u.proc[i].between = "bad" => v.proc[i].between = "bad"
  <2>1. i \in Dialogs /\ u.proc[i].step \in Nat
    BY RunningIsProc, FieldTypes, RecordTypes
  <2>2. CASE i = id
    BY <1>1, <2>2
  <2>3. CASE i # id
    BY <1>1, <2>1, <2>3 DEF RecordCalm
  <2> QED BY <2>2, <2>3
<1>4. Follows(u, v)
  BY <1>1, <1>2, <1>3, FollowsByDialog
<1> QED BY <1>4 DEF v

LEMMA GoodIsUntidy ==
    ASSUME NEW u, Good(u)
    PROVE  Untidy(u)
  BY DEF Good, Untidy, DialogOK, DialogUntidy, Pressing, Insisting

\* tidy_procedures leaves a UI in which also a plain success is located.
LEMMA TidyKeeps ==
    ASSUME NEW u, Untidy(u)
    PROVE  /\ Good(Tidy(u)) /\ Follows(u, Tidy(u)) /\ SameRest(u, Tidy(u))
           /\ Tidy(u).foreground \in {u.foreground, NoDialog}
           /\ \A id \in Dialogs : \/ Tidy(u).proc[id] = u.proc[id]
                                  \/ /\ Tidy(u).proc[id] = NewProcedure /\ ~Waiting(u, id)
                                     /\ Implicit(id) \/ u.proc[id].ended
<1> DEFINE gone == {id \in Dialogs :
                      /\ u.proc[id].here /\ (Implicit(id) \/ u.proc[id].ended)
                      /\ ~Waiting(u, id)
                      /\ ~(OnScreen(u, id) /\ u.proc[id].between \in {"ok", "bad"})}
           f == [id \in Dialogs |-> IF id \in gone THEN NewProcedure ELSE u.proc[id]]
           g == IF u.foreground \in gone THEN NoDialog ELSE u.foreground
           v == Tidy(u)
<1>1. u \in Uis /\ u.proc \in [Dialogs -> DialogRecords] /\ u.foreground \in Dialogs \union {NoDialog}
  BY FieldTypes DEF Untidy
<1>2. v = Redrawn(u, f, g)
  BY DEF Tidy, Redrawn
<1>3. f \in [Dialogs -> DialogRecords] /\ g \in Dialogs \union {NoDialog}
  BY <1>1, NewRecord
<1>4. v \in Uis /\ v.proc = f /\ v.foreground = g /\ SameRest(u, v)
  <2> HIDE DEF v, f, g
  <2> QED BY <1>1, <1>2, <1>3, RedrawnIs
<1>5. \A id \in Dialogs : \/ id \notin gone /\ v.proc[id] = u.proc[id]
                          \/ /\ id \in gone /\ v.proc[id] = NewProcedure /\ ~Waiting(u, id)
                             /\ Implicit(id) \/ u.proc[id].ended
  BY <1>4
<1>6. \A id \in Dialogs : /\ id \in gone => v.foreground # id
                          /\ id \notin gone => ((v.foreground = id) = (u.foreground = id))
  BY <1>4, Names
<1>7. \A id \in Dialogs : Called(v, id) = Called(u, id)
  BY <1>4, CalledSame DEF SameRest
<1>8. \A id \in Dialogs : u.proc[id].here /\ (Implicit(id) \/ u.proc[id].ended) /\ ~Waiting(u, id)
         /\ ~(OnScreen(u, id) /\ u.proc[id].between \in {"ok", "bad"}) => id \in gone
  OBVIOUS
<1>9. v.foreground \in {u.foreground, NoDialog}
  BY <1>4
<1> HIDE DEF v, gone, f, g
<1>10. ASSUME NEW id \in Dialogs PROVE DialogOK(v, id)
  <2>0. DialogUntidy(u, id) /\ u.proc[id] \in DialogRecords
    BY <1>1 DEF Untidy
  <2>1. CASE id \in gone
    <3>1. v.proc[id] = NewProcedure /\ ~Waiting(u, id) /\ v.foreground # id
      BY <1>5, <1>6, <2>1
    <3>2. ~Called(v, id)
      BY <1>7, <3>1 DEF Waiting, Called
    <3> QED BY <3>1, <3>2, NewRecord DEF DialogOK, Sound, Pressing
  <2>2. CASE id \notin gone
    <3>1. v.proc[id] = u.proc[id] /\ (v.foreground = id) = (u.foreground = id) /\ Called(v, id) = Called(u, id)
      BY <1>5, <1>6, <1>7, <2>2
    <3>2. Sound(v.proc[id], id, v.foreground = id)
      BY <2>0, <3>1 DEF DialogUntidy
    <3>3. ASSUME Pressing(u.proc[id], Called(u, id))
          PROVE  u.proc[id].here /\ Located(u.proc[id], u.foreground = id)
      <4>1. CASE Insisting(u.proc[id], Called(u, id))
        BY <2>0, <4>1 DEF DialogUntidy
      <4>2. CASE ~Insisting(u.proc[id], Called(u, id))
        <5>1. u.proc[id].ended /\ u.proc[id].between = "ok" /\ ~Waiting(u, id)
          BY <3>3, <4>2 DEF Pressing, Insisting, Waiting, NeedsAck, Called
        <5>2. u.proc[id].here
          BY <2>0, <5>1 DEF DialogUntidy, Sound
        <5>3. OnScreen(u, id)
          BY <1>8, <2>2, <5>1, <5>2
        <5> QED BY <5>2, <5>3 DEF OnScreen, Located
      <4> QED BY <4>1, <4>2
    <3> QED BY <3>1, <3>2, <3>3 DEF DialogOK
  <2> QED BY <2>1, <2>2
<1>11. \A id \in Dialogs : OnScreen(v, id) => OnScreen(u, id)
  BY <1>5, <1>6 DEF OnScreen
<1>12. ASSUME NEW id \in Procs
       PROVE  /\ RecordCalm(u.proc[id], v.proc[id])
              /\ u.proc[id].between = "bad" => v.proc[id].between = "bad"
  <2>1. id \in Dialogs /\ ~Implicit(id) /\ u.proc[id].step \in Nat
    BY <1>1, Names, FieldTypes, RecordTypes
  <2>2. CASE v.proc[id] = u.proc[id]
    BY <2>1, <2>2 DEF RecordCalm
  <2>3. CASE v.proc[id] # u.proc[id]
    <3>1. ~Waiting(u, id) /\ u.proc[id].ended
      BY <1>5, <2>1, <2>3
    <3>2. u.proc[id].between # "bad"
      BY <3>1 DEF Waiting, NeedsAck
    <3> QED BY <3>1, <3>2 DEF RecordCalm
  <2> QED BY <2>2, <2>3
<1>13. Follows(u, v)
  BY <1>1, <1>4, <1>11, <1>12, FollowsByDialog DEF SameRest
<1> QED BY <1>4, <1>5, <1>9, <1>10, <1>13 DEF Good, v

-----------------------------------------------------------------------------
(* The operations, from the inside out.                                    *)

LEMMA EnsureKeeps ==
    ASSUME NEW u, Good(u), NEW id \in Dialogs, NEW n \in Nat
    PROVE  /\ Good(Ensure(u, id, n)) /\ Follows(u, Ensure(u, id, n)) /\ SameRest(u, Ensure(u, id, n))
           /\ Ensure(u, id, n).foreground = u.foreground
           /\ Ensure(u, id, n).proc[id].here /\ Ensure(u, id, n).proc[id].step >= n
           /\ Ensure(u, id, n).proc[id].prompts = u.proc[id].prompts
           /\ Ensure(u, id, n).proc[id].ended = u.proc[id].ended
           /\ Ensure(u, id, n).proc[id].between = u.proc[id].between
           /\ Ensure(u, id, n).proc[id].flight = u.proc[id].flight
           /\ Ensure(u, id, n).proc[id].minimised = u.proc[id].minimised
           /\ Ensure(u, id, n).proc[id].flashing = u.proc[id].flashing
           /\ Ensure(u, id, n).proc[id].aside = u.proc[id].aside
           /\ \A i \in Dialogs : i # id => Ensure(u, id, n).proc[i] = u.proc[i]
<1> DEFINE p == u.proc[id]
           k == IF n > p.step THEN n ELSE p.step
           q == [p EXCEPT !.here = TRUE, !.step = k]
<1>1. u \in Uis /\ p \in DialogRecords
  BY FieldTypes DEF Good
<1>2. k \in Nat /\ k >= n /\ k >= p.step /\ p.step \in Nat
  BY <1>1, RecordTypes
<1>3. Ensure(u, id, n) = Put(u, id, q)
  BY <1>1, RecordTypes DEF Ensure, DialogRecords
<1>4. DialogOK(u, id)
  BY DEF Good
<1> HIDE DEF p, k
<1>5. /\ q \in DialogRecords /\ q.here = TRUE /\ q.step = k /\ q.prompts = p.prompts /\ q.ended = p.ended
      /\ q.between = p.between /\ q.flight = p.flight /\ q.minimised = p.minimised
      /\ q.flashing = p.flashing /\ q.aside = p.aside /\ q.finished = p.finished
  BY <1>1, <1>2 DEF DialogRecords
<1> HIDE DEF q
<1>6. Sound(q, id, u.foreground = id) /\ (Pressing(q, Called(u, id)) => q.here /\ Located(q, u.foreground = id))
  BY <1>4, <1>5 DEF DialogOK, Sound, Pressing, Located, p
<1>7. Good(Put(u, id, q))
  BY <1>5, <1>6, PutGood
<1>8. RecordCalm(p, q)
  BY <1>2, <1>5 DEF RecordCalm
<1>9. Follows(u, Put(u, id, q))
  BY <1>1, <1>5, <1>8, PutFollows DEF p
<1>10. SameRest(u, Put(u, id, q)) /\ Put(u, id, q).foreground = u.foreground
       /\ Put(u, id, q).proc[id] = q /\ \A i \in Dialogs : i # id => Put(u, id, q).proc[i] = u.proc[i]
  BY <1>1, <1>5, PutIs DEF SameRest
<1> QED BY <1>2, <1>3, <1>5, <1>7, <1>9, <1>10 DEF p

PromptsKept(u, v) == \A id \in Dialogs : v.proc[id].prompts = u.proc[id].prompts

LEMMA TidyKeepsPrompts ==
    ASSUME NEW u, Untidy(u)
    PROVE  PromptsKept(u, Tidy(u))
  BY TidyKeeps, NewRecord DEF PromptsKept, Waiting

\* What the end of a procedure makes of its dialog.
LEMMA EndedDialogIs ==
    ASSUME NEW u, Good(u), NEW id \in Procs, NEW exit \in Exits
    PROVE  LET p == u.proc[id]
               q == EndedDialog(u, id, exit)
           IN  /\ q \in DialogRecords /\ q.here = p.here /\ q.step = p.step /\ q.prompts = p.prompts
               /\ q.flight = p.flight /\ (~p.here => q = p) /\ (p.here => q.ended)
               /\ p.prompts # <<>> => q.between = p.between
               /\ p.between = "bad" => q.between = "bad"
               /\ \/ q.minimised = TRUE /\ q.flashing = TRUE
                  \/ /\ q.minimised = p.minimised /\ q.flashing = p.flashing /\ q.aside = p.aside
                     /\ \/ OnScreen(u, id) \/ p.prompts # <<>> \/ ~p.here
                        \/ q.between # "bad" /\ ~(q.between = "ok" /\ Warned(q))
<1> DEFINE o == u.proc[id]
           p == [u.proc[id] EXCEPT !.ended = TRUE, !.exit = exit]
           shown == u.mode = "browse" /\ OnScreen(u, id)
           nothing == p.finished = <<>> /\ p.flight = {}
           success == CASE p.between \in {"ok", "bad"} -> p.between = "ok" /\ exit = "zero"
                        [] p.between \notin {"ok", "bad"} /\ nothing -> exit # "bad"
                        [] OTHER -> exit = "zero" /\ AllSucceeded(p) /\ ~EndedEarly(id, p)
           quiet == nothing /\ p.between \notin {"ok", "bad"} /\ success
           notice == ~quiet /\ (~success \/ Warned(p)) /\ ~shown
           b == CASE quiet -> "none" [] ~quiet /\ success -> "ok" [] OTHER -> "bad"
           r == [p EXCEPT !.between = b, !.minimised = @ \/ notice, !.flashing = @ \/ notice,
                          !.aside = @ /\ ~notice]
           q == EndedDialog(u, id, exit)
<1>0. id \in Dialogs /\ ~Implicit(id)
  BY Names
<1>1. o \in DialogRecords
  BY <1>0, FieldTypes DEF Good
<1>2. q = IF ~p.here THEN o ELSE IF Implicit(id) \/ p.prompts # <<>> THEN p ELSE r
  BY DEF EndedDialog
<1>3. o.between = "bad" => o.here /\ o.prompts = <<>>
  BY <1>0 DEF Good, DialogOK, Pressing, Sound
<1>4. p.between = "bad" => ~success
  OBVIOUS
<1>5. b \in Betweens /\ (b = "bad" <=> ~success) /\ (b = "ok" => ~quiet) /\ (~success => ~quiet)
  BY DEF Betweens
<1> HIDE DEF q, success, b, quiet
<1>6. /\ p \in DialogRecords /\ p.here = o.here /\ p.step = o.step /\ p.prompts = o.prompts /\ p.ended = TRUE
      /\ p.flight = o.flight /\ p.between = o.between /\ p.minimised = o.minimised
      /\ p.flashing = o.flashing /\ p.aside = o.aside /\ p.finished = o.finished
  BY <1>1 DEF DialogRecords
<1> HIDE DEF p, o
<1>7. /\ r \in DialogRecords /\ r.here = p.here /\ r.step = p.step /\ r.prompts = p.prompts /\ r.ended = p.ended
      /\ r.flight = p.flight /\ r.between = b /\ r.finished = p.finished
  BY <1>5, <1>6 DEF DialogRecords
<1>8. r.minimised = (p.minimised \/ notice) /\ r.flashing = (p.flashing \/ notice) /\ r.aside = (p.aside /\ ~notice)
  BY <1>6 DEF DialogRecords
<1>9. Warned(r) <=> Warned(p)
  BY <1>7 DEF Warned
<1> HIDE DEF r
<1>10. /\ q \in DialogRecords /\ q.here = o.here /\ q.step = o.step /\ q.prompts = o.prompts
       /\ q.flight = o.flight /\ (~o.here => q = o) /\ (o.here => q.ended)
  BY <1>1, <1>2, <1>6, <1>7
<1>11. (o.prompts # <<>> => q.between = o.between) /\ (o.between = "bad" => q.between = "bad")
  BY <1>0, <1>2, <1>3, <1>4, <1>5, <1>6, <1>7
<1>12. \/ q.minimised = TRUE /\ q.flashing = TRUE
       \/ /\ q.minimised = o.minimised /\ q.flashing = o.flashing /\ q.aside = o.aside
          /\ \/ OnScreen(u, id) \/ o.prompts # <<>> \/ ~o.here
             \/ q.between # "bad" /\ ~(q.between = "ok" /\ Warned(q))
  <2>1. CASE ~o.here \/ o.prompts # <<>>
    BY <1>0, <1>2, <1>6, <2>1
  <2>2. CASE o.here /\ o.prompts = <<>>
    <3>1. q = r
      BY <1>0, <1>2, <1>6, <2>2
    <3>2. CASE notice
      BY <1>8, <3>1, <3>2
    <3>3. CASE ~notice
      <4>1. r.minimised = o.minimised /\ r.flashing = o.flashing /\ r.aside = o.aside
        BY <1>1, <1>6, <1>8, <3>3, RecordTypes
      <4>2. shown \/ quiet \/ (success /\ ~Warned(p))
        BY <3>3
      <4>3. OnScreen(u, id) \/ (b # "bad" /\ ~(b = "ok" /\ Warned(p)))
        BY <1>5, <4>2
      <4> QED BY <1>7, <1>9, <3>1, <4>1, <4>3
    <3> QED BY <3>2, <3>3
  <2> QED BY <2>1, <2>2
<1> QED BY <1>10, <1>11, <1>12 DEF q, o

LEMMA EndDialogsKeeps ==
    ASSUME NEW u, Good(u), NEW ends \in SUBSET Procs, NEW exit \in Exits
    PROVE  LET v == EndDialogs(u, ends, exit)
           IN  /\ Good(v) /\ SameRest(u, v) /\ BadKept(u, v) /\ Quieter(u, v) /\ PromptsKept(u, v)
               /\ \A p \in Running : p \notin ends \/ u.proc[p].ended => RecordCalm(u.proc[p], v.proc[p])
<1> DEFINE f == [id \in Dialogs |-> IF id \in ends THEN EndedDialog(u, id, exit) ELSE u.proc[id]]
           leaves == u.foreground \in ends /\ f[u.foreground].minimised
           g == IF leaves THEN NoDialog ELSE u.foreground
           w == Redrawn(u, f, g)
           v == EndDialogs(u, ends, exit)
<1>1. v = Tidy(w)
  BY DEF EndDialogs, Redrawn
<1>2. u \in Uis /\ u.proc \in [Dialogs -> DialogRecords] /\ u.foreground \in Dialogs \union {NoDialog}
  BY FieldTypes DEF Good
<1>3. f \in [Dialogs -> DialogRecords]
  BY <1>2, EndedDialogIs
<1>4. \A id \in Dialogs : f[id] = IF id \in ends THEN EndedDialog(u, id, exit) ELSE u.proc[id]
  OBVIOUS
<1>5. \A id \in Dialogs : g = id <=> (u.foreground = id /\ ~(id \in ends /\ f[id].minimised))
  BY Names
<1>6. g \in Dialogs \union {NoDialog}
  BY <1>2
<1> HIDE DEF f, g, leaves
<1>7. w \in Uis /\ w.proc = f /\ w.foreground = g /\ SameRest(u, w)
  BY <1>2, <1>3, <1>6, RedrawnIs
<1>8. \A id \in Dialogs : Called(w, id) = Called(u, id)
  BY <1>7, CalledSame DEF SameRest
<1> HIDE DEF w, v
<1>9. ASSUME NEW id \in Dialogs
      PROVE  /\ DialogUntidy(w, id) /\ (OnScreen(w, id) => OnScreen(u, id))
             /\ w.proc[id].prompts = u.proc[id].prompts
             /\ u.proc[id].between = "bad" => w.proc[id].between = "bad"
             /\ id \notin ends \/ u.proc[id].ended => RecordCalm(u.proc[id], w.proc[id])
  <2>1. DialogOK(u, id) /\ u.proc[id] \in DialogRecords /\ u.proc[id].step \in Nat
    BY <1>2, RecordTypes DEF Good
  <2>2. CASE id \notin ends
    <3>1. w.proc[id] = u.proc[id] /\ (w.foreground = id) = (u.foreground = id)
      BY <1>4, <1>5, <1>7, <2>2
    <3>2. DialogUntidy(w, id)
      BY <1>8, <2>1, <3>1 DEF DialogOK, DialogUntidy, Pressing, Insisting
    <3> QED BY <2>1, <3>1, <3>2 DEF OnScreen, RecordCalm
  <2>3. CASE id \in ends
    <3> DEFINE p == u.proc[id]
               q == EndedDialog(u, id, exit)
    <3>1. /\ q \in DialogRecords /\ q.here = p.here /\ q.step = p.step /\ q.prompts = p.prompts
          /\ q.flight = p.flight /\ (~p.here => q = p) /\ (p.here => q.ended)
          /\ p.prompts # <<>> => q.between = p.between
          /\ p.between = "bad" => q.between = "bad"
          /\ \/ q.minimised = TRUE /\ q.flashing = TRUE
             \/ /\ q.minimised = p.minimised /\ q.flashing = p.flashing /\ q.aside = p.aside
                /\ \/ OnScreen(u, id) \/ p.prompts # <<>> \/ ~p.here
                   \/ q.between # "bad" /\ ~(q.between = "ok" /\ Warned(q))
      BY <2>3, EndedDialogIs
    <3>2. w.proc[id] = q /\ (w.foreground = id <=> (u.foreground = id /\ ~q.minimised))
      BY <1>4, <1>5, <1>7, <2>3
    <3>3. ~Implicit(id)
      BY <2>3, Names
    <3> HIDE DEF q
    <3>4. Sound(q, id, w.foreground = id)
      BY <2>1, <3>1, <3>2, <3>3 DEF DialogOK, Sound
    <3>5. ASSUME Insisting(q, Called(u, id)) PROVE q.here /\ Located(q, w.foreground = id)
      <4>1. p.here
        BY <2>1, <3>1, <3>5 DEF DialogOK, Insisting, Pressing
      <4>2. CASE q.minimised = TRUE /\ q.flashing = TRUE
        BY <3>1, <4>1, <4>2 DEF Located
      <4>3. CASE ~(q.minimised = TRUE /\ q.flashing = TRUE)
        <5>1. q.minimised = p.minimised /\ q.flashing = p.flashing /\ q.aside = p.aside
          BY <3>1, <4>3
        <5>2. CASE OnScreen(u, id)
          BY <3>1, <3>2, <4>1, <5>1, <5>2 DEF OnScreen, Located
        <5>3. CASE ~OnScreen(u, id)
          <6>1. p.prompts # <<>> \/ Called(u, id)
            BY <3>1, <3>5, <4>1, <4>3, <5>3 DEF Insisting
          <6>2. Located(p, u.foreground = id)
            BY <2>1, <6>1 DEF DialogOK, Pressing
          <6> QED BY <3>1, <3>2, <4>1, <5>1, <6>2 DEF Located
        <5> QED BY <5>2, <5>3
      <4> QED BY <4>2, <4>3
    <3>6. DialogUntidy(w, id)
      BY <1>8, <3>2, <3>4, <3>5 DEF DialogUntidy
    <3>7. OnScreen(w, id) => OnScreen(u, id)
      BY <2>1, <3>1, <3>2 DEF OnScreen, DialogOK, Sound
    <3>8. u.proc[id].ended => RecordCalm(u.proc[id], w.proc[id])
      BY DEF RecordCalm
    <3> QED BY <2>3, <3>1, <3>2, <3>6, <3>7, <3>8
  <2> QED BY <2>2, <2>3
<1>10. Untidy(w)
  BY <1>7, <1>9 DEF Untidy
<1>11. Good(v) /\ Follows(w, v) /\ SameRest(w, v) /\ PromptsKept(w, v) /\ v \in Uis
  BY <1>1, <1>10, TidyKeeps, TidyKeepsPrompts DEF Good
<1>12. BadKept(u, v)
  BY <1>9, <1>11, RunningIsProc DEF BadKept, Follows
<1>13. Quieter(u, v)
  BY <1>7, <1>9, <1>11 DEF Follows, Quieter, SameRest
<1>14. PromptsKept(u, v)
  BY <1>9, <1>11 DEF PromptsKept
<1>15. SameRest(u, v)
  BY <1>7, <1>11 DEF SameRest
<1>16. ASSUME NEW p \in Running, p \notin ends \/ u.proc[p].ended PROVE RecordCalm(u.proc[p], v.proc[p])
  <2>1. p \in Dialogs /\ u.proc[p].step \in Nat /\ w.proc[p].step \in Nat /\ v.proc[p].step \in Nat
    BY <1>2, <1>7, <1>11, RunningIsProc, FieldTypes, RecordTypes
  <2>2. RecordCalm(u.proc[p], w.proc[p])
    BY <1>9, <1>16, <2>1
  <2>3. p \notin v.misled => RecordCalm(w.proc[p], v.proc[p])
    BY <1>11 DEF Follows, Calm
  <2>4. RecordCalm(w.proc[p], v.proc[p])
    BY <1>1, <1>10, <2>1, RunningIsProc, TidyKeeps, Names, NewRecord DEF RecordCalm
  <2> QED BY <2>1, <2>2, <2>4 DEF RecordCalm
<1> QED BY <1>11, <1>12, <1>13, <1>14, <1>15, <1>16 DEF v

LEMMA RecordStepKeeps ==
    ASSUME NEW u, Good(u), NEW id \in Procs, u.proc[id].here, NEW outcome \in Outcomes,
           NEW f, f.req \in Requests \union Reports, f.n \in Nat
    PROVE  LET v == RecordStep(u, id, f, outcome)
           IN  Good(v) /\ Follows(u, v) /\ PromptsKept(u, v) /\ SameRest(u, v)
<1> DEFINE ok == Succeeded(outcome)
           o == u.proc[id]
           p == [u.proc[id] EXCEPT !.finished = Append(@, [req |-> f.req, n |-> f.n, outcome |-> outcome])]
           told == f.kind = "report" /\ outcome = "failed"
           open == p.prompts # <<>> \/ ApprovalOf(u, id)
           good == ok /\ ~told /\ ~p.reported
           missed == ~good /\ ~OnScreen(u, id)
           b == CASE ~good -> "bad" [] good /\ LastStepDone(id, p) -> "ok" [] OTHER -> "waiting"
           c1 == p.ended /\ p.between \in {"ok", "bad"}
           c2 == p.ended /\ p.between \notin {"ok", "bad"}
           c3 == ~p.ended /\ ~open /\ p.flight = {} /\ p.between # "bad"
           q1 == [p EXCEPT !.between = IF ok THEN @ ELSE "bad"]
           q3 == [p EXCEPT !.reported = FALSE, !.between = b,
                    !.minimised = @ \/ missed, !.flashing = @ \/ missed, !.aside = @ /\ ~missed]
           q4 == [p EXCEPT !.reported = @ \/ (told /\ p.between # "bad"),
                    !.flashing = @ \/ (told /\ p.between # "bad" /\ p.minimised)]
           v == RecordStep(u, id, f, outcome)
<1>0. id \in Dialogs /\ ~Implicit(id)
  BY Names
<1>1. u \in Uis /\ o \in DialogRecords /\ DialogOK(u, id) /\ o.step \in Nat
  BY <1>0, FieldTypes, RecordTypes DEF Good
<1>2. /\ c1 => v = Put(u, id, q1)
      /\ c2 => v = IF open THEN Put(u, id, p) ELSE ProcedureEnded(Put(u, id, p), id, p.exit)
      /\ c3 => v = Put(u, id, q3)
      /\ ~c1 /\ ~c2 /\ ~c3 => v = Put(u, id, q4)
  BY DEF RecordStep
<1>3. /\ p \in DialogRecords /\ p.here = o.here /\ p.step = o.step /\ p.prompts = o.prompts /\ p.ended = o.ended
      /\ p.flight = o.flight /\ p.between = o.between /\ p.minimised = o.minimised
      /\ p.flashing = o.flashing /\ p.aside = o.aside /\ p.exit = o.exit /\ p.reported = o.reported
  <2> DEFINE r == [req |-> f.req, n |-> f.n, outcome |-> outcome]
  <2>1. r \in Results
    BY DEF Results
  <2>2. Append(o.finished, r) \in Seq(Results)
    BY <1>1, <2>1, RecordTypes
  <2> HIDE DEF r
  <2>3. p = [o EXCEPT !.finished = Append(@, r)]
    BY DEF r
  <2> QED BY <1>1, <2>2, <2>3 DEF DialogRecords
<1>4. b \in Betweens /\ (~good => b = "bad")
  BY DEF Betweens
<1>5. o.here
  OBVIOUS
<1>6. missed => ~OnScreen(u, id)
  OBVIOUS
<1>7. b = "bad" => OnScreen(u, id) \/ missed
  OBVIOUS
<1>8. (~c1 /\ ~c2 /\ p.prompts = <<>> => ~p.ended) /\ (~c1 /\ ~c2 => ~p.ended)
  OBVIOUS
<1> HIDE DEF o, p, v, b, good
\* A record that changes only what c1, c3 and the last case change.
<1>9. ASSUME NEW q \in DialogRecords, q.here = p.here, q.step = p.step, q.prompts = p.prompts,
             q.ended = p.ended, q.flight = p.flight, p.between = "bad" => q.between = "bad",
             q.prompts # <<>> => q.between = p.between,
             \/ q.minimised = TRUE /\ q.flashing = TRUE /\ ~OnScreen(u, id)
             \/ /\ q.minimised = p.minimised /\ (p.flashing => q.flashing) /\ q.aside = p.aside
                /\ Pressing(q, Called(u, id)) => \/ Pressing(p, Called(u, id))
                                                 \/ OnScreen(u, id)
      PROVE  Good(Put(u, id, q)) /\ Follows(u, Put(u, id, q)) /\ PromptsKept(u, Put(u, id, q))
             /\ SameRest(u, Put(u, id, q))
  <2>1. Sound(q, id, u.foreground = id)
    BY <1>0, <1>1, <1>3, <1>5, <1>9 DEF DialogOK, Sound, OnScreen, o
  <2>2. Pressing(q, Called(u, id)) => q.here /\ Located(q, u.foreground = id)
    <3>1. Pressing(p, Called(u, id)) => Located(o, u.foreground = id)
      BY <1>1, <1>3 DEF DialogOK, Pressing, o
    <3>2. OnScreen(u, id) <=> (u.foreground = id /\ ~o.minimised)
      BY DEF OnScreen, o
    <3> QED BY <1>3, <1>5, <1>9, <3>1, <3>2 DEF Located
  <2>3. Good(Put(u, id, q))
    BY <1>0, <2>1, <2>2, PutGood
  <2>4. RecordCalm(o, q)
    BY <1>1, <1>3, <1>9 DEF RecordCalm
  <2>5. Follows(u, Put(u, id, q))
    <3>1. u.foreground = id /\ ~q.minimised => ~o.minimised
      BY <1>3, <1>9
    <3> QED BY <1>0, <1>1, <1>3, <1>9, <2>4, <3>1, PutFollows DEF o
  <2>6. PromptsKept(u, Put(u, id, q)) /\ SameRest(u, Put(u, id, q))
    <3> DEFINE x == Put(u, id, q)
    <3>1. x.proc[id] = q /\ \A i \in Dialogs : i # id => x.proc[i] = u.proc[i]
      BY <1>0, <1>1, PutIs
    <3>2. SameRest(u, x)
      BY <1>0, <1>1, PutIs DEF SameRest
    <3> HIDE DEF x
    <3>3. PromptsKept(u, x)
      BY <1>3, <1>9, <3>1 DEF PromptsKept, o
    <3> QED BY <3>2, <3>3 DEF x
  <2> QED BY <2>3, <2>5, <2>6
<1>10. CASE c1
  <2>1. /\ q1 \in DialogRecords /\ q1.here = p.here /\ q1.step = p.step /\ q1.prompts = p.prompts
        /\ q1.ended = p.ended /\ q1.flight = p.flight /\ q1.minimised = p.minimised
        /\ q1.flashing = p.flashing /\ q1.aside = p.aside
        /\ q1.between = IF ok THEN p.between ELSE "bad"
    BY <1>3 DEF DialogRecords, Betweens
  <2>2. p.prompts = <<>>
    BY <1>1, <1>3, <1>10 DEF DialogOK, Sound, o
  <2>3. Pressing(p, Called(u, id))
    BY <1>10 DEF Pressing
  <2> HIDE DEF q1
  <2>4. Good(Put(u, id, q1)) /\ Follows(u, Put(u, id, q1)) /\ PromptsKept(u, Put(u, id, q1))
        /\ SameRest(u, Put(u, id, q1))
    BY <1>9, <2>1, <2>2, <2>3
  <2> QED BY <1>2, <1>10, <2>4 DEF v
<1>11. CASE c2
  <2>1. Good(Put(u, id, p)) /\ Follows(u, Put(u, id, p)) /\ PromptsKept(u, Put(u, id, p))
        /\ SameRest(u, Put(u, id, p))
    BY <1>3, <1>9
  <2>2. CASE open
    BY <1>2, <1>11, <2>1, <2>2 DEF v
  <2>3. CASE ~open
    <3> DEFINE w == Put(u, id, p)
               x == EndDialogs(w, {id}, p.exit)
    <3>1. v = x
      BY <1>2, <1>11, <2>3 DEF ProcedureEnded
    <3>2. w \in Uis /\ w.proc[id] = p
      BY <1>0, <1>1, <1>3, PutIs
    <3>3. p.exit \in Exits /\ {id} \in SUBSET Procs
      BY <1>3, RecordTypes
    <3> HIDE DEF w
    <3>4. /\ Good(x) /\ SameRest(w, x) /\ BadKept(w, x) /\ Quieter(w, x) /\ PromptsKept(w, x)
          /\ \A i \in Running : i \notin {id} \/ w.proc[i].ended => RecordCalm(w.proc[i], x.proc[i])
      BY <2>1, <3>3, EndDialogsKeeps DEF w
    <3>5. w.proc[id].ended
      BY <1>11, <3>2
    <3> HIDE DEF x
    <3>6. Follows(w, x)
      BY <3>4, <3>5 DEF Follows, Calm, SameRest
    <3>7. Follows(u, x)
      BY <1>1, <2>1, <3>2, <3>4, <3>6, FollowsTransitive DEF w, Good
    <3>8. PromptsKept(u, x) /\ SameRest(u, x)
      BY <2>1, <3>4 DEF PromptsKept, SameRest, w
    <3> QED BY <3>1, <3>4, <3>7, <3>8 DEF v
  <2> QED BY <2>2, <2>3
<1>12. CASE c3
  <2>1. /\ q3 \in DialogRecords /\ q3.here = p.here /\ q3.step = p.step /\ q3.prompts = p.prompts
        /\ q3.ended = p.ended /\ q3.flight = p.flight /\ q3.between = b
    BY <1>3, <1>4 DEF DialogRecords
  <2>2. q3.minimised = (p.minimised \/ missed) /\ q3.flashing = (p.flashing \/ missed)
        /\ q3.aside = (p.aside /\ ~missed)
    BY <1>3 DEF DialogRecords
  <2>3. p.prompts = <<>> /\ p.between # "bad" /\ ~p.ended
    BY <1>12
  <2> HIDE DEF q3, missed
  <2>4. CASE missed
    BY <1>2, <1>6, <1>9, <1>12, <2>1, <2>2, <2>3, <2>4 DEF v
  <2>5. CASE ~missed
    <3>1. q3.minimised = p.minimised /\ q3.flashing = p.flashing /\ q3.aside = p.aside
      BY <1>3, <2>2, <2>5, RecordTypes
    <3>2. Pressing(q3, Called(u, id)) => Pressing(p, Called(u, id)) \/ OnScreen(u, id)
      BY <1>7, <2>1, <2>3, <2>5 DEF Pressing
    <3> QED BY <1>2, <1>9, <1>12, <2>1, <2>3, <3>1, <3>2 DEF v
  <2> QED BY <2>4, <2>5
<1>13. CASE ~c1 /\ ~c2 /\ ~c3
  <2>1. /\ q4 \in DialogRecords /\ q4.here = p.here /\ q4.step = p.step /\ q4.prompts = p.prompts
        /\ q4.ended = p.ended /\ q4.flight = p.flight /\ q4.between = p.between
        /\ q4.minimised = p.minimised /\ q4.aside = p.aside
    BY <1>3 DEF DialogRecords
  <2>2. p.flashing => q4.flashing
    BY <1>3 DEF DialogRecords
  <2> HIDE DEF q4
  <2>3. Pressing(q4, Called(u, id)) => Pressing(p, Called(u, id))
    BY <2>1 DEF Pressing
  <2> QED BY <1>2, <1>9, <1>13, <2>1, <2>2, <2>3 DEF v
<1> QED BY <1>10, <1>11, <1>12, <1>13 DEF v

-----------------------------------------------------------------------------
(* Recursion and induction over the elements of a sequence.                *)

Less == {p \in Nat \X Nat : p[1] < p[2]}

LEMMA LessIsWellFounded == IsWellFoundedOn(Less, Nat)
  BY NatLessThanWellFounded, Zenon DEF OpToRel, Less

LEMMA FirstExists ==
    ASSUME NEW n \in Nat, NEW T \in SUBSET (0..n), T # {}
    PROVE  \E k \in T : \A j \in 0..(k - 1) : j \notin T
<1>1. T \in SUBSET Nat
  OBVIOUS
<1>2. PICK k \in T : \A m \in T : <<m, k>> \notin Less
  BY <1>1, LessIsWellFounded, WFMin
<1>3. ASSUME NEW m \in T, m < k PROVE FALSE
  <2>1. <<m, k>> \in Nat \X Nat /\ <<m, k>>[1] = m /\ <<m, k>>[2] = k
    BY <1>1
  <2> QED BY <1>2, <1>3, <2>1 DEF Less
<1> QED BY <1>1, <1>2, <1>3

\* What holds of the first and goes from each to the next holds of all.
LEMMA Along ==
    ASSUME NEW n \in Nat, NEW J, 0 \in J, \A i \in 1..n : i - 1 \in J => i \in J
    PROVE  0..n \subseteq J
<1> DEFINE T == (0..n) \ J
<1> SUFFICES ASSUME T # {} PROVE FALSE
  OBVIOUS
<1>1. PICK k \in T : \A j \in 0..(k - 1) : j \notin T
  BY FirstExists
<1>2. k # 0
  BY <1>1
<1>3. k \in 1..n /\ k - 1 \in 0..n /\ k - 1 \in 0..(k - 1)
  BY <1>1, <1>2
<1> QED BY <1>1, <1>3

\* h is what the steps F make of u, one after the other.
StepsOf(n, u, F, h) == DOMAIN h = 0..n /\ h[0] = u /\ \A i \in 1..n : h[i] = F[<<i, h[i - 1]>>]

LEMMA StepsExist ==
    ASSUME NEW n \in Nat, NEW S, NEW u \in S, NEW F \in [(1..n) \X S -> S]
    PROVE  \E h \in [0..n -> S] : StepsOf(n, u, F, h)
<1> DEFINE T == {k \in 0..n : ~ \E h \in [0..k -> S] : StepsOf(k, u, F, h)}
<1> SUFFICES ASSUME T # {} PROVE FALSE
  OBVIOUS
<1>1. PICK k \in T : \A j \in 0..(k - 1) : j \notin T
  BY FirstExists
<1>2. k # 0
  <2> DEFINE z == [i \in 0..0 |-> u]
  <2>1. z \in [0..0 -> S] /\ StepsOf(0, u, F, z)
    BY DEF StepsOf
  <2> QED BY <1>1, <2>1
<1>3. k \in 1..n /\ k - 1 \in 0..n /\ k - 1 \in 0..(k - 1)
  BY <1>1, <1>2
<1>4. PICK g \in [0..(k - 1) -> S] : StepsOf(k - 1, u, F, g)
  BY <1>1, <1>3
<1> DEFINE h == [i \in 0..k |-> IF i = k THEN F[<<k, g[k - 1]>>] ELSE g[i]]
<1>5. F[<<k, g[k - 1]>>] \in S
  BY <1>3, <1>4
<1>6. h \in [0..k -> S]
  BY <1>3, <1>4, <1>5
<1>7. StepsOf(k, u, F, h)
  <2>1. h[0] = u
    BY <1>2, <1>3, <1>4 DEF StepsOf
  <2>2. ASSUME NEW i \in 1..k PROVE h[i] = F[<<i, h[i - 1]>>]
    <3>1. i - 1 \in 0..k /\ i \in 0..k /\ i - 1 # k
      BY <1>3
    <3>2. h[i - 1] = g[i - 1]
      BY <3>1
    <3>3. CASE i = k
      BY <3>1, <3>2, <3>3
    <3>4. CASE i # k
      <4>1. i \in 1..(k - 1)
        BY <1>3, <3>4
      <4> QED BY <1>4, <3>1, <3>2, <3>4, <4>1 DEF StepsOf
    <3> QED BY <3>3, <3>4
  <2> QED BY <2>1, <2>2 DEF StepsOf
<1> QED BY <1>1, <1>6, <1>7

KeptIn(s, x, f) ==
    f = [i \in 0..Len(s) |-> IF i = 0 THEN <<>>
                             ELSE IF s[i] = x THEN f[i - 1] ELSE Append(f[i - 1], s[i])]

\* t is the first i elements of s without x.
KeptUpTo(T, s, x, i, t) ==
    /\ t \in Seq(T) /\ Len(t) <= i
    /\ \A a \in 1..i : s[a] # x => \E j \in 1..Len(t) : t[j] = s[a]
    /\ \A j \in 1..Len(t) : t[j] # x /\ \E a \in 1..i : s[a] = t[j]

LEMMA WithoutIs ==
    ASSUME NEW T, NEW s \in Seq(T), NEW x
    PROVE  /\ Without(s, x) \in Seq(T) /\ Len(Without(s, x)) <= Len(s)
           /\ \A i \in 1..Len(s) : s[i] # x => \E j \in 1..Len(Without(s, x)) : Without(s, x)[j] = s[i]
           /\ \A j \in 1..Len(Without(s, x)) : /\ Without(s, x)[j] # x
                                               /\ \E i \in 1..Len(s) : s[i] = Without(s, x)[j]
<1> DEFINE n == Len(s)
           F == [y \in (1..n) \X Seq(T) |-> IF s[y[1]] = x THEN y[2] ELSE Append(y[2], s[y[1]])]
           k == CHOOSE f : KeptIn(s, x, f)
<1>1. n \in Nat /\ \A i \in 1..n : s[i] \in T
  OBVIOUS
<1>2. F \in [(1..n) \X Seq(T) -> Seq(T)]
  BY <1>1
<1>3. <<>> \in Seq(T)
  OBVIOUS
<1>4. \A i \in 1..n, t \in Seq(T) : F[<<i, t>>] = IF s[i] = x THEN t ELSE Append(t, s[i])
  OBVIOUS
<1>5. Without(s, x) = k[n]
  BY DEF Without, KeptIn
<1> HIDE DEF F, n
<1>6. PICK h \in [0..n -> Seq(T)] : StepsOf(n, <<>>, F, h)
  BY <1>1, <1>2, <1>3, StepsExist
<1>7. KeptIn(s, x, h)
  <2>1. ASSUME NEW i \in 0..n
        PROVE  h[i] = IF i = 0 THEN <<>> ELSE IF s[i] = x THEN h[i - 1] ELSE Append(h[i - 1], s[i])
    <3>1. CASE i = 0
      BY <1>6, <3>1 DEF StepsOf
    <3>2. CASE i # 0
      <4>1. i \in 1..n /\ h[i - 1] \in Seq(T)
        BY <1>1, <1>6, <3>2
      <4> QED BY <1>4, <1>6, <3>2, <4>1 DEF StepsOf
    <3> QED BY <3>1, <3>2
  <2>2. h = [i \in 0..n |-> IF i = 0 THEN <<>> ELSE IF s[i] = x THEN h[i - 1] ELSE Append(h[i - 1], s[i])]
    BY <1>6, <2>1
  <2> QED BY <2>2 DEF KeptIn, n
<1>8. KeptIn(s, x, k)
  BY <1>7
<1> HIDE DEF k
<1> DEFINE J == {i \in 0..n : KeptUpTo(T, s, x, i, k[i])}
<1>9. \A i \in 0..n : i \in J <=> KeptUpTo(T, s, x, i, k[i])
  OBVIOUS
<1> HIDE DEF J
<1>10. k[0] = <<>>
  BY <1>1, <1>8 DEF KeptIn, n
<1>11. 0 \in J
  <2>1. KeptUpTo(T, s, x, 0, <<>>)
    BY <1>3 DEF KeptUpTo
  <2> QED BY <1>1, <1>3, <1>9, <1>10, <2>1
<1>12. ASSUME NEW i \in 1..n, i - 1 \in J PROVE i \in J
  <2> DEFINE t == k[i - 1]
  <2>1. k[i] = IF s[i] = x THEN t ELSE Append(t, s[i])
    <3>1. i \in 0..Len(s) /\ i # 0
      BY <1>1 DEF n
    <3>2. k = [j \in 0..Len(s) |-> IF j = 0 THEN <<>> ELSE IF s[j] = x THEN k[j - 1] ELSE Append(k[j - 1], s[j])]
      BY <1>8 DEF KeptIn
    <3> QED BY <3>1, <3>2
  <2>2. s[i] \in T /\ i \in Nat /\ i \in 0..n /\ i - 1 \in 0..n
    BY <1>1
  <2>2a. KeptUpTo(T, s, x, i - 1, t)
    BY <1>9, <1>12, <2>2
  <2>2b. t \in Seq(T)
    BY <2>2a DEF KeptUpTo
  <2> HIDE DEF t
  <2>3. CASE s[i] = x
    <3>1. KeptUpTo(T, s, x, i, t)
      <4>1. \A b \in 1..i : b = i \/ b \in 1..(i - 1)
        BY <2>2, <2>2b
      <4>2. \A b \in 1..(i - 1) : b \in 1..i
        BY <2>2, <2>2b
      <4>3. Len(t) <= i
        BY <2>2, <2>2a, <2>2b DEF KeptUpTo
      <4> QED BY <2>2, <2>2a, <2>2b, <2>3, <4>1, <4>2, <4>3 DEF KeptUpTo
    <3> QED BY <1>9, <2>1, <2>2, <2>3, <3>1
  <2>4. CASE s[i] # x
    <3> DEFINE a == Append(t, s[i])
    <3>1. a \in Seq(T) /\ Len(a) = Len(t) + 1 /\ a[Len(t) + 1] = s[i] /\ \A j \in 1..Len(t) : a[j] = t[j]
      BY <2>2, <2>2b
    <3> HIDE DEF a
    <3>2. \A j \in 1..Len(a) : j = Len(t) + 1 \/ j \in 1..Len(t)
      BY <2>2, <2>2a, <2>2b, <3>1
    <3>3. Len(t) + 1 \in 1..Len(a) /\ \A j \in 1..Len(t) : j \in 1..Len(a)
      BY <2>2, <2>2a, <2>2b, <3>1
    <3>4. \A b \in 1..i : b = i \/ b \in 1..(i - 1)
      BY <2>2, <2>2b
    <3>5. Len(a) <= i
      BY <2>2, <2>2a, <2>2b, <3>1 DEF KeptUpTo
    <3>6. \A b \in 1..i : s[b] # x => \E j \in 1..Len(a) : a[j] = s[b]
      BY <2>2, <2>2a, <2>2b, <3>1, <3>3, <3>4 DEF KeptUpTo
    <3>6a. \A b \in 1..(i - 1) : b \in 1..i
      BY <2>2, <2>2b
    <3>7. ASSUME NEW j \in 1..Len(a) PROVE a[j] # x /\ \E b \in 1..i : s[b] = a[j]
      <4>1. CASE j = Len(t) + 1
        <5>1. i \in 1..i
          BY <2>2
        <5> QED BY <2>4, <3>1, <4>1, <5>1
      <4>2. CASE j \in 1..Len(t)
        <5>1. t[j] # x /\ \E b \in 1..(i - 1) : s[b] = t[j]
          BY <2>2a, <4>2 DEF KeptUpTo
        <5>2. a[j] = t[j]
          BY <3>1, <4>2
        <5> QED BY <3>6a, <5>1, <5>2
      <4> QED BY <3>2, <4>1, <4>2
    <3>8. KeptUpTo(T, s, x, i, a)
      BY <3>1, <3>5, <3>6, <3>7 DEF KeptUpTo
    <3>9. k[i] = a
      BY <2>1, <2>4 DEF a
    <3> QED BY <1>9, <2>2, <3>8, <3>9
  <2> QED BY <2>3, <2>4
<1>13. 0..n \subseteq J
  BY <1>1, <1>11, <1>12, Along
<1>14. KeptUpTo(T, s, x, n, k[n])
  BY <1>1, <1>9, <1>13
<1> QED BY <1>5, <1>14 DEF n, KeptUpTo

-----------------------------------------------------------------------------
(* Events.                                                                 *)

\* What an event makes of a UI.
Tame(u, v) == Good(v) /\ Follows(u, v) /\ SameRest(u, v)

HasPrompt(u, id, q) == \E i \in 1..Len(u.proc[id].prompts) : u.proc[id].prompts[i] = q
\* No prompt but those of R is dropped.
PromptsBut(u, v, R) == \A id \in Dialogs, q \in Prompts : q \notin R /\ HasPrompt(u, id, q) => HasPrompt(v, id, q)
\* No prompt is added.
NoPromptMore(u, v) == \A id \in Dialogs, q \in Prompts : HasPrompt(v, id, q) => HasPrompt(u, id, q)

LEMMA TameTransitive ==
    ASSUME NEW u, NEW v, NEW w, Good(u), Tame(u, v), Tame(v, w)
    PROVE  Tame(u, w)
  BY FollowsTransitive DEF Tame, Good, SameRest

LEMMA TameItself ==
    ASSUME NEW u, Good(u)
    PROVE  Tame(u, u) /\ PromptsKept(u, u)
  BY FollowsItself DEF Tame, Good, SameRest, PromptsKept

LEMMA TidyTame ==
    ASSUME NEW u, Good(u)
    PROVE  Tame(u, Tidy(u)) /\ PromptsKept(u, Tidy(u))
  BY GoodIsUntidy, TidyKeeps, TidyKeepsPrompts DEF Tame

LEMMA RecordStepTame ==
    ASSUME NEW u, Good(u), NEW id \in Procs, u.proc[id].here, NEW outcome \in Outcomes,
           NEW f, f.req \in Requests \union Reports, f.n \in Nat
    PROVE  /\ Tame(u, Tidy(RecordStep(u, id, f, outcome)))
           /\ PromptsKept(u, Tidy(RecordStep(u, id, f, outcome)))
<1> DEFINE v == RecordStep(u, id, f, outcome)
<1>1. Tame(u, v) /\ PromptsKept(u, v)
  BY RecordStepKeeps DEF Tame
<1> HIDE DEF v
<1>2. Tame(v, Tidy(v)) /\ PromptsKept(v, Tidy(v))
  BY <1>1, TidyTame DEF Tame
<1>3. Tame(u, Tidy(v)) /\ PromptsKept(u, Tidy(v))
  BY <1>1, <1>2, TameTransitive DEF PromptsKept
<1> QED BY <1>3 DEF v

StepMessages == [type : {"step"}, proc : Procs, n : Nat, failure : BOOLEAN, warning : BOOLEAN]

LEMMA StepReportedTame ==
    ASSUME NEW u, Good(u), NEW m \in StepMessages, u.proc[m.proc].here, NEW outcome \in {"warning", "failed"}
    PROVE  Tame(u, StepReported(u, m, outcome)) /\ PromptsKept(u, StepReported(u, m, outcome))
<1> DEFINE f == [req |-> <<outcome, m.n>>, n |-> m.n, kind |-> "report"]
           v == Tidy(RecordStep(u, m.proc, f, outcome))
<1>1. m.proc \in Procs /\ m.n \in Nat
  BY DEF StepMessages
<1>2. f.req \in Requests \union Reports /\ f.n \in Nat /\ outcome \in Outcomes
  BY <1>1 DEF Reports, Outcomes
<1>3. StepReported(u, m, outcome) \in {u, v}
  BY DEF StepReported
<1> HIDE DEF f
<1>4. Tame(u, v) /\ PromptsKept(u, v)
  BY <1>1, <1>2, RecordStepTame
<1> QED BY <1>3, <1>4, TameItself

LEMMA ProcedureStepTame ==
    ASSUME NEW u, Good(u), NEW m \in StepMessages
    PROVE  /\ Tame(u, ProcedureStep(u, m)) /\ PromptsKept(u, ProcedureStep(u, m))
           /\ m.proc \in Running \ u.misled /\ ~u.proc[m.proc].ended
              => /\ ProcedureStep(u, m).proc[m.proc].here
                 /\ ProcedureStep(u, m).proc[m.proc].step >= m.n
<1> DEFINE a == Ensure(u, m.proc, m.n)
           b == IF m.warning THEN StepReported(a, m, "warning") ELSE a
           c == IF m.failure /\ b.proc[m.proc].here THEN StepReported(b, m, "failed") ELSE b
<1>1. m.proc \in Procs /\ m.proc \in Dialogs /\ m.n \in Nat
  BY Names DEF StepMessages
<1>2. Tame(u, a) /\ a.proc[m.proc].here /\ a.proc[m.proc].step >= m.n /\ a.proc[m.proc].ended = u.proc[m.proc].ended
      /\ PromptsKept(u, a)
  <2>1. /\ Good(a) /\ Follows(u, a) /\ SameRest(u, a) /\ a.proc[m.proc].here /\ a.proc[m.proc].step >= m.n
        /\ a.proc[m.proc].prompts = u.proc[m.proc].prompts /\ a.proc[m.proc].ended = u.proc[m.proc].ended
        /\ \A i \in Dialogs : i # m.proc => a.proc[i] = u.proc[i]
    <3> DEFINE i == m.proc
               n == m.n
    <3>1. i \in Dialogs /\ n \in Nat /\ a = Ensure(u, i, n)
      BY <1>1
    <3> HIDE DEF i, n, a
    <3>2. /\ Good(a) /\ Follows(u, a) /\ SameRest(u, a) /\ a.proc[i].here /\ a.proc[i].step >= n
          /\ a.proc[i].prompts = u.proc[i].prompts /\ a.proc[i].ended = u.proc[i].ended
          /\ \A j \in Dialogs : j # i => a.proc[j] = u.proc[j]
      BY <3>1, EnsureKeeps
    <3> QED BY <3>2 DEF i, n
  <2> HIDE DEF a
  <2> QED BY <2>1 DEF Tame, PromptsKept
<1>3. c = ProcedureStep(u, m)
  BY DEF ProcedureStep
<1> HIDE DEF a
<1>4. Tame(a, b) /\ PromptsKept(a, b)
  BY <1>2, TameItself, StepReportedTame DEF Tame
<1> HIDE DEF b
<1>5. Tame(b, c) /\ PromptsKept(b, c)
  BY <1>4, TameItself, StepReportedTame DEF Tame
<1> HIDE DEF c
<1>6. Tame(a, c) /\ Tame(u, c) /\ PromptsKept(u, c)
  BY <1>2, <1>4, <1>5, TameTransitive DEF Tame, PromptsKept
<1>7. ASSUME m.proc \in Running \ u.misled, ~u.proc[m.proc].ended
      PROVE  c.proc[m.proc].here /\ c.proc[m.proc].step >= m.n
  <2>1. m.proc \notin c.misled
    BY <1>6, <1>7 DEF Tame, SameRest
  <2>2. RecordCalm(a.proc[m.proc], c.proc[m.proc])
    BY <1>6, <1>7, <2>1 DEF Tame, Follows, Calm
  <2>3. a.proc[m.proc].step \in Nat /\ c.proc[m.proc].step \in Nat
    BY <1>1, <1>2, <1>6, FieldTypes, RecordTypes DEF Tame, Good
  <2> QED BY <1>1, <1>2, <1>7, <2>2, <2>3 DEF RecordCalm
<1> QED BY <1>3, <1>6, <1>7

LEMMA PromptsButTransitive ==
    ASSUME NEW u, NEW v, NEW w, NEW R, PromptsBut(u, v, R) \/ PromptsKept(u, v),
           PromptsBut(v, w, R) \/ PromptsKept(v, w)
    PROVE  PromptsBut(u, w, R)
  BY DEF PromptsBut, PromptsKept, HasPrompt

\* The prompts of one dialog and what is in flight for it become fewer.
Fewer(p, s, e) == [p EXCEPT !.prompts = s, !.flight = e]

LEMMA FewerIs ==
    ASSUME NEW p \in DialogRecords, NEW s \in Seq(Prompts), NEW e \in SUBSET p.flight
    PROVE  /\ Fewer(p, s, e) \in DialogRecords /\ Fewer(p, s, e).here = p.here /\ Fewer(p, s, e).step = p.step
           /\ Fewer(p, s, e).prompts = s /\ Fewer(p, s, e).ended = p.ended /\ Fewer(p, s, e).flight = e
           /\ Fewer(p, s, e).between = p.between /\ Fewer(p, s, e).minimised = p.minimised
           /\ Fewer(p, s, e).flashing = p.flashing /\ Fewer(p, s, e).aside = p.aside
<1>1. e \in SUBSET InFlights
  BY RecordTypes
<1> QED BY <1>1 DEF DialogRecords, Fewer

LEMMA FewerTame ==
    ASSUME NEW u, Good(u), NEW id \in Dialogs, NEW s \in Seq(Prompts), NEW e \in SUBSET u.proc[id].flight,
           u.proc[id].prompts = <<>> => s = <<>>
    PROVE  Tame(u, Put(u, id, Fewer(u.proc[id], s, e)))
<1> DEFINE p == u.proc[id]
           q == Fewer(p, s, e)
<1>1. u \in Uis /\ p \in DialogRecords /\ DialogOK(u, id) /\ p.step \in Nat
  BY FieldTypes, RecordTypes DEF Good
<1>2. /\ q \in DialogRecords /\ q.here = p.here /\ q.step = p.step /\ q.prompts = s /\ q.ended = p.ended
      /\ q.flight = e /\ q.between = p.between /\ q.minimised = p.minimised
      /\ q.flashing = p.flashing /\ q.aside = p.aside
  <2> HIDE DEF p
  <2>1. e \in SUBSET p.flight
    BY DEF p
  <2> QED BY <1>1, <2>1, FewerIs
<1> HIDE DEF q
<1>3. Sound(q, id, u.foreground = id)
  BY <1>1, <1>2 DEF DialogOK, Sound
<1>4. Pressing(q, Called(u, id)) => q.here /\ Located(q, u.foreground = id)
  BY <1>1, <1>2 DEF DialogOK, Pressing, Located
<1>5. RecordCalm(p, q)
  BY <1>1, <1>2 DEF RecordCalm
<1>6. Good(Put(u, id, q)) /\ Follows(u, Put(u, id, q))
  BY <1>1, <1>2, <1>3, <1>4, <1>5, PutGood, PutFollows
<1>7. SameRest(u, Put(u, id, q))
  BY <1>1, <1>2, PutIs DEF SameRest
<1> QED BY <1>6, <1>7 DEF Tame, q

LEMMA DropPromptTame ==
    ASSUME NEW u, Good(u), NEW r \in Requests
    PROVE  /\ Tame(u, DropPrompt(u, r)) /\ PromptsBut(u, DropPrompt(u, r), {r})
           /\ NoPromptMore(u, DropPrompt(u, r))
           /\ DropPrompt(u, r).proc[Owner(r)].flight = u.proc[Owner(r)].flight
<1> DEFINE id == Owner(r)
           p == u.proc[id]
           s == Without(p.prompts, r)
           q == Fewer(p, s, p.flight)
           v == DropPrompt(u, r)
<1>1. id \in Dialogs /\ u \in Uis
  BY Names DEF Good
<1>2. p \in DialogRecords /\ p.prompts \in Seq(Prompts) /\ p.flight \in SUBSET p.flight
  BY <1>1, FieldTypes, RecordTypes
<1>3. s \in Seq(Prompts) /\ (p.prompts = <<>> => s = <<>>)
      /\ (\A i \in 1..Len(p.prompts) : p.prompts[i] # r => \E j \in 1..Len(s) : s[j] = p.prompts[i])
      /\ \A j \in 1..Len(s) : \E i \in 1..Len(p.prompts) : p.prompts[i] = s[j]
  <2> DEFINE z == p.prompts
  <2>1. s = Without(z, r) /\ z \in Seq(Prompts)
    BY <1>2
  <2> HIDE DEF z, s
  <2>2. s \in Seq(Prompts) /\ Len(s) <= Len(z)
        /\ (\A i \in 1..Len(z) : z[i] # r => \E j \in 1..Len(s) : s[j] = z[i])
        /\ \A j \in 1..Len(s) : \E i \in 1..Len(z) : z[i] = s[j]
    BY <2>1, WithoutIs
  <2>3. z = <<>> => s = <<>>
    BY <2>1, <2>2
  <2> QED BY <2>2, <2>3 DEF z
<1>4. v = Put(u, id, q)
  BY <1>2 DEF DropPrompt, DialogRecords, Fewer
<1> HIDE DEF s, id
<1>5. Tame(u, Put(u, id, q))
  <2> DEFINE e == p.flight
  <2>1. e \in SUBSET u.proc[id].flight /\ s \in Seq(Prompts) /\ id \in Dialogs
    BY <1>1, <1>3
  <2>2. u.proc[id].prompts = <<>> => s = <<>>
    BY <1>3
  <2>3. q = Fewer(u.proc[id], s, e)
    OBVIOUS
  <2> HIDE DEF e, q
  <2>4. Tame(u, Put(u, id, Fewer(u.proc[id], s, e)))
    BY <2>1, <2>2, FewerTame
  <2> QED BY <2>3, <2>4
<1>6. q \in DialogRecords /\ q.prompts = s /\ q.flight = p.flight
  <2> HIDE DEF p
  <2> QED BY <1>2, <1>3, FewerIs
<1> HIDE DEF q, v
<1>7. v.proc[id] = q /\ \A i \in Dialogs : i # id => v.proc[i] = u.proc[i]
  BY <1>1, <1>4, <1>6, PutIs
<1>8. ASSUME NEW i \in Dialogs, NEW x \in Prompts, x # r, HasPrompt(u, i, x) PROVE HasPrompt(v, i, x)
  <2>1. CASE i = id
    <3>1. PICK l \in 1..Len(p.prompts) : p.prompts[l] = x
      BY <1>8, <2>1 DEF HasPrompt
    <3>2. PICK j \in 1..Len(s) : s[j] = p.prompts[l]
      BY <1>3, <1>8, <3>1
    <3> QED BY <1>6, <1>7, <2>1, <3>1, <3>2 DEF HasPrompt
  <2>2. CASE i # id
    BY <1>7, <1>8, <2>2 DEF HasPrompt
  <2> QED BY <2>1, <2>2
<1>9. NoPromptMore(u, v)
  <2> SUFFICES ASSUME NEW i \in Dialogs, NEW x \in Prompts, HasPrompt(v, i, x) PROVE HasPrompt(u, i, x)
    BY DEF NoPromptMore
  <2>1. CASE i = id
    <3>1. PICK j \in 1..Len(s) : s[j] = x
      BY <1>6, <1>7, <2>1 DEF HasPrompt
    <3>2. PICK l \in 1..Len(p.prompts) : p.prompts[l] = s[j]
      BY <1>3
    <3> QED BY <2>1, <3>1, <3>2 DEF HasPrompt
  <2>2. CASE i # id
    BY <1>7, <2>2 DEF HasPrompt
  <2> QED BY <2>1, <2>2
<1> QED BY <1>4, <1>5, <1>6, <1>7, <1>8, <1>9 DEF v, id, PromptsBut

LEMMA PromptsButSelf ==
    ASSUME NEW u, NEW v, NEW R, PromptsKept(u, v)
    PROVE  PromptsBut(u, v, R) /\ NoPromptMore(u, v)
  BY DEF PromptsBut, PromptsKept, HasPrompt, NoPromptMore

\* Recording what became of something in flight.
LEMMA FlightRecorded ==
    ASSUME NEW u, Good(u), NEW r \in Requests, NEW f \in Flights(u, r), NEW outcome \in Outcomes
    PROVE  LET v == Tidy(RecordStep(TakeFlight(u, Owner(r), f), Owner(r), f, outcome))
           IN  Tame(u, v) /\ PromptsKept(u, v)
<1> DEFINE id == Owner(r)
           p == u.proc[id]
           e == p.flight \ {f}
           q == Fewer(p, p.prompts, e)
           w == TakeFlight(u, id, f)
           v == Tidy(RecordStep(w, id, f, outcome))
<1>1. id \in Dialogs /\ u \in Uis /\ DialogOK(u, id)
  BY Names DEF Good
<1>2. p \in DialogRecords /\ p.prompts \in Seq(Prompts) /\ e \in SUBSET p.flight /\ f \in p.flight
  BY <1>1, FieldTypes, RecordTypes DEF Flights
<1>3. f \in InFlights
  BY <1>2, RecordTypes
<1>4. p.here /\ ~Implicit(id)
  BY <1>1, <1>2 DEF DialogOK, Sound
<1>5. w = Put(u, id, q)
  BY <1>2 DEF TakeFlight, DialogRecords, Fewer
<1> HIDE DEF id
<1>6. Tame(u, Put(u, id, q))
  <2> DEFINE s == p.prompts
  <2>1. s \in Seq(Prompts) /\ e \in SUBSET u.proc[id].flight /\ (u.proc[id].prompts = <<>> => s = <<>>)
    BY <1>2
  <2>2. q = Fewer(u.proc[id], s, e)
    OBVIOUS
  <2> HIDE DEF e, s, q
  <2> QED BY <1>1, <2>1, <2>2, FewerTame
<1>7. q \in DialogRecords /\ q.prompts = p.prompts /\ q.here = p.here
  <2> HIDE DEF p, e
  <2> QED BY <1>2, FewerIs
<1> HIDE DEF q, e
<1>8. Put(u, id, q).proc[id] = q /\ \A i \in Dialogs : i # id => Put(u, id, q).proc[i] = u.proc[i]
  BY <1>1, <1>7, PutIs
<1> HIDE DEF w
<1>9. Tame(u, w) /\ PromptsKept(u, w) /\ w.proc[id].here
  BY <1>4, <1>5, <1>6, <1>7, <1>8 DEF PromptsKept
<1>10. id \in Procs /\ f.req \in Requests \union Reports /\ f.n \in Nat
  BY <1>1, <1>3, <1>4, Names DEF InFlights
<1>11. Tame(w, v) /\ PromptsKept(w, v)
  BY <1>9, <1>10, RecordStepTame DEF Tame
<1> HIDE DEF v
<1>12. Tame(u, v) /\ PromptsKept(u, v)
  BY <1>9, <1>11, TameTransitive DEF PromptsKept
<1> QED BY <1>12 DEF v, w, id

LEMMA PromptMissedTame ==
    ASSUME NEW u, Good(u), NEW r \in Requests, NEW outcome \in Outcomes
    PROVE  LET v == PromptMissed(u, r, outcome)
           IN  Tame(u, v) /\ PromptsBut(u, v, {r}) /\ NoPromptMore(u, v)
<1> DEFINE w == DropPrompt(u, r)
           f == CHOOSE f \in Flights(w, r) : TRUE
           v == PromptMissed(u, r, outcome)
<1>1. Tame(u, w) /\ PromptsBut(u, w, {r}) /\ NoPromptMore(u, w)
  BY DropPromptTame
<1>2. v = IF Flights(w, r) = {} THEN Tidy(w) ELSE Tidy(RecordStep(TakeFlight(w, Owner(r), f), Owner(r), f, outcome))
  BY DEF PromptMissed
<1>3. Flights(w, r) # {} => f \in Flights(w, r)
  OBVIOUS
<1> HIDE DEF w, f
<1>4. Tame(w, v) /\ PromptsKept(w, v)
  <2>1. CASE Flights(w, r) = {}
    BY <1>1, <1>2, <2>1, TidyTame DEF Tame
  <2>2. CASE Flights(w, r) # {}
    BY <1>1, <1>2, <1>3, <2>2, FlightRecorded DEF Tame
  <2> QED BY <2>1, <2>2
<1> HIDE DEF v
<1>5. Tame(u, v) /\ PromptsBut(u, v, {r}) /\ NoPromptMore(u, v)
  BY <1>1, <1>4, TameTransitive, PromptsButTransitive, PromptsButSelf DEF NoPromptMore
<1> QED BY <1>5 DEF v

LEMMA StepFinishedTame ==
    ASSUME NEW u, Good(u), NEW r \in Requests, NEW ok \in BOOLEAN
    PROVE  LET v == StepFinished(u, r, ok)
           IN  Tame(u, v) /\ PromptsBut(u, v, {r}) /\ NoPromptMore(u, v)
<1> DEFINE d == DropPrompt(u, r)
           w == IF ok THEN u ELSE Tidy(d)
           f == CHOOSE f \in Flights(w, r) : TRUE
           outcome == CASE ok /\ f.kind = "confirm" -> "warning" [] ok -> "done"
                        [] f.denied -> "denied" [] OTHER -> "failed"
           v == StepFinished(u, r, ok)
<1>1. Tame(u, d) /\ PromptsBut(u, d, {r}) /\ NoPromptMore(u, d)
  BY DropPromptTame
<1> HIDE DEF d
<1>2. Tame(d, Tidy(d)) /\ PromptsKept(d, Tidy(d))
  BY <1>1, TidyTame DEF Tame
<1>3. Tame(u, w) /\ PromptsBut(u, w, {r}) /\ NoPromptMore(u, w)
  <2>1. CASE ok
    BY <2>1, TameItself, PromptsButSelf
  <2>2. CASE ~ok
    <3>1. w = Tidy(d)
      BY <2>2
    <3> HIDE DEF w
    <3> QED BY <1>1, <1>2, <3>1, TameTransitive, PromptsButTransitive, PromptsButSelf DEF NoPromptMore
  <2> QED BY <2>1, <2>2
<1>4. v = IF Flights(w, r) = {} THEN w ELSE Tidy(RecordStep(TakeFlight(w, Owner(r), f), Owner(r), f, outcome))
  BY DEF StepFinished, d
<1>5. (Flights(w, r) # {} => f \in Flights(w, r)) /\ outcome \in Outcomes
  BY DEF Outcomes
<1> HIDE DEF w, f, outcome
<1>6. Tame(w, v) /\ PromptsKept(w, v)
  <2>1. CASE Flights(w, r) = {}
    BY <1>3, <1>4, <2>1, TameItself DEF Tame
  <2>2. CASE Flights(w, r) # {}
    BY <1>3, <1>4, <1>5, <2>2, FlightRecorded DEF Tame
  <2> QED BY <2>1, <2>2
<1> HIDE DEF v
<1>7. Tame(u, v) /\ PromptsBut(u, v, {r}) /\ NoPromptMore(u, v)
  BY <1>3, <1>6, TameTransitive, PromptsButTransitive, PromptsButSelf DEF NoPromptMore
<1> QED BY <1>7 DEF v

\* The prompts and flights of every dialog become fewer.
LEMMA FewerInAll ==
    ASSUME NEW u, Good(u), NEW s \in [Dialogs -> Seq(Prompts)], NEW e,
           \A id \in Dialogs : /\ e[id] \in SUBSET u.proc[id].flight
                               /\ u.proc[id].prompts = <<>> => s[id] = <<>>,
           NEW f, f = [id \in Dialogs |-> Fewer(u.proc[id], s[id], e[id])]
    PROVE  Tame(u, Redrawn(u, f, u.foreground))
<1> DEFINE v == Redrawn(u, f, u.foreground)
<1>1. u \in Uis /\ u.foreground \in Dialogs \union {NoDialog}
  BY FieldTypes DEF Good
<1>2. ASSUME NEW id \in Dialogs
      PROVE  LET p == u.proc[id]
                 q == Fewer(p, s[id], e[id])
             IN  /\ p \in DialogRecords /\ q \in DialogRecords /\ q.here = p.here /\ q.step = p.step
                 /\ q.prompts = s[id] /\ q.ended = p.ended
                 /\ q.flight = e[id] /\ q.between = p.between /\ q.minimised = p.minimised
                 /\ q.flashing = p.flashing /\ q.aside = p.aside
  <2> DEFINE p == u.proc[id]
             a == s[id]
             b == e[id]
  <2>1. p \in DialogRecords /\ a \in Seq(Prompts) /\ b \in SUBSET p.flight
    BY <1>1, FieldTypes
  <2> HIDE DEF p, a, b
  <2>2. LET q == Fewer(p, a, b)
        IN  /\ q \in DialogRecords /\ q.here = p.here /\ q.step = p.step
            /\ q.prompts = a /\ q.ended = p.ended
            /\ q.flight = b /\ q.between = p.between /\ q.minimised = p.minimised
            /\ q.flashing = p.flashing /\ q.aside = p.aside
    BY <2>1, FewerIs
  <2> QED BY <2>1, <2>2 DEF p, a, b
<1>3. f \in [Dialogs -> DialogRecords]
  BY <1>2
<1>4. v \in Uis /\ v.proc = f /\ v.foreground = u.foreground /\ SameRest(u, v)
  BY <1>1, <1>3, RedrawnIs
<1> HIDE DEF v
<1>5. \A id \in Dialogs : Called(v, id) = Called(u, id)
  BY <1>4, CalledSame DEF SameRest
<1>6. ASSUME NEW id \in Dialogs
      PROVE  /\ DialogOK(v, id) /\ (OnScreen(v, id) => OnScreen(u, id))
             /\ RecordCalm(u.proc[id], v.proc[id])
             /\ u.proc[id].between = "bad" => v.proc[id].between = "bad"
  <2> DEFINE p == u.proc[id]
             q == v.proc[id]
  <2>1. q = Fewer(p, s[id], e[id])
    BY <1>4
  <2>2. /\ p \in DialogRecords /\ q.here = p.here /\ q.step = p.step /\ q.prompts = s[id] /\ q.ended = p.ended
        /\ q.flight = e[id] /\ q.between = p.between /\ q.minimised = p.minimised
        /\ q.flashing = p.flashing /\ q.aside = p.aside
    BY <1>2, <2>1
  <2>3. DialogOK(u, id) /\ p.step \in Nat
    BY <2>2, RecordTypes DEF Good
  <2>4. e[id] \subseteq p.flight /\ (p.prompts = <<>> => s[id] = <<>>)
    OBVIOUS
  <2> HIDE DEF q
  <2>5. Sound(q, id, v.foreground = id)
    BY <1>4, <2>2, <2>3, <2>4 DEF DialogOK, Sound
  <2>6. Pressing(q, Called(v, id)) => q.here /\ Located(q, v.foreground = id)
    BY <1>4, <1>5, <2>2, <2>3, <2>4 DEF DialogOK, Pressing, Located
  <2>7. RecordCalm(p, q)
    BY <2>2, <2>3 DEF RecordCalm
  <2>8. OnScreen(v, id) => OnScreen(u, id)
    BY <1>4, <2>2 DEF OnScreen, q
  <2> QED BY <2>2, <2>5, <2>6, <2>7, <2>8 DEF DialogOK, q
<1>7. Good(v)
  BY <1>4, <1>6 DEF Good
<1>8. Follows(u, v)
  BY <1>1, <1>4, <1>6, RunningIsProc, FollowsByDialog DEF SameRest
<1> QED BY <1>4, <1>7, <1>8 DEF Tame, v

NoPrompts(u) == \A id \in Dialogs : u.proc[id].prompts = <<>>

LEMMA NoPromptsStays ==
    ASSUME NEW u, NEW v, Good(v), NoPrompts(u), NoPromptMore(u, v)
    PROVE  NoPrompts(v)
<1> SUFFICES ASSUME NEW id \in Dialogs, v.proc[id].prompts # <<>> PROVE FALSE
  BY DEF NoPrompts
<1>1. v.proc[id].prompts \in Seq(Prompts)
  BY FieldTypes, RecordTypes DEF Good
<1>2. 1 \in 1..Len(v.proc[id].prompts) /\ v.proc[id].prompts[1] \in Prompts
  BY <1>1
<1>3. HasPrompt(u, id, v.proc[id].prompts[1])
  BY <1>2 DEF NoPromptMore, HasPrompt
<1> QED BY <1>3 DEF HasPrompt, NoPrompts

LEMMA ConnectionLostTame ==
    ASSUME NEW u, Good(u)
    PROVE  Tame(u, ConnectionLost(u)) /\ NoPrompts(ConnectionLost(u))
<1> DEFINE s == [id \in Dialogs |-> <<>>]
           e == [id \in Dialogs |-> {f \in u.proc[id].flight : f.kind = "deploy"}]
           f == [id \in Dialogs |-> Fewer(u.proc[id], s[id], e[id])]
           w == Redrawn(u, f, u.foreground)
           v == ConnectionLost(u)
<1>1. u \in Uis /\ u.foreground \in Dialogs \union {NoDialog} /\ \A id \in Dialogs : u.proc[id] \in DialogRecords
  BY FieldTypes DEF Good
<1>2. \A id \in Dialogs : [u.proc[id] EXCEPT !.prompts = <<>>, !.flight = {g \in @ : g.kind = "deploy"}]
                          = Fewer(u.proc[id], s[id], e[id])
  BY <1>1 DEF Fewer, DialogRecords
<1>3. v = Tidy(w)
  <2>1. f = [id \in Dialogs |-> [u.proc[id] EXCEPT !.prompts = <<>>, !.flight = {g \in @ : g.kind = "deploy"}]]
    BY <1>2
  <2>2. [u EXCEPT !.proc = f] = w
    BY <1>1 DEF Redrawn, Uis
  <2> QED BY <2>1, <2>2 DEF ConnectionLost
<1>4. s \in [Dialogs -> Seq(Prompts)] /\ \A id \in Dialogs : /\ s[id] = <<>> /\ e[id] \in SUBSET u.proc[id].flight
  OBVIOUS
<1>5. \A id \in Dialogs : f[id].prompts = <<>> /\ f[id] \in DialogRecords
  <2> SUFFICES ASSUME NEW id \in Dialogs PROVE f[id].prompts = <<>> /\ f[id] \in DialogRecords
    OBVIOUS
  <2> DEFINE a == s[id]
             b == e[id]
             p == u.proc[id]
  <2>1. f[id] = Fewer(p, a, b) /\ a \in Seq(Prompts) /\ a = <<>> /\ b \in SUBSET p.flight /\ p \in DialogRecords
    BY <1>1, <1>4
  <2>2. a \in Seq(Prompts) /\ b \in SUBSET p.flight /\ p \in DialogRecords
    BY <2>1
  <2> HIDE DEF a, b, p, f
  <2>3. Fewer(p, a, b).prompts = a /\ Fewer(p, a, b) \in DialogRecords
    BY <2>2, FewerIs
  <2> QED BY <2>1, <2>3
<1>6. f = [id \in Dialogs |-> Fewer(u.proc[id], s[id], e[id])] /\ f \in [Dialogs -> DialogRecords]
  BY <1>5
<1> HIDE DEF s, e, f
<1>7. Tame(u, w)
  BY <1>4, <1>6, FewerInAll
<1>8. w.proc = f
  BY <1>1, <1>6, RedrawnIs
<1> HIDE DEF w
<1>9. Tame(w, v) /\ PromptsKept(w, v)
  BY <1>3, <1>7, TidyTame DEF Tame
<1> HIDE DEF v
<1>10. Tame(u, v) /\ NoPrompts(v)
  BY <1>5, <1>7, <1>8, <1>9, TameTransitive DEF NoPrompts, PromptsKept
<1> QED BY <1>10 DEF v

Marked(u, b, M) == [u EXCEPT !.lost = b, !.misled = M]

LEMMA MarkedIs ==
    ASSUME NEW u, Good(u), NEW b \in BOOLEAN, NEW M \in SUBSET Procs, u.misled \subseteq M
    PROVE  LET v == Marked(u, b, M)
           IN  /\ Good(v) /\ Follows(u, v) /\ PromptsKept(u, v) /\ v.lost = b /\ v.misled = M
               /\ v.proc = u.proc
<1> DEFINE v == Marked(u, b, M)
<1>1. u \in Uis /\ \A id \in Dialogs : u.proc[id].step \in Nat
  BY FieldTypes, RecordTypes DEF Good
<1>2. /\ v \in Uis /\ v.proc = u.proc /\ v.foreground = u.foreground /\ v.mode = u.mode /\ v.pending = u.pending
      /\ v.completed = u.completed /\ v.lost = b /\ v.misled = M
  BY <1>1 DEF Marked, Uis
<1> HIDE DEF v
<1>3. \A id \in Dialogs : Called(v, id) = Called(u, id)
  BY <1>2, CalledSame
<1>4. Good(v)
  BY <1>2, <1>3 DEF Good, DialogOK
<1>5. Follows(u, v)
  BY <1>1, <1>2, RunningIsProc DEF Follows, Calm, RecordCalm, BadKept, Quieter, OnScreen
<1> QED BY <1>2, <1>4, <1>5 DEF v, PromptsKept

LEMMA SyncedKeeps ==
    ASSUME NEW u, Good(u), NEW live \in SUBSET Procs
    PROVE  LET v == Synced(u, live)
           IN  Good(v) /\ Follows(u, v) /\ PromptsKept(u, v)
<1> DEFINE gone == {id \in Procs : u.proc[id].here /\ ~u.proc[id].ended /\ id \notin live}
           w == EndDialogs(u, gone, "unknown")
           M == w.misled \union {id \in gone : phase[id] \in {"new", "begun", "serving"}}
           v == Synced(u, live)
<1>1. gone \in SUBSET Procs /\ "unknown" \in Exits
  BY DEF Exits
<1>2. /\ Good(w) /\ SameRest(u, w) /\ BadKept(u, w) /\ Quieter(u, w) /\ PromptsKept(u, w)
      /\ \A p \in Running : p \notin gone \/ u.proc[p].ended => RecordCalm(u.proc[p], w.proc[p])
  <2> HIDE DEF gone
  <2> QED BY <1>1, EndDialogsKeeps
<1>3. w \in Uis /\ w.lost \in BOOLEAN /\ w.misled \in SUBSET Procs
  BY <1>2, FieldTypes DEF Good
<1>4. v = Marked(w, w.lost, M)
  BY <1>3 DEF Synced, Marked, Uis
<1>5. M \in SUBSET Procs /\ w.misled \subseteq M /\ \A p \in Running : p \notin M => p \notin gone
  BY <1>1, <1>3 DEF Running
<1> HIDE DEF w, M, gone
<1>6. Good(v) /\ PromptsKept(w, v) /\ v.misled = M /\ v.proc = w.proc /\ Quieter(w, v)
  BY <1>2, <1>3, <1>4, <1>5, MarkedIs DEF Follows
<1> HIDE DEF v
<1>7. Calm(u, v)
  BY <1>2, <1>5, <1>6 DEF Calm, SameRest
<1>8. BadKept(u, v) /\ Quieter(u, v) /\ PromptsKept(u, v)
  BY <1>2, <1>6 DEF BadKept, Quieter, PromptsKept
<1> QED BY <1>6, <1>7, <1>8 DEF Follows, v

EndMessages == [type : {"ended"}, proc : Procs, exit : Exits]
PromptMessages == [type : {"prompt"}, req : Prompts, n : Nat]
WithdrawnMessages == [type : {"withdrawn"}, req : Prompts]
LostMessages == [type : {"lost"}]
ListMessages == [type : {"listed"}, live : SUBSET Procs]
FinishedMessages == [type : {"finished"}, req : Prompts, ok : BOOLEAN]
Messages == StepMessages \union EndMessages \union PromptMessages \union WithdrawnMessages
            \union LostMessages \union ListMessages \union FinishedMessages

LEMMA MessageTypes ==
    ASSUME NEW m \in Messages
    PROVE  /\ m.type \in {"step", "ended", "prompt", "withdrawn", "lost", "listed", "finished"}
           /\ m.type = "step" => m \in StepMessages
           /\ m.type = "ended" => m.proc \in Procs /\ m.exit \in Exits
           /\ m.type = "prompt" => m.req \in Prompts /\ m.n \in Nat
           /\ m.type = "withdrawn" => m.req \in Prompts
           /\ m.type = "listed" => m.live \in SUBSET Procs
           /\ m.type = "finished" => m.req \in Prompts /\ m.ok \in BOOLEAN
  BY DEF Messages, StepMessages, EndMessages, PromptMessages, WithdrawnMessages, LostMessages,
         ListMessages, FinishedMessages

\* Whether the TUI knows the procedure p at step n or a later one.
Knows(u, p, n) == u.proc[p].here /\ u.proc[p].step >= n

LEMMA EventKeeps ==
    ASSUME NEW u, Good(u), NEW m \in Messages, m.type = "ended" => m.proc \notin Running
    PROVE  LET v == ApplyEvent(u, m)
           IN  /\ Good(v) /\ Follows(u, v) /\ NoPromptMore(u, v)
               /\ m.type = "step" /\ m.proc \in Running \ v.misled /\ ~u.proc[m.proc].ended => Knows(v, m.proc, m.n)
               /\ v.lost = (m.type = "lost" \/ (m.type # "listed" /\ u.lost))
               /\ m.type = "lost" /\ ~u.lost => NoPrompts(v)
<1> DEFINE v == ApplyEvent(u, m)
<1>0. /\ m.type \in {"step", "ended", "prompt", "withdrawn", "lost", "listed", "finished"}
      /\ m.type = "step" => m \in StepMessages
      /\ m.type = "ended" => m.proc \in Procs /\ m.exit \in Exits
      /\ m.type = "withdrawn" => m.req \in Prompts
      /\ m.type = "listed" => m.live \in SUBSET Procs
  BY MessageTypes
<1>1. u.lost \in BOOLEAN /\ u.misled \in SUBSET Procs
  BY FieldTypes DEF Good
<1>2. CASE m.type = "step"
  <2>1. v = ProcedureStep(u, m) /\ m \in StepMessages
    BY <1>0, <1>2 DEF ApplyEvent
  <2> HIDE DEF v
  <2>2. /\ Tame(u, v) /\ PromptsKept(u, v)
        /\ m.proc \in Running \ u.misled /\ ~u.proc[m.proc].ended => v.proc[m.proc].here /\ v.proc[m.proc].step >= m.n
    BY <2>1, ProcedureStepTame
  <2>3. v.lost = u.lost /\ v.misled = u.misled /\ Good(v) /\ Follows(u, v)
    BY <2>2 DEF Tame, SameRest
  <2>4. NoPromptMore(u, v)
    BY <2>2, PromptsButSelf
  <2> QED BY <1>1, <1>2, <2>2, <2>3, <2>4 DEF Knows, v
<1>3. CASE m.type = "ended"
  <2>1. v = EndDialogs(u, {m.proc}, m.exit)
    BY <1>3 DEF ApplyEvent, ProcedureEnded
  <2>2. {m.proc} \in SUBSET Procs /\ m.exit \in Exits
    BY <1>0, <1>3
  <2> HIDE DEF v
  <2>3. /\ Good(v) /\ SameRest(u, v) /\ BadKept(u, v) /\ Quieter(u, v) /\ PromptsKept(u, v)
        /\ \A p \in Running : p \notin {m.proc} \/ u.proc[p].ended => RecordCalm(u.proc[p], v.proc[p])
    BY <2>1, <2>2, EndDialogsKeeps
  <2>4. Calm(u, v)
    BY <1>3, <2>3 DEF Calm, SameRest
  <2>5. Follows(u, v) /\ NoPromptMore(u, v) /\ v.lost = u.lost
    BY <2>3, <2>4, PromptsButSelf DEF Follows, SameRest
  <2> QED BY <1>1, <1>3, <2>3, <2>5 DEF v
<1>4. CASE m.type = "withdrawn"
  <2>1. v = PromptMissed(u, m.req, "failed") /\ m.req \in Requests /\ "failed" \in Outcomes
    BY <1>0, <1>4 DEF ApplyEvent, Prompts, Outcomes
  <2> HIDE DEF v
  <2>2. Tame(u, v) /\ NoPromptMore(u, v)
    BY <2>1, PromptMissedTame
  <2> QED BY <1>1, <1>4, <2>2 DEF Tame, SameRest, v
<1>5. CASE m.type = "lost"
  <2> DEFINE w == IF u.lost THEN u ELSE ConnectionLost(u)
  <2>1. Tame(u, w) /\ NoPromptMore(u, w) /\ (~u.lost => NoPrompts(w))
    <3>1. Tame(u, u) /\ NoPromptMore(u, u)
      BY TameItself DEF NoPromptMore
    <3>2. Tame(u, ConnectionLost(u)) /\ NoPrompts(ConnectionLost(u))
      BY ConnectionLostTame
    <3>3. NoPromptMore(u, ConnectionLost(u))
      BY <3>2 DEF NoPrompts, NoPromptMore, HasPrompt
    <3> QED BY <3>1, <3>2, <3>3
  <2>2. v = [w EXCEPT !.lost = TRUE]
    BY <1>5 DEF ApplyEvent
  <2> HIDE DEF w
  <2>3. Good(w) /\ w \in Uis /\ w.misled \in SUBSET Procs
    BY <2>1, FieldTypes DEF Tame, Good
  <2>4. v = Marked(w, TRUE, w.misled)
    BY <2>2, <2>3 DEF Marked, Uis
  <2> HIDE DEF v
  <2>5. Good(v) /\ Follows(w, v) /\ PromptsKept(w, v) /\ v.lost = TRUE /\ v \in Uis
    BY <2>3, <2>4, MarkedIs DEF Good
  <2>6. Follows(u, v)
    BY <2>1, <2>3, <2>5, FollowsTransitive DEF Tame, Good
  <2>7. NoPromptMore(u, v) /\ (~u.lost => NoPrompts(v))
    BY <2>1, <2>5, PromptsButSelf DEF NoPromptMore, NoPrompts, PromptsKept
  <2> QED BY <1>5, <2>5, <2>6, <2>7 DEF v
<1>6. CASE m.type = "listed"
  <2> DEFINE w == IF u.lost THEN Synced(u, m.live) ELSE u
  <2>1. Good(w) /\ Follows(u, w) /\ PromptsKept(u, w)
    <3>1. Good(u) /\ Follows(u, u) /\ PromptsKept(u, u)
      BY TameItself DEF Tame
    <3> QED BY <1>0, <1>6, <3>1, SyncedKeeps
  <2>2. v = [w EXCEPT !.lost = FALSE]
    BY <1>6 DEF ApplyEvent
  <2> HIDE DEF w
  <2>3. w \in Uis /\ w.misled \in SUBSET Procs
    BY <2>1, FieldTypes DEF Good
  <2>4. v = Marked(w, FALSE, w.misled)
    BY <2>2, <2>3 DEF Marked, Uis
  <2> HIDE DEF v
  <2>5. Good(v) /\ Follows(w, v) /\ PromptsKept(w, v) /\ v.lost = FALSE /\ v \in Uis
    BY <2>1, <2>3, <2>4, MarkedIs DEF Good
  <2>6. Follows(u, v)
    BY <2>1, <2>3, <2>5, FollowsTransitive DEF Good
  <2>7. NoPromptMore(u, v)
    BY <2>1, <2>5, PromptsButSelf DEF NoPromptMore
  <2> QED BY <1>6, <2>5, <2>6, <2>7 DEF v
<1>7. CASE m.type \in {"prompt", "finished"}
  <2>1. v = u
    BY <1>7 DEF ApplyEvent
  <2>2. Follows(u, u) /\ NoPromptMore(u, u)
    BY TameItself DEF Tame, NoPromptMore
  <2> QED BY <1>1, <1>7, <2>1, <2>2
<1> QED BY <1>0, <1>2, <1>3, <1>4, <1>5, <1>6, <1>7

-----------------------------------------------------------------------------
(* Prompts and approvals.                                                  *)

\* Everything is located, but perhaps for the dialog id.
GoodBut(u, id) == /\ u \in Uis /\ Sound(u.proc[id], id, u.foreground = id)
                  /\ \A i \in Dialogs : i # id => DialogOK(u, i)

\* No approval waits for the dialog on screen, unless that shows a prompt.
Opened(u) == \A i \in Dialogs : u.mode = "browse" /\ OnScreen(u, i) /\ u.proc[i].prompts = <<>> => ~HasPending(u, i)

LEMMA PutGoodBut ==
    ASSUME NEW u, Good(u), NEW id \in Dialogs, NEW p \in DialogRecords, Sound(p, id, u.foreground = id)
    PROVE  GoodBut(Put(u, id, p), id)
<1> DEFINE v == Put(u, id, p)
<1>1. u \in Uis
  BY DEF Good
<1>2. v \in Uis /\ v.proc[id] = p /\ v.foreground = u.foreground /\ v.mode = u.mode /\ v.pending = u.pending
      /\ \A i \in Dialogs : i # id => v.proc[i] = u.proc[i]
  BY <1>1, PutIs
<1> HIDE DEF v
<1>3. \A i \in Dialogs : Called(v, i) = Called(u, i)
  BY <1>2, CalledSame
<1>4. \A i \in Dialogs : i # id => DialogOK(v, i)
  BY <1>2, <1>3 DEF DialogOK, Good
<1> QED BY <1>2, <1>4 DEF GoodBut, v

\* What arrive does: it moves the dialog id and takes others off the screen.
Moved(u, v, id) ==
    /\ Good(v) /\ Calm(u, v) /\ BadKept(u, v) /\ SameRest(u, v) /\ PromptsKept(u, v)
    /\ \A i \in Dialogs : i # id /\ OnScreen(v, i) => OnScreen(u, i)

Relocated(p, m, f, a) == [p EXCEPT !.minimised = m, !.flashing = f, !.aside = a]

LEMMA RelocatedIs ==
    ASSUME NEW p \in DialogRecords, NEW m \in BOOLEAN, NEW f \in BOOLEAN, NEW a \in BOOLEAN
    PROVE  LET q == Relocated(p, m, f, a)
           IN  /\ q \in DialogRecords /\ q.here = p.here /\ q.step = p.step /\ q.prompts = p.prompts
               /\ q.ended = p.ended /\ q.flight = p.flight /\ q.between = p.between /\ q.finished = p.finished
               /\ q.minimised = m /\ q.flashing = f /\ q.aside = a /\ q.exit = p.exit /\ q.reported = p.reported
  BY DEF DialogRecords, Relocated

Placed(u, id, q, g) == Fronted(Put(u, id, q), g)

\* The dialog of id is q and the foreground is g, and nothing else is changed.
Differs(u, v, id, q, g) ==
    /\ v \in Uis /\ SameRest(u, v) /\ v.foreground = g
    /\ v.proc[id] = q /\ \A i \in Dialogs : i # id => v.proc[i] = u.proc[i]

\* The dialog id is put elsewhere and the foreground is g.
LEMMA RelocatedUi ==
    ASSUME NEW u \in Uis, NEW id \in Dialogs, NEW g \in Dialogs \union {NoDialog}, NEW q \in DialogRecords,
           q.here = u.proc[id].here, q.step = u.proc[id].step, q.prompts = u.proc[id].prompts,
           q.ended = u.proc[id].ended, u.proc[id].between = "bad" => q.between = "bad",
           NEW v, v = Placed(u, id, q, g)
    PROVE  Differs(u, v, id, q, g) /\ PromptsKept(u, v) /\ Calm(u, v) /\ BadKept(u, v)
<1> DEFINE p == u.proc[id]
           w == Put(u, id, q)
<1>1. \A i \in Dialogs : u.proc[i] \in DialogRecords /\ u.proc[i].step \in Nat
  BY FieldTypes, RecordTypes
<1>2. v = Fronted(w, g)
  BY DEF Placed
<1>3. w \in Uis /\ SameRest(u, w) /\ w.proc[id] = q /\ \A i \in Dialogs : i # id => w.proc[i] = u.proc[i]
  BY PutIs DEF SameRest
<1> HIDE DEF w
<1>4. v \in Uis /\ SameRest(w, v) /\ v.foreground = g /\ v.proc = w.proc
  BY <1>2, <1>3, FrontedIs
<1>5. SameRest(u, v)
  BY <1>3, <1>4 DEF SameRest
<1>6. PromptsKept(u, v)
  BY <1>3, <1>4 DEF PromptsKept
<1>7. ASSUME NEW i \in Dialogs
      PROVE  /\ RecordCalm(u.proc[i], v.proc[i])
             /\ u.proc[i].between = "bad" => v.proc[i].between = "bad"
  <2>1. CASE i = id
    BY <1>1, <1>3, <1>4, <2>1 DEF RecordCalm
  <2>2. CASE i # id
    BY <1>1, <1>3, <1>4, <2>2 DEF RecordCalm
  <2> QED BY <2>1, <2>2
<1>8. Calm(u, v) /\ BadKept(u, v)
  BY <1>5, <1>7, RunningIsProc DEF Calm, BadKept, SameRest
<1> QED BY <1>3, <1>4, <1>5, <1>6, <1>8 DEF Differs

LEMMA NoticedKeeps ==
    ASSUME NEW u, NEW id \in Dialogs, GoodBut(u, id), u.proc[id].here
    PROVE  Moved(u, Noticed(u, id), id)
<1> DEFINE q == Relocated(u.proc[id], TRUE, TRUE, FALSE)
           g == IF u.foreground = id THEN NoDialog ELSE u.foreground
           v == Placed(u, id, q, g)
<1>1. u \in Uis /\ u.foreground \in Dialogs \union {NoDialog} /\ u.proc[id] \in DialogRecords
  BY FieldTypes DEF GoodBut
<1>2. Noticed(u, id) = v
  <2>1. q \in DialogRecords
    BY <1>1, RelocatedIs
  <2>2. Put(u, id, q).foreground = u.foreground
    <3> HIDE DEF q
    <3> QED BY <1>1, <2>1, PutIs
  <2> QED BY <2>2 DEF Noticed, Placed, Fronted, Relocated
<1>3. g \in Dialogs \union {NoDialog} /\ g # id /\ \A i \in Dialogs : i # id => (g = i) = (u.foreground = i)
  BY <1>1, Names
<1> HIDE DEF g
<1>3a. /\ q.here = u.proc[id].here /\ q.prompts = u.proc[id].prompts /\ q.minimised = TRUE /\ q.flashing = TRUE
       /\ q.between = u.proc[id].between /\ q.flight = u.proc[id].flight /\ q.ended = u.proc[id].ended
       /\ q \in DialogRecords /\ q.step = u.proc[id].step
  BY <1>1, RelocatedIs
<1> HIDE DEF q
<1>4. /\ v \in Uis /\ SameRest(u, v) /\ v.foreground = g /\ PromptsKept(u, v)
      /\ v.proc[id] = q /\ (\A i \in Dialogs : i # id => v.proc[i] = u.proc[i])
      /\ Calm(u, v) /\ BadKept(u, v) /\ \A i \in Dialogs : Called(v, i) = Called(u, i)
  <2> DEFINE p == u.proc[id]
  <2>1. /\ q \in DialogRecords /\ q.here = p.here /\ q.step = p.step /\ q.prompts = p.prompts
        /\ q.ended = p.ended
    BY <1>3a
  <2>2. p.between = "bad" => q.between = "bad"
    BY <1>3a
  <2>3. v = Placed(u, id, q, g)
    OBVIOUS
  <2> HIDE DEF v, p
  <2>4. Differs(u, v, id, q, g) /\ PromptsKept(u, v) /\ Calm(u, v) /\ BadKept(u, v)
    BY <1>1, <1>3, <2>1, <2>2, <2>3, RelocatedUi DEF p
  <2>5. \A i \in Dialogs : Called(v, i) = Called(u, i)
    BY <2>4, CalledSame DEF Differs, SameRest
  <2> QED BY <2>4, <2>5 DEF Differs
<1> HIDE DEF v
<1>6. DialogOK(v, id)
  BY <1>3, <1>3a, <1>4 DEF GoodBut, DialogOK, Sound, Located
<1>7. \A i \in Dialogs : i # id => DialogOK(v, i)
  BY <1>3, <1>4 DEF GoodBut, DialogOK
<1>8. \A i \in Dialogs : i # id /\ OnScreen(v, i) => OnScreen(u, i)
  BY <1>3, <1>4 DEF OnScreen
<1>9. Moved(u, v, id)
  BY <1>4, <1>6, <1>7, <1>8 DEF Moved, Good
<1> QED BY <1>2, <1>9 DEF v

LEMMA RaisedKeeps ==
    ASSUME NEW u, NEW id \in Dialogs, GoodBut(u, id), u.proc[id].here,
           \A i \in Dialogs : i # id /\ u.foreground = i => ~Insisting(u.proc[i], Called(u, i))
    PROVE  LET v == Raised(u, id)
           IN  /\ Untidy(v) /\ Calm(u, v) /\ BadKept(u, v) /\ SameRest(u, v) /\ PromptsKept(u, v)
               /\ v.foreground = id /\ OnScreen(v, id)
<1> DEFINE q == Relocated(u.proc[id], FALSE, FALSE, FALSE)
           v == Placed(u, id, q, id)
<1>1. u \in Uis /\ u.foreground \in Dialogs \union {NoDialog} /\ u.proc[id] \in DialogRecords
  BY FieldTypes DEF GoodBut
<1>2. Raised(u, id) = v
  BY DEF Raised, Placed, Fronted, Relocated
<1>2a. /\ q.here = u.proc[id].here /\ q.prompts = u.proc[id].prompts /\ q.minimised = FALSE
       /\ q.between = u.proc[id].between /\ q.flight = u.proc[id].flight /\ q.ended = u.proc[id].ended
       /\ q \in DialogRecords /\ q.step = u.proc[id].step
  BY <1>1, RelocatedIs
<1> HIDE DEF q
<1>3. /\ v \in Uis /\ SameRest(u, v) /\ v.foreground = id /\ PromptsKept(u, v)
      /\ v.proc[id] = q /\ (\A i \in Dialogs : i # id => v.proc[i] = u.proc[i])
      /\ Calm(u, v) /\ BadKept(u, v) /\ \A i \in Dialogs : Called(v, i) = Called(u, i)
  <2> DEFINE p == u.proc[id]
  <2>1. /\ q \in DialogRecords /\ q.here = p.here /\ q.step = p.step /\ q.prompts = p.prompts
        /\ q.ended = p.ended
    BY <1>2a
  <2>2. p.between = "bad" => q.between = "bad"
    BY <1>2a
  <2>3. v = Placed(u, id, q, id) /\ id \in Dialogs \union {NoDialog}
    OBVIOUS
  <2> HIDE DEF v, p
  <2>4. Differs(u, v, id, q, id) /\ PromptsKept(u, v) /\ Calm(u, v) /\ BadKept(u, v)
    BY <1>1, <2>1, <2>2, <2>3, RelocatedUi DEF p
  <2>5. \A i \in Dialogs : Called(v, i) = Called(u, i)
    BY <2>4, CalledSame DEF Differs, SameRest
  <2> QED BY <2>4, <2>5 DEF Differs
<1> HIDE DEF v
<1>5. DialogUntidy(v, id)
  BY <1>2a, <1>3 DEF GoodBut, DialogUntidy, Sound, Located
<1>6. ASSUME NEW i \in Dialogs, i # id PROVE DialogUntidy(v, i)
  <2>1. DialogOK(u, i) /\ v.proc[i] = u.proc[i] /\ Called(v, i) = Called(u, i) /\ v.foreground # i
    BY <1>3, <1>6 DEF GoodBut
  <2>2. Sound(v.proc[i], i, v.foreground = i)
    BY <2>1 DEF DialogOK, Sound
  <2>3. Insisting(u.proc[i], Called(u, i)) => u.proc[i].here /\ Located(u.proc[i], u.foreground = i) /\ u.foreground # i
    BY <1>6, <2>1 DEF DialogOK, Pressing, Insisting
  <2> QED BY <2>1, <2>2, <2>3 DEF DialogUntidy, Located
<1>7. Untidy(v)
  BY <1>3, <1>5, <1>6 DEF Untidy
<1>8. OnScreen(v, id)
  BY <1>2a, <1>3 DEF OnScreen
<1> QED BY <1>2, <1>3, <1>7, <1>8 DEF v

LEMMA ArriveKeeps ==
    ASSUME NEW u, NEW id \in Dialogs, GoodBut(u, id), u.proc[id].here,
           \A i \in Dialogs : i # id /\ u.mode = "browse" /\ OnScreen(u, i) /\ u.proc[i].prompts = <<>>
                              => ~HasPending(u, i)
    PROVE  Moved(u, Arrive(u, id), id)
<1>0. u \in Uis /\ u.mode \in Modes
  BY FieldTypes DEF GoodBut
<1>1. CASE OnScreen(u, id)
  <2>1. Arrive(u, id) \in {u, Noticed(u, id)}
    BY <1>1 DEF Arrive
  <2>2. Moved(u, u, id)
    <3>1. DialogOK(u, id)
      BY <1>1 DEF GoodBut, DialogOK, OnScreen, Located
    <3>2. Good(u)
      BY <1>0, <3>1 DEF GoodBut, Good
    <3> QED BY <3>2, TameItself DEF Moved, Tame, Follows
  <2> QED BY <2>1, <2>2, NoticedKeeps
<1>2. CASE ~OnScreen(u, id) /\ ForegroundBusy(u)
  BY <1>2, NoticedKeeps DEF Arrive
<1>3. CASE ~OnScreen(u, id) /\ ~ForegroundBusy(u)
  <2> DEFINE w == Raised(u, id)
             v == Tidy(w)
  <2>1. Arrive(u, id) = v
    BY <1>3 DEF Arrive
  <2>2. u.mode = "browse" /\ ~ShownPrompt(u)
    BY <1>3 DEF ForegroundBusy
  <2>3. ASSUME NEW i \in Dialogs, i # id, u.foreground = i PROVE ~Insisting(u.proc[i], Called(u, i))
    <3>1. DialogOK(u, i) /\ i # NoDialog
      BY <2>3, Names DEF GoodBut
    <3>2. OnScreen(u, i)
      BY <2>3, <3>1 DEF DialogOK, Sound, OnScreen
    <3>3. u.proc[i].prompts = <<>>
      BY <2>2, <2>3, <3>1, <3>2 DEF ShownPrompt
    <3>4. ~Called(u, i)
      BY <2>2, <2>3, <3>2, <3>3, Names DEF Called, ApprovalOf
    <3>5. u.proc[i].between # "none" => BetweenShown(u)
      BY <2>2, <2>3, <3>1, <3>2, <3>3 DEF BetweenShown
    <3>6. u.proc[i].between \in {"none", "ok"} /\ (u.proc[i].between = "ok" => ~Warned(u.proc[i]))
      BY <1>3, <2>3, <3>5 DEF ForegroundBusy
    <3> QED BY <3>3, <3>4, <3>6 DEF Insisting
  <2>4. /\ Untidy(w) /\ Calm(u, w) /\ BadKept(u, w) /\ SameRest(u, w) /\ PromptsKept(u, w)
        /\ w.foreground = id
    BY <2>3, RaisedKeeps
  <2> HIDE DEF w
  <2>5. Good(v) /\ Follows(w, v) /\ SameRest(w, v) /\ PromptsKept(w, v)
    BY <2>4, TidyKeeps, TidyKeepsPrompts
  <2> HIDE DEF v
  <2>6. Calm(u, v)
    BY <1>0, <2>4, <2>5, CalmTransitive DEF Follows, Good, Untidy
  <2>7. BadKept(u, v) /\ SameRest(u, v) /\ PromptsKept(u, v)
    BY <2>4, <2>5 DEF BadKept, SameRest, PromptsKept, Follows
  <2>8. \A i \in Dialogs : i # id /\ OnScreen(v, i) => OnScreen(u, i)
    BY <2>4, <2>5 DEF Follows, Quieter, OnScreen
  <2> QED BY <2>1, <2>5, <2>6, <2>7, <2>8 DEF Moved
<1> QED BY <1>1, <1>2, <1>3

\* What offering the prompt r makes of a UI.
Offered(u, v, r) ==
    /\ Good(v) /\ Opened(v) /\ Calm(u, v) /\ SameRest(u, v) /\ PromptsBut(u, v, {})
    /\ \A id \in Dialogs, q \in Prompts : HasPrompt(v, id, q) => HasPrompt(u, id, q) \/ q = r
    /\ \A p \in Procs : u.proc[p].between = "bad" => v.proc[p].between = "bad" \/ HasPrompt(v, p, r)

LEMMA OfferPromptKeeps ==
    ASSUME NEW u, Good(u), Opened(u), NEW m, m.req \in Prompts, m.n \in Nat
    PROVE  Offered(u, OfferPrompt(u, m), m.req)
<1> DEFINE r == m.req
           n == m.n
           id == Owner(r)
           known == u.proc[id].here
           e == Ensure(u, id, n)
           v == IF r \in Confirmations /\ known THEN u ELSE e
           first == v.proc[id].prompts = <<>>
           kind == IF r \in Confirmations THEN "confirm" ELSE "ask"
           flight == [req |-> r, n |-> n, kind |-> kind, denied |-> FALSE]
           p == v.proc[id]
           fl == IF Implicit(id) THEN p.flight ELSE p.flight \union {flight}
           bt == IF Implicit(id) THEN p.between ELSE "none"
           pr == Append(p.prompts, r)
           q == [p EXCEPT !.prompts = pr, !.flight = fl, !.between = bt]
           w == Put(v, id, q)
           z == IF first THEN Arrive(w, id) ELSE w
<1>1. r \in Prompts /\ r \in Requests /\ n \in Nat /\ id \in Dialogs
  BY Names DEF Prompts
<1>2. OfferPrompt(u, m) = z
  BY DEF OfferPrompt
<1>3. flight \in InFlights
  BY <1>1 DEF InFlights
<1> HIDE DEF r, n, id, flight
<1>4. /\ Good(v) /\ Follows(u, v) /\ SameRest(u, v) /\ PromptsKept(u, v) /\ v.foreground = u.foreground
      /\ v.proc[id].here /\ \A i \in Dialogs : v.proc[i].minimised = u.proc[i].minimised
  <2>1. CASE r \in Confirmations /\ known
    BY <2>1, TameItself DEF Tame
  <2>2. CASE ~(r \in Confirmations /\ known)
    <3>1. v = e
      BY <2>2
    <3>2. /\ Good(e) /\ Follows(u, e) /\ SameRest(u, e) /\ e.foreground = u.foreground
          /\ e.proc[id].here /\ e.proc[id].prompts = u.proc[id].prompts
          /\ e.proc[id].minimised = u.proc[id].minimised
          /\ \A i \in Dialogs : i # id => e.proc[i] = u.proc[i]
      BY <1>1, EnsureKeeps
    <3> HIDE DEF e, v
    <3>3. PromptsKept(u, e) /\ \A i \in Dialogs : e.proc[i].minimised = u.proc[i].minimised
      BY <3>2 DEF PromptsKept
    <3> QED BY <3>1, <3>2, <3>3
  <2> QED BY <2>1, <2>2
<1> HIDE DEF v
<1>5. v \in Uis /\ p \in DialogRecords /\ DialogOK(v, id) /\ p.step \in Nat
  BY <1>1, <1>4, FieldTypes, RecordTypes DEF Good
<1>6. fl \in SUBSET InFlights /\ bt \in Betweens /\ pr \in Seq(Prompts) /\ Len(pr) = Len(p.prompts) + 1
      /\ pr[Len(pr)] = r /\ pr # <<>> /\ Len(pr) \in 1..Len(pr)
      /\ (\A i \in 1..Len(p.prompts) : pr[i] = p.prompts[i] /\ i \in 1..Len(pr))
      /\ \A i \in 1..Len(pr) : i = Len(pr) \/ i \in 1..Len(p.prompts)
  <2> DEFINE s == p.prompts
  <2>1. s \in Seq(Prompts) /\ p.flight \in SUBSET InFlights /\ p.between \in Betweens
    BY <1>5, RecordTypes
  <2>2. fl \in SUBSET InFlights /\ bt \in Betweens
    BY <1>3, <2>1 DEF Betweens
  <2> HIDE DEF s
  <2>3. LET a == Append(s, r) IN
        /\ a \in Seq(Prompts) /\ Len(a) = Len(s) + 1 /\ a[Len(a)] = r /\ a # <<>> /\ Len(a) \in 1..Len(a)
        /\ (\A i \in 1..Len(s) : a[i] = s[i] /\ i \in 1..Len(a))
        /\ \A i \in 1..Len(a) : i = Len(a) \/ i \in 1..Len(s)
    BY <1>1, <2>1
  <2> QED BY <2>2, <2>3 DEF s
<1>7. Implicit(id) => bt = "none" /\ fl = {}
  BY <1>5 DEF DialogOK, Sound
<1>8. bt \notin {"ok", "bad"}
  BY <1>7
<1> HIDE DEF fl, bt, pr
<1>9. /\ q \in DialogRecords /\ q.here = p.here /\ q.step = p.step /\ q.prompts = pr /\ q.ended = p.ended
      /\ q.flight = fl /\ q.between = bt /\ q.minimised = p.minimised /\ q.flashing = p.flashing
      /\ q.aside = p.aside
  BY <1>5, <1>6 DEF DialogRecords
<1> HIDE DEF q
<1>10. Sound(q, id, v.foreground = id)
  BY <1>4, <1>5, <1>6, <1>7, <1>8, <1>9 DEF DialogOK, Sound
<1>11. GoodBut(w, id)
  BY <1>1, <1>4, <1>9, <1>10, PutGoodBut
<1>12. /\ w \in Uis /\ w.proc[id] = q /\ (\A i \in Dialogs : i # id => w.proc[i] = v.proc[i])
       /\ w.foreground = v.foreground /\ SameRest(v, w)
  BY <1>1, <1>5, <1>9, PutIs DEF SameRest
<1> HIDE DEF w
<1>13. Calm(v, w)
  <2>1. \A i \in Dialogs : v.proc[i].step \in Nat
    BY <1>5, FieldTypes, RecordTypes
  <2>2. ASSUME NEW i \in Dialogs PROVE RecordCalm(v.proc[i], w.proc[i])
    <3>1. CASE i = id
      BY <1>5, <1>9, <1>12, <3>1 DEF RecordCalm
    <3>2. CASE i # id
      BY <1>12, <2>1, <3>2 DEF RecordCalm
    <3> QED BY <3>1, <3>2
  <2> QED BY <1>12, <2>2, RunningIsProc DEF Calm, SameRest
<1>14. \A i \in Dialogs : OnScreen(w, i) => OnScreen(u, i)
  BY <1>4, <1>9, <1>12 DEF OnScreen
<1>15. Moved(w, z, id)
  <2>1. CASE first
    <3>1. \A i \in Dialogs : i # id /\ w.mode = "browse" /\ OnScreen(w, i) /\ w.proc[i].prompts = <<>>
                             => ~HasPending(w, i)
      BY <1>4, <1>12, <1>14 DEF Opened, SameRest, HasPending, PromptsKept
    <3>2. w.proc[id].here
      BY <1>4, <1>9, <1>12
    <3> QED BY <1>1, <1>11, <2>1, <3>1, <3>2, ArriveKeeps
  <2>2. CASE ~first
    <3>1. Located(p, v.foreground = id)
      BY <1>5, <2>2 DEF DialogOK, Pressing
    <3>2. DialogOK(w, id)
      BY <1>4, <1>9, <1>10, <1>12, <3>1 DEF DialogOK, Located
    <3>3. Good(w)
      BY <1>11, <3>2 DEF GoodBut, Good
    <3> QED BY <2>2, <3>3, TameItself DEF Moved, Tame, Follows
  <2> QED BY <2>1, <2>2
<1> HIDE DEF z
<1>16. Calm(u, z)
  <2>1. u \in Uis /\ z \in Uis
    BY <1>15 DEF Good, Moved
  <2> QED BY <1>4, <1>5, <1>12, <1>13, <1>15, <2>1, CalmTransitive DEF Follows, Moved
<1>17. SameRest(u, z)
  BY <1>4, <1>12, <1>15 DEF SameRest, Moved
<1>18. ASSUME NEW i \in Dialogs
       PROVE  /\ \A x \in Prompts : HasPrompt(u, i, x) => HasPrompt(z, i, x)
              /\ \A x \in Prompts : HasPrompt(z, i, x) => HasPrompt(u, i, x) \/ x = r
              /\ i = id => HasPrompt(z, i, r) /\ z.proc[i].prompts # <<>>
              /\ i # id => z.proc[i].prompts = u.proc[i].prompts
  <2>1. z.proc[i].prompts = w.proc[i].prompts /\ v.proc[i].prompts = u.proc[i].prompts
    BY <1>4, <1>15 DEF Moved, PromptsKept
  <2>2. CASE i = id
    <3>1. z.proc[i].prompts = pr
      BY <1>9, <1>12, <2>1, <2>2
    <3> QED BY <1>6, <2>1, <2>2, <3>1 DEF HasPrompt
  <2>3. CASE i # id
    BY <1>12, <2>1, <2>3 DEF HasPrompt
  <2> QED BY <2>2, <2>3
<1>19. PromptsBut(u, z, {})
  BY <1>18 DEF PromptsBut
<1>20. Opened(z)
  BY <1>14, <1>15, <1>17, <1>18 DEF Opened, Moved, SameRest, HasPending
<1>21. ASSUME NEW i \in Procs, u.proc[i].between = "bad" PROVE z.proc[i].between = "bad" \/ HasPrompt(z, i, r)
  <2>1. i \in Dialogs
    BY RunningIsProc
  <2>2. CASE i = id
    BY <1>18, <2>1, <2>2
  <2>3. CASE i # id
    BY <1>4, <1>12, <1>15, <1>21, <2>1, <2>3 DEF Follows, BadKept, Moved
  <2> QED BY <2>2, <2>3
<1> QED BY <1>2, <1>15, <1>16, <1>17, <1>18, <1>19, <1>20, <1>21 DEF Offered, Moved, r

LEMMA RemoveAtIs ==
    ASSUME NEW T, NEW s \in Seq(T), NEW i \in 1..Len(s)
    PROVE  /\ RemoveAt(s, i) \in Seq(T) /\ Len(RemoveAt(s, i)) = Len(s) - 1
           /\ \A j \in 1..Len(RemoveAt(s, i)) : \E k \in 1..Len(s) : RemoveAt(s, i)[j] = s[k]
           /\ \A k \in 1..Len(s) : k # i => \E j \in 1..Len(RemoveAt(s, i)) : RemoveAt(s, i)[j] = s[k]
<1> DEFINE a == SubSeq(s, 1, i - 1)
           b == SubSeq(s, i + 1, Len(s))
           c == a \o b
<1>1. a \in Seq(T) /\ Len(a) = i - 1 /\ \A j \in 1..(i - 1) : a[j] = s[j]
  OBVIOUS
<1>2. b \in Seq(T) /\ Len(b) = Len(s) - i /\ \A j \in 1..(Len(s) - i) : b[j] = s[i + j]
  OBVIOUS
<1> HIDE DEF a, b
<1>3. c \in Seq(T) /\ Len(c) = Len(s) - 1
  <2>1. c \in Seq(T) /\ Len(c) = Len(a) + Len(b)
    BY <1>1, <1>2, ConcatProperties
  <2>2. Len(s) \in Nat
    OBVIOUS
  <2> HIDE DEF c
  <2> QED BY <1>1, <1>2, <2>1, <2>2
<1>4. ASSUME NEW j \in 1..Len(c) PROVE c[j] = IF j < i THEN s[j] ELSE s[j + 1]
  <2>1. Len(s) \in Nat /\ i \in Nat /\ j \in Nat /\ j <= Len(s) - 1 /\ j \in 1..(Len(a) + Len(b))
    <3> HIDE DEF c
    <3> QED BY <1>1, <1>2, <1>3
  <2>2. c[j] = IF j <= Len(a) THEN a[j] ELSE b[j - Len(a)]
    BY <1>1, <1>2, <2>1, ConcatProperties
  <2> HIDE DEF c
  <2>3. CASE j < i
    <3>1. j \in 1..(i - 1) /\ j <= Len(a)
      BY <1>1, <2>1, <2>3
    <3> QED BY <1>1, <2>2, <2>3, <3>1
  <2>4. CASE ~(j < i)
    <3>1. ~(j <= Len(a)) /\ j - Len(a) \in 1..(Len(s) - i) /\ i + (j - Len(a)) = j + 1
      BY <1>1, <2>1, <2>4
    <3> QED BY <1>2, <2>2, <2>4, <3>1
  <2> QED BY <2>3, <2>4
<1>5. c = RemoveAt(s, i)
  BY DEF RemoveAt, a, b
<1> HIDE DEF c
<1>6. \A j \in 1..Len(c) : \E k \in 1..Len(s) : c[j] = s[k]
  BY <1>3, <1>4
<1>7. ASSUME NEW k \in 1..Len(s), k # i PROVE \E j \in 1..Len(c) : c[j] = s[k]
  <2>1. CASE k < i
    BY <1>3, <1>4, <2>1
  <2>2. CASE k > i
    <3>1. k - 1 \in 1..Len(c) /\ ~(k - 1 < i) /\ (k - 1) + 1 = k
      BY <1>3, <2>2
    <3> QED BY <1>4, <3>1
  <2> QED BY <1>7, <2>1, <2>2
<1> QED BY <1>3, <1>5, <1>6, <1>7

\* No approval waits for the dialog on screen.
Settled(u) == \A i \in Dialogs : u.mode = "browse" /\ OnScreen(u, i) => ~HasPending(u, i)

\* The claims the TUI has are at most one, of D.
InHand(u, D) == /\ \A i \in 1..Len(u.pending) : u.pending[i] \in D
                /\ u.mode \in Deployments => u.mode \in D /\ u.pending = <<>>
                /\ Len(u.pending) <= 1

\* What show_pending_approval and the other changes of the mode keep.
SameMarks(u, v) == v.completed = u.completed /\ v.cancelled = u.cancelled /\ v.lost = u.lost /\ v.misled = u.misled

Shown(u, v) ==
    /\ Good(v) /\ Settled(v) /\ Calm(u, v) /\ BadKept(u, v) /\ PromptsKept(u, v) /\ SameMarks(u, v)
    /\ \A i \in Dialogs : Called(v, i) = Called(u, i)
    /\ \A D \in SUBSET Deployments : InHand(u, D) => InHand(v, D)

LEMMA SwitchedKeeps ==
    ASSUME NEW u, Good(u), NEW m \in Modes, NEW s \in Seq(Deployments), NEW v, v = Switched2(u, m, s),
           \A i \in Dialogs : Called(v, i) => Called(u, i)
    PROVE  Good(v) /\ Calm(u, v) /\ BadKept(u, v) /\ PromptsKept(u, v) /\ SameMarks(u, v)
           /\ v.mode = m /\ v.pending = s /\ v.foreground = u.foreground /\ v.proc = u.proc
<1>1. u \in Uis /\ \A i \in Dialogs : u.proc[i].step \in Nat
  BY FieldTypes, RecordTypes DEF Good
<1>2. v \in Uis /\ v.mode = m /\ v.pending = s /\ SameDialogs(u, v)
  BY <1>1, SwitchedIs
<1>3. v.foreground = u.foreground /\ v.proc = u.proc /\ SameMarks(u, v) /\ PromptsKept(u, v)
  BY <1>2 DEF SameDialogs, SameMarks, PromptsKept
<1>4. \A i \in Dialogs : DialogOK(v, i)
  <2> SUFFICES ASSUME NEW i \in Dialogs PROVE DialogOK(v, i)
    OBVIOUS
  <2>1. DialogOK(u, i) /\ (Called(v, i) => Called(u, i))
    BY DEF Good
  <2> QED BY <1>3, <2>1 DEF DialogOK, Pressing
<1>5. Calm(u, v) /\ BadKept(u, v)
  BY <1>1, <1>3, RunningIsProc DEF Calm, RecordCalm, BadKept, SameMarks
<1> QED BY <1>2, <1>3, <1>4, <1>5 DEF Good

LEMMA ShowPendingKeeps ==
    ASSUME NEW u, Untidy(u)
    PROVE  Shown(u, ShowPending(u))
<1> DEFINE t == Tidy(u)
           mine == {i \in DOMAIN t.pending : t.foreground # NoDialog /\ OnScreen(t, t.foreground)
                                             /\ Owner(t.pending[i]) = t.foreground}
           i == CHOOSE i \in mine : \A j \in mine : i <= j
           opens == t.mode = "browse" /\ mine # {}
           s == RemoveAt(t.pending, i)
           d == t.pending[i]
           v == ShowPending(u)
<1>0. Good(t) /\ Follows(u, t) /\ SameRest(u, t) /\ PromptsKept(u, t) /\ t \in Uis /\ u \in Uis
  BY TidyKeeps, TidyKeepsPrompts DEF Good, Untidy
<1>1. v = IF opens THEN [t EXCEPT !.mode = t.pending[i], !.pending = RemoveAt(@, i)] ELSE t
  BY DEF ShowPending
<1>2. mine \in SUBSET (0..Len(t.pending)) /\ \A j \in mine : j \in 1..Len(t.pending) /\ Owner(t.pending[j]) = t.foreground
  BY <1>0, FieldTypes
<1>3. \A j \in 1..Len(t.pending) : t.foreground # NoDialog /\ OnScreen(t, t.foreground) /\ Owner(t.pending[j]) = t.foreground => j \in mine
  BY <1>0, FieldTypes
<1>4. t.mode \in Modes /\ t.pending \in Seq(Deployments)
  BY <1>0, FieldTypes
<1>5. \A k \in Dialogs : Called(t, k) = Called(u, k)
  BY <1>0, CalledSame DEF SameRest
<1> HIDE DEF t, mine
<1>6. mine # {} => i \in mine
  <2>1. ASSUME mine # {} PROVE \E k \in mine : \A j \in mine : k <= j
    <3>1. Len(t.pending) \in Nat
      BY <1>4
    <3>2. PICK k \in mine : \A j \in 0..(k - 1) : j \notin mine
      BY <1>2, <2>1, <3>1, FirstExists
    <3> QED BY <1>2, <3>1, <3>2
  <2> QED BY <2>1
<1> HIDE DEF i
<1>7. CASE ~opens
  <2>1. v = t
    BY <1>1, <1>7
  <2>2. Settled(t)
    <3> SUFFICES ASSUME NEW k \in Dialogs, t.mode = "browse", OnScreen(t, k), HasPending(t, k) PROVE FALSE
      BY DEF Settled
    <3>1. PICK j \in DOMAIN t.pending : Owner(t.pending[j]) = k
      BY DEF HasPending
    <3>2. t.foreground = k /\ k # NoDialog /\ j \in 1..Len(t.pending)
      BY <1>4, Names DEF OnScreen
    <3> QED BY <1>3, <1>7, <3>1, <3>2
  <2>3. \A D \in SUBSET Deployments : InHand(u, D) => InHand(t, D)
    BY <1>0 DEF InHand, SameRest
  <2>4. Shown(u, t)
    BY <1>0, <1>5, <2>2, <2>3 DEF Shown, Follows, SameMarks, SameRest
  <2> QED BY <2>1, <2>4 DEF v
<1>8. CASE opens
  <2> DEFINE w == Switched2(t, d, s)
  <2>1. i \in mine /\ i \in 1..Len(t.pending) /\ t.mode = "browse" /\ Owner(d) = t.foreground
    BY <1>2, <1>6, <1>8
  <2>2. v = w
    BY <1>0, <1>1, <1>8 DEF Switched2, Uis
  <2>3. /\ s \in Seq(Deployments) /\ Len(s) = Len(t.pending) - 1
        /\ \A j \in 1..Len(s) : \E k \in 1..Len(t.pending) : s[j] = t.pending[k]
        /\ \A k \in 1..Len(t.pending) : k # i => \E j \in 1..Len(s) : s[j] = t.pending[k]
    BY <1>4, <2>1, RemoveAtIs
  <2>4. d \in Deployments /\ d \in Modes /\ d # "browse"
    BY <1>4, <2>1, Names DEF Modes
  <2>5. DOMAIN t.pending = 1..Len(t.pending) /\ DOMAIN s = 1..Len(s)
    BY <1>4, <2>3
  <2> HIDE DEF s
  <2>6. w.mode = d /\ w.pending = s /\ w.foreground = t.foreground /\ w.proc = t.proc
    BY <1>0, <2>3, <2>4, SwitchedIs DEF SameDialogs
  <2> HIDE DEF w
  <2>7. ASSUME NEW k \in Dialogs PROVE Called(w, k) <=> Called(t, k)
    <3>1. HasPending(w, k) => HasPending(t, k)
      <4> SUFFICES ASSUME HasPending(w, k) PROVE HasPending(t, k)
        OBVIOUS
      <4>1. PICK j \in 1..Len(s) : Owner(s[j]) = k
        BY <2>5, <2>6 DEF HasPending
      <4>2. PICK l \in 1..Len(t.pending) : s[j] = t.pending[l]
        BY <2>3
      <4> QED BY <2>5, <4>1, <4>2 DEF HasPending
    <3>2. HasPending(t, k) => HasPending(w, k) \/ Owner(d) = k
      <4> SUFFICES ASSUME HasPending(t, k), Owner(d) # k PROVE HasPending(w, k)
        OBVIOUS
      <4>1. PICK l \in 1..Len(t.pending) : Owner(t.pending[l]) = k
        BY <2>5 DEF HasPending
      <4>2. PICK j \in 1..Len(s) : s[j] = t.pending[l]
        BY <2>3, <4>1
      <4> QED BY <2>5, <2>6, <4>1, <4>2 DEF HasPending
    <3>3. ApprovalOf(w, k) <=> Owner(d) = k
      BY <2>4, <2>6 DEF ApprovalOf
    <3>4. Owner(d) = k => HasPending(t, k)
      BY <2>1, <2>5 DEF HasPending
    <3>5. ~ApprovalOf(t, k)
      BY <2>1, Names DEF ApprovalOf
    <3> QED BY <3>1, <3>2, <3>3, <3>4, <3>5 DEF Called
  <2>8. \A k \in Dialogs : Called(w, k) = Called(t, k)
    BY <2>7 DEF Called
  <2>9. Good(w) /\ Calm(t, w) /\ BadKept(t, w) /\ PromptsKept(t, w) /\ SameMarks(t, w)
    BY <1>0, <2>3, <2>4, <2>7, SwitchedKeeps DEF w
  <2>10. Settled(w)
    BY <2>4, <2>6 DEF Settled
  <2>11. ASSUME NEW D \in SUBSET Deployments, InHand(u, D) PROVE InHand(w, D)
    <3>1. InHand(t, D)
      BY <1>0, <2>11 DEF InHand, SameRest
    <3>2. d \in D /\ Len(s) = 0
      <4>1. d \in D /\ Len(t.pending) <= 1
        BY <2>1, <3>1 DEF InHand
      <4>2. Len(t.pending) \in Nat /\ i \in 1..Len(t.pending) /\ Len(s) = Len(t.pending) - 1
        BY <1>4, <2>1, <2>3
      <4> DEFINE n == Len(t.pending)
                 l == Len(s)
      <4>3. n \in Nat /\ i \in 1..n /\ n <= 1 /\ l = n - 1
        BY <4>1, <4>2
      <4> HIDE DEF n, l
      <4>4. l = 0
        BY <4>3
      <4> QED BY <4>1, <4>4 DEF l
    <3>3. s = <<>>
      BY <2>3, <3>2
    <3> QED BY <2>6, <3>2, <3>3 DEF InHand
  <2>12. Calm(u, w)
    BY <1>0, <2>9, CalmTransitive DEF Follows, Good
  <2>13. BadKept(u, w) /\ PromptsKept(u, w) /\ SameMarks(u, w)
    BY <1>0, <2>9 DEF BadKept, PromptsKept, SameMarks, SameRest, Follows
  <2>14. Shown(u, w)
    BY <1>5, <2>8, <2>9, <2>10, <2>11, <2>12, <2>13 DEF Shown
  <2> QED BY <2>2, <2>14 DEF v
<1> QED BY <1>7, <1>8

-----------------------------------------------------------------------------
(* One pass over the messages.                                             *)

TakenIn(pass, u, ms, f) ==
    f = [i \in 0..Len(ms) |-> IF i = 0 THEN u ELSE TakeIn(pass, f[i - 1], ms, i)]

\* h is what a pass over ms makes of u, message by message, within S.
PassOf(pass, S, u, ms, h) ==
    /\ h \in [0..Len(ms) -> S] /\ h[0] = u /\ Taken(pass, u, ms) = h[Len(ms)]
    /\ \A i \in 1..Len(ms) : h[i] = TakeIn(pass, h[i - 1], ms, i)

LEMMA PassExists ==
    ASSUME NEW pass, NEW ms, Len(ms) \in Nat, NEW S, NEW u \in S,
           \A i \in 1..Len(ms), x \in S : TakeIn(pass, x, ms, i) \in S
    PROVE  \E h : PassOf(pass, S, u, ms, h)
<1> DEFINE n == Len(ms)
           F == [y \in (1..n) \X S |-> TakeIn(pass, y[2], ms, y[1])]
           k == CHOOSE f : TakenIn(pass, u, ms, f)
<1>1. n \in Nat
  OBVIOUS
<1>2. F \in [(1..n) \X S -> S]
  OBVIOUS
<1>3. \A i \in 1..n, x \in S : F[<<i, x>>] = TakeIn(pass, x, ms, i)
  OBVIOUS
<1>4. Taken(pass, u, ms) = k[n]
  BY DEF Taken, TakenIn
<1> HIDE DEF F
<1>5. PICK h \in [0..n -> S] : StepsOf(n, u, F, h)
  <2> HIDE DEF n
  <2> QED BY <1>1, <1>2, StepsExist
<1>6. TakenIn(pass, u, ms, h)
  <2>1. ASSUME NEW i \in 0..n
        PROVE  h[i] = IF i = 0 THEN u ELSE TakeIn(pass, h[i - 1], ms, i)
    <3>1. CASE i = 0
      BY <1>5, <3>1 DEF StepsOf
    <3>2. CASE i # 0
      <4>1. i \in 1..n /\ h[i - 1] \in S
        BY <1>1, <1>5, <3>2
      <4> QED BY <1>3, <1>5, <3>2, <4>1 DEF StepsOf
    <3> QED BY <3>1, <3>2
  <2>2. h = [i \in 0..n |-> IF i = 0 THEN u ELSE TakeIn(pass, h[i - 1], ms, i)]
    BY <1>5, <2>1
  <2> QED BY <2>2 DEF TakenIn
<1>7. TakenIn(pass, u, ms, k)
  BY <1>6
<1> HIDE DEF k
<1>8. k[0] = u /\ DOMAIN k = 0..n /\ \A i \in 1..n : k[i] = TakeIn(pass, k[i - 1], ms, i)
  <2>1. k = [i \in 0..n |-> IF i = 0 THEN u ELSE TakeIn(pass, k[i - 1], ms, i)]
    BY <1>7 DEF TakenIn
  <2>2. \A i \in 1..n : i \in 0..n /\ i # 0
    BY <1>1
  <2>3. 0 \in 0..n
    BY <1>1
  <2> QED BY <2>1, <2>2, <2>3
<1> DEFINE J == {i \in 0..n : k[i] \in S}
<1>9. 0 \in J
  BY <1>1, <1>8
<1>10. ASSUME NEW i \in 1..n, i - 1 \in J PROVE i \in J
  <2>1. i \in 0..n
    BY <1>1
  <2> QED BY <1>8, <1>10, <2>1
<1>11. 0..n \subseteq J
  <2> HIDE DEF J, n
  <2> QED BY <1>1, <1>9, <1>10, Along
<1>12. k \in [0..n -> S]
  <2>1. k = [i \in 0..n |-> k[i]]
    BY <1>7 DEF TakenIn
  <2> QED BY <1>11, <2>1
<1> QED BY <1>4, <1>8, <1>12 DEF PassOf

GoodUis == {u \in Uis : Good(u)}

\* Messages that may be read: what has ended does not run.
Readable(ms) == ms \in Seq(Messages) /\ \A i \in 1..Len(ms) : ms[i].type = "ended" => ms[i].proc \notin Running

IsLost(ms, i) == ms[i].type = "lost"
\* The connection holds once ms is read, if it was `lost' before.
Regained(ms, n, lost) == \/ \E j \in 1..n : ms[j].type = "listed" /\ \A k \in (j + 1)..n : ~IsLost(ms, k)
                         \/ ~lost /\ \A k \in 1..n : ~IsLost(ms, k)

\* What the first i events make of u.
EventsRead(u, v, ms, i) ==
    /\ Good(v) /\ Follows(u, v) /\ NoPromptMore(u, v)
    /\ \A j \in 1..i : ms[j].type = "step" /\ ms[j].proc \in Running \ v.misled /\ ~u.proc[ms[j].proc].ended
                       => Knows(v, ms[j].proc, ms[j].n)
    /\ (u.lost => NoPrompts(u)) => (v.lost \/ (\E j \in 1..i : IsLost(ms, j)) => NoPrompts(v))
    /\ Regained(ms, i, u.lost) => ~v.lost

LEMMA EventRead ==
    ASSUME NEW u, Good(u), NEW ms, Readable(ms), NEW i \in 1..Len(ms), NEW w, EventsRead(u, w, ms, i - 1)
    PROVE  EventsRead(u, ApplyEvent(w, ms[i]), ms, i)
<1> DEFINE m == ms[i]
           v == ApplyEvent(w, m)
<1>1. m \in Messages /\ (m.type = "ended" => m.proc \notin Running) /\ i \in Nat /\ Good(w) /\ w \in Uis /\ u \in Uis
  BY DEF Readable, EventsRead, Good
<1>2. /\ Good(v) /\ Follows(w, v) /\ NoPromptMore(w, v)
      /\ m.type = "step" /\ m.proc \in Running \ v.misled /\ ~w.proc[m.proc].ended => Knows(v, m.proc, m.n)
      /\ v.lost = (m.type = "lost" \/ (m.type # "listed" /\ w.lost))
      /\ m.type = "lost" /\ ~w.lost => NoPrompts(v)
  BY <1>1, EventKeeps
<1>3. \A j \in 1..i : j = i \/ j \in 1..(i - 1)
  BY <1>1
<1> HIDE DEF v, m
<1>4. Follows(u, v) /\ NoPromptMore(u, v)
  BY <1>1, <1>2, FollowsTransitive DEF EventsRead, Good, NoPromptMore
<1>5. ASSUME NEW j \in 1..i, ms[j].type = "step", ms[j].proc \in Running \ v.misled, ~u.proc[ms[j].proc].ended
      PROVE  Knows(v, ms[j].proc, ms[j].n)
  <2> DEFINE p == ms[j].proc
             n == ms[j].n
  <2>1. p \in Running /\ p \notin w.misled /\ p \in Dialogs
    BY <1>2, <1>5, RunningIsProc DEF Follows, Calm
  <2>2. ~w.proc[p].ended
    BY <1>5, <2>1 DEF EventsRead, Follows, Calm, RecordCalm
  <2>3. CASE j = i
    BY <1>2, <1>5, <2>2, <2>3 DEF m
  <2>4. CASE j \in 1..(i - 1)
    <3>1. Knows(w, p, n)
      BY <1>5, <2>1, <2>4 DEF EventsRead
    <3>2. RecordCalm(w.proc[p], v.proc[p])
      BY <1>2, <1>5 DEF Follows, Calm
    <3>3. n \in Nat /\ w.proc[p].step \in Nat /\ v.proc[p].step \in Nat
      <4>1. ms[j] \in Messages
        BY DEF Readable
      <4>2. ms[j] \in StepMessages
        BY <1>5, <4>1, MessageTypes
      <4> QED BY <1>1, <1>2, <2>1, <4>2, FieldTypes, RecordTypes DEF StepMessages, Good
    <3> HIDE DEF p, n
    <3> QED BY <2>2, <3>1, <3>2, <3>3 DEF Knows, RecordCalm, p, n
  <2> QED BY <1>3, <2>3, <2>4
<1>6. ASSUME u.lost => NoPrompts(u), v.lost \/ \E j \in 1..i : IsLost(ms, j) PROVE NoPrompts(v)
  <2>1. w.lost \/ (\E j \in 1..(i - 1) : IsLost(ms, j)) => NoPrompts(w)
    BY <1>6 DEF EventsRead
  <2>2. NoPrompts(w) => NoPrompts(v)
    BY <1>2, NoPromptsStays
  <2>3. v.lost => w.lost \/ m.type = "lost"
    BY <1>2
  <2>4. (\E j \in 1..i : IsLost(ms, j)) => m.type = "lost" \/ \E j \in 1..(i - 1) : IsLost(ms, j)
    BY <1>3 DEF IsLost, m
  <2>5. m.type = "lost" => NoPrompts(v)
    BY <1>2, <2>1, <2>2
  <2> QED BY <1>6, <2>1, <2>2, <2>3, <2>4, <2>5
<1>7. ASSUME Regained(ms, i, u.lost) PROVE ~v.lost
  <2>1. i \in 1..i
    BY <1>1
  <2>2. \A j \in 1..i : j # i => i \in (j + 1)..i
    BY <1>1
  <2>3. m.type # "lost"
    <3>1. CASE \A k \in 1..i : ~IsLost(ms, k)
      BY <2>1, <3>1 DEF IsLost, m
    <3>2. CASE \E j \in 1..i : ms[j].type = "listed" /\ \A k \in (j + 1)..i : ~IsLost(ms, k)
      BY <2>2, <3>2 DEF IsLost, m
    <3> QED BY <1>7, <3>1, <3>2 DEF Regained
  <2>4. m.type # "listed" => Regained(ms, i - 1, u.lost)
    <3>1. \A j \in 1..(i - 1) : j \in 1..i /\ \A k \in (j + 1)..(i - 1) : k \in (j + 1)..i
      BY <1>1
    <3>2. CASE ~u.lost /\ \A k \in 1..i : ~IsLost(ms, k)
      BY <3>1, <3>2 DEF Regained
    <3>3. CASE \E j \in 1..i : ms[j].type = "listed" /\ \A k \in (j + 1)..i : ~IsLost(ms, k)
      BY <1>3, <3>1, <3>3 DEF Regained, m
    <3> QED BY <1>7, <3>2, <3>3 DEF Regained
  <2>5. m.type # "listed" => ~w.lost
    BY <2>4 DEF EventsRead
  <2> QED BY <1>2, <2>3, <2>5
<1> QED BY <1>2, <1>4, <1>5, <1>6, <1>7 DEF EventsRead, v, m

LEMMA EventsTaken ==
    ASSUME NEW u, Good(u), NEW ms, Readable(ms)
    PROVE  EventsRead(u, Taken("events", u, ms), ms, Len(ms))
<1> DEFINE n == Len(ms)
<1>1. n \in Nat /\ ms \in Seq(Messages)
  BY DEF Readable
<1>2. ASSUME NEW i \in 1..n, NEW x \in GoodUis PROVE TakeIn("events", x, ms, i) \in GoodUis
  <2>1. ms[i] \in Messages /\ (ms[i].type = "ended" => ms[i].proc \notin Running) /\ Good(x)
    BY DEF Readable, GoodUis
  <2>2. Good(ApplyEvent(x, ms[i]))
    BY <2>1, EventKeeps
  <2> QED BY <2>2 DEF TakeIn, GoodUis, Good
<1>3. u \in GoodUis
  BY DEF GoodUis, Good
<1>4. PICK h : PassOf("events", GoodUis, u, ms, h)
  <2>1. \A i \in 1..n, x \in GoodUis : TakeIn("events", x, ms, i) \in GoodUis
    BY <1>2
  <2> QED BY <1>1, <1>3, <2>1, PassExists
<1> DEFINE J == {i \in 0..n : EventsRead(u, h[i], ms, i)}
<1>5. 0 \in J
  <2>1. EventsRead(u, u, ms, 0)
    <3>1. Good(u) /\ Follows(u, u) /\ NoPromptMore(u, u)
      BY TameItself, PromptsButSelf DEF Tame
    <3>2. Regained(ms, 0, u.lost) => ~u.lost
      BY DEF Regained
    <3> QED BY <3>1, <3>2 DEF EventsRead
  <2> QED BY <1>1, <1>4, <2>1 DEF PassOf
<1>6. ASSUME NEW i \in 1..n, i - 1 \in J PROVE i \in J
  <2>1. h[i] = ApplyEvent(h[i - 1], ms[i])
    BY <1>4 DEF PassOf, TakeIn
  <2>2. EventsRead(u, h[i], ms, i)
    BY <1>6, <2>1, EventRead
  <2> QED BY <1>1, <2>2
<1>7. 0..n \subseteq J
  <2> HIDE DEF n, J
  <2> QED BY <1>1, <1>5, <1>6, Along
<1> QED BY <1>1, <1>4, <1>7 DEF PassOf

\* What offering the prompts among the first i messages makes of u.
PromptsRead(u, v, ms, i) ==
    /\ Good(v) /\ Opened(v) /\ Calm(u, v) /\ SameRest(u, v) /\ PromptsBut(u, v, {})
    /\ \A id \in Dialogs, q \in Prompts :
          HasPrompt(v, id, q) => HasPrompt(u, id, q) \/ \E j \in 1..i : StillAsked(ms, j) /\ ms[j].req = q
    /\ \A p \in Procs : u.proc[p].between = "bad" =>
          \/ v.proc[p].between = "bad"
          \/ \E j \in 1..i : StillAsked(ms, j) /\ HasPrompt(v, p, ms[j].req)

LEMMA PromptRead ==
    ASSUME NEW u, Good(u), NEW ms \in Seq(Messages), NEW i \in 1..Len(ms), NEW w, PromptsRead(u, w, ms, i - 1)
    PROVE  PromptsRead(u, TakeIn("prompts", w, ms, i), ms, i)
<1> DEFINE v == TakeIn("prompts", w, ms, i)
           r == ms[i].req
<1>1. i \in Nat /\ ms[i] \in Messages /\ u \in Uis /\ w \in Uis /\ Good(w) /\ Opened(w)
  BY DEF PromptsRead, Good
<1>2. \A j \in 1..(i - 1) : j \in 1..i
  BY <1>1
<1>3. CASE ~StillAsked(ms, i)
  <2>1. v = w
    BY <1>3 DEF TakeIn
  <2> QED BY <1>2, <2>1 DEF PromptsRead
<1>4. CASE StillAsked(ms, i)
  <2>1. v = OfferPrompt(w, ms[i])
    BY <1>4 DEF TakeIn
  <2>2. ms[i].req \in Prompts /\ ms[i].n \in Nat /\ i \in 1..i
    BY <1>1, <1>4, MessageTypes DEF StillAsked
  <2> HIDE DEF v
  <2>3. Offered(w, v, r)
    BY <1>1, <2>1, <2>2, OfferPromptKeeps
  <2>4. v \in Uis
    BY <2>3 DEF Offered, Good
  <2>5. Good(v) /\ Opened(v) /\ SameRest(u, v) /\ PromptsBut(u, v, {})
    BY <2>3 DEF Offered, PromptsRead, SameRest, PromptsBut
  <2>6. Calm(u, v)
    BY <1>1, <2>3, <2>4, CalmTransitive DEF Offered, PromptsRead
  <2>7. ASSUME NEW id \in Dialogs, NEW q \in Prompts, HasPrompt(v, id, q)
        PROVE  HasPrompt(u, id, q) \/ \E j \in 1..i : StillAsked(ms, j) /\ ms[j].req = q
    <3>1. HasPrompt(w, id, q) \/ q = r
      BY <2>3, <2>7 DEF Offered
    <3> QED BY <1>2, <1>4, <2>2, <3>1 DEF PromptsRead
  <2>8. ASSUME NEW p \in Procs, u.proc[p].between = "bad"
        PROVE  \/ v.proc[p].between = "bad"
               \/ \E j \in 1..i : StillAsked(ms, j) /\ HasPrompt(v, p, ms[j].req)
    <3>1. CASE w.proc[p].between = "bad"
      BY <1>4, <2>2, <2>3, <3>1 DEF Offered
    <3>2. CASE w.proc[p].between # "bad"
      <4>1. PICK j \in 1..(i - 1) : StillAsked(ms, j) /\ HasPrompt(w, p, ms[j].req)
        BY <2>8, <3>2 DEF PromptsRead
      <4>2. ms[j].req \in Prompts /\ p \in Dialogs
        <5>1. ms[j] \in Messages
          BY <1>1
        <5> QED BY <4>1, <5>1, MessageTypes, RunningIsProc DEF StillAsked
      <4>3. HasPrompt(v, p, ms[j].req)
        BY <2>3, <4>1, <4>2 DEF Offered, PromptsBut
      <4> QED BY <1>2, <4>1, <4>3
    <3> QED BY <3>1, <3>2
  <2> QED BY <2>5, <2>6, <2>7, <2>8 DEF PromptsRead, v
<1> QED BY <1>3, <1>4

LEMMA PromptsTaken ==
    ASSUME NEW u, Good(u), Opened(u), NEW ms \in Seq(Messages)
    PROVE  PromptsRead(u, Taken("prompts", u, ms), ms, Len(ms))
<1> DEFINE n == Len(ms)
           S == {x \in Uis : Good(x) /\ Opened(x)}
<1>1. n \in Nat
  OBVIOUS
<1>2. ASSUME NEW i \in 1..n, NEW x \in S PROVE TakeIn("prompts", x, ms, i) \in S
  <2>1. ms[i] \in Messages /\ Good(x) /\ Opened(x)
    OBVIOUS
  <2>2. CASE StillAsked(ms, i)
    <3>1. Offered(x, OfferPrompt(x, ms[i]), ms[i].req)
      BY <2>1, <2>2, MessageTypes, OfferPromptKeeps DEF StillAsked
    <3> QED BY <2>2, <3>1 DEF TakeIn, Offered, Good
  <2>3. CASE ~StillAsked(ms, i)
    BY <2>3 DEF TakeIn
  <2> QED BY <2>2, <2>3
<1>3. u \in S
  BY DEF Good
<1>4. PICK h : PassOf("prompts", S, u, ms, h)
  <2>1. \A i \in 1..n, x \in S : TakeIn("prompts", x, ms, i) \in S
    BY <1>2
  <2> HIDE DEF S
  <2> QED BY <1>1, <1>3, <2>1, PassExists
<1> DEFINE J == {i \in 0..n : PromptsRead(u, h[i], ms, i)}
<1>5. 0 \in J
  <2>1. PromptsRead(u, u, ms, 0)
    BY TameItself, PromptsButSelf DEF Tame, Follows, PromptsRead
  <2> QED BY <1>1, <1>4, <2>1 DEF PassOf
<1>6. ASSUME NEW i \in 1..n, i - 1 \in J PROVE i \in J
  <2>1. h[i] = TakeIn("prompts", h[i - 1], ms, i)
    BY <1>4 DEF PassOf
  <2>2. PromptsRead(u, h[i], ms, i)
    BY <1>6, <2>1, PromptRead
  <2> QED BY <1>1, <2>2
<1>7. 0..n \subseteq J
  <2> HIDE DEF n, J
  <2> QED BY <1>1, <1>5, <1>6, Along
<1> QED BY <1>1, <1>4, <1>7 DEF PassOf

\* What an outcome or a missed prompt makes of u: only prompts of R are dropped.
Later(u, v, R) ==
    /\ Good(v) /\ Settled(v) /\ Calm(u, v) /\ BadKept(u, v) /\ SameMarks(u, v)
    /\ NoPromptMore(u, v) /\ PromptsBut(u, v, R)
    /\ \A i \in Dialogs : Called(v, i) = Called(u, i)
    /\ \A D \in SUBSET Deployments : InHand(u, D) => InHand(v, D)

LEMMA LaterTransitive ==
    ASSUME NEW u, NEW v, NEW w, NEW R, Good(u), Later(u, v, R), Later(v, w, R)
    PROVE  Later(u, w, R)
<1>1. u \in Uis /\ v \in Uis /\ w \in Uis
  BY DEF Good, Later
<1>2. Calm(u, w)
  BY <1>1, CalmTransitive DEF Later
<1>3. BadKept(u, w) /\ SameMarks(u, w) /\ NoPromptMore(u, w) /\ PromptsBut(u, w, R)
  BY DEF Later, BadKept, SameMarks, NoPromptMore, PromptsBut
<1> QED BY <1>2, <1>3 DEF Later

LEMMA TameThenShown ==
    ASSUME NEW u, Good(u), NEW w, Tame(u, w), NEW R, NoPromptMore(u, w), PromptsBut(u, w, R)
    PROVE  Later(u, ShowPending(w), R)
<1> DEFINE v == ShowPending(w)
<1>1. Good(w) /\ Untidy(w) /\ u \in Uis /\ w \in Uis
  BY GoodIsUntidy DEF Tame, Good
<1>2. Shown(w, v)
  BY <1>1, ShowPendingKeeps
<1> HIDE DEF v
<1>3. v \in Uis /\ Good(v) /\ Settled(v)
  BY <1>2 DEF Shown, Good
<1>4. Calm(u, v)
  BY <1>1, <1>2, <1>3, CalmTransitive DEF Tame, Follows, Shown
<1>5. BadKept(u, v) /\ SameMarks(u, v)
  BY <1>2 DEF Tame, Follows, Shown, BadKept, SameMarks, SameRest
<1>6. NoPromptMore(u, v) /\ PromptsBut(u, v, R)
  BY <1>2, PromptsButTransitive, PromptsButSelf DEF Shown, NoPromptMore
<1>7. \A i \in Dialogs : Called(v, i) = Called(u, i)
  <2>1. \A i \in Dialogs : Called(w, i) = Called(u, i)
    BY CalledSame DEF Tame, SameRest
  <2> QED BY <1>2, <2>1 DEF Shown
<1>8. \A D \in SUBSET Deployments : InHand(u, D) => InHand(v, D)
  BY <1>2 DEF Shown, InHand, Tame, SameRest
<1> QED BY <1>3, <1>4, <1>5, <1>6, <1>7, <1>8 DEF Later, v

FinishedIn(ms) == {q \in Prompts : \E j \in 1..Len(ms) : ms[j].type = "finished" /\ ms[j].req = q}

LEMMA OutcomeRead ==
    ASSUME NEW u, Good(u), Settled(u), NEW ms \in Seq(Messages), NEW i \in 1..Len(ms)
    PROVE  Later(u, TakeIn("outcomes", u, ms, i), FinishedIn(ms))
<1> DEFINE m == ms[i]
           v == TakeIn("outcomes", u, ms, i)
           R == FinishedIn(ms)
<1>1. CASE m.type # "finished"
  <2>1. v = u
    BY <1>1 DEF TakeIn
  <2>2. Tame(u, u) /\ NoPromptMore(u, u) /\ PromptsBut(u, u, R)
    BY TameItself, PromptsButSelf
  <2>3. Calm(u, u) /\ BadKept(u, u) /\ SameMarks(u, u)
    BY <2>2 DEF Tame, Follows, SameMarks
  <2> HIDE DEF R
  <2> QED BY <2>1, <2>2, <2>3 DEF Later, v, R
<1>2. CASE m.type = "finished"
  <2> DEFINE r == m.req
             w == StepFinished(u, r, m.ok)
  <2>1. v = ShowPending(w)
    BY <1>2 DEF TakeIn, ApplyOutcome
  <2>2. m \in Messages
    OBVIOUS
  <2>3. r \in Prompts /\ r \in Requests /\ m.ok \in BOOLEAN
    BY <1>2, <2>2, MessageTypes DEF Prompts
  <2>4. Tame(u, w) /\ PromptsBut(u, w, {r}) /\ NoPromptMore(u, w)
    BY <2>3, StepFinishedTame
  <2>5. r \in R
    BY <1>2, <2>3 DEF FinishedIn
  <2> HIDE DEF R, w, r
  <2>6. PromptsBut(u, w, R)
    BY <2>4, <2>5 DEF PromptsBut
  <2> HIDE DEF v
  <2>7. Later(u, ShowPending(w), R)
    BY <2>4, <2>6, TameThenShown
  <2> QED BY <2>1, <2>7 DEF v, R
<1> QED BY <1>1, <1>2

LEMMA OutcomesTaken ==
    ASSUME NEW u, Good(u), Settled(u), NEW ms \in Seq(Messages)
    PROVE  Later(u, Taken("outcomes", u, ms), FinishedIn(ms))
<1> DEFINE n == Len(ms)
           S == {x \in Uis : Good(x) /\ Settled(x)}
           R == FinishedIn(ms)
<1>1. n \in Nat
  OBVIOUS
<1>2. ASSUME NEW i \in 1..n, NEW x \in S PROVE TakeIn("outcomes", x, ms, i) \in S
  BY OutcomeRead DEF Later, Good
<1>3. u \in S
  BY DEF Good
<1>4. PICK h : PassOf("outcomes", S, u, ms, h)
  <2>1. \A i \in 1..n, x \in S : TakeIn("outcomes", x, ms, i) \in S
    BY <1>2
  <2> HIDE DEF S
  <2> QED BY <1>1, <1>3, <2>1, PassExists
<1> DEFINE J == {i \in 0..n : Later(u, h[i], R)}
<1>5. 0 \in J
  <2>1. Later(u, u, R)
    <3>1. Tame(u, u) /\ NoPromptMore(u, u) /\ PromptsBut(u, u, R)
      BY TameItself, PromptsButSelf
    <3>2. Calm(u, u) /\ BadKept(u, u) /\ SameMarks(u, u)
      BY <3>1 DEF Tame, Follows, SameMarks
    <3> HIDE DEF R
    <3> QED BY <3>1, <3>2 DEF Later
  <2> QED BY <1>1, <1>4, <2>1 DEF PassOf
<1>6. ASSUME NEW i \in 1..n, i - 1 \in J PROVE i \in J
  <2>0. Later(u, h[i - 1], R)
    BY <1>6
  <2>1. h[i] = TakeIn("outcomes", h[i - 1], ms, i)
    BY <1>4 DEF PassOf
  <2>2. Good(h[i - 1]) /\ Settled(h[i - 1])
    BY <2>0 DEF Later
  <2>3. Later(h[i - 1], h[i], R)
    BY <2>1, <2>2, OutcomeRead
  <2> HIDE DEF R
  <2>4. Later(u, h[i], R)
    BY <2>0, <2>3, LaterTransitive
  <2> QED BY <1>1, <2>4
<1>7. 0..n \subseteq J
  <2> HIDE DEF n, J
  <2> QED BY <1>1, <1>5, <1>6, Along
<1> QED BY <1>1, <1>4, <1>7 DEF PassOf

Ticked(u, ms) ==
    LET asked == Taken("prompts", Taken("events", u, ms), ms)
    IN  Taken("outcomes", ShowPending(asked), ms)

\* What one iteration of drive() makes of u when it reads ms.
Read(u, v, ms) ==
    /\ Good(v) /\ Settled(v) /\ Calm(u, v)
    /\ \A D \in SUBSET Deployments : InHand(u, D) => InHand(v, D)
    /\ \A j \in 1..Len(ms) : ms[j].type = "step" /\ ms[j].proc \in Running \ v.misled
                             /\ ~u.proc[ms[j].proc].ended => Knows(v, ms[j].proc, ms[j].n)
    /\ Regained(ms, Len(ms), u.lost) => ~v.lost
    /\ (u.lost => NoPrompts(u)) =>
          \A id \in Dialogs, q \in Prompts : HasPrompt(v, id, q) =>
             \/ \E j \in 1..Len(ms) : StillAsked(ms, j) /\ ms[j].req = q
             \/ HasPrompt(u, id, q) /\ ~v.lost /\ ~ \E j \in 1..Len(ms) : IsLost(ms, j)
    /\ (\A j \in 1..Len(ms) : StillAsked(ms, j) => ms[j].req \notin FinishedIn(ms)) =>
          \A p \in Procs : u.proc[p].between = "bad" =>
             v.proc[p].between = "bad" \/ v.proc[p].prompts # <<>>

LEMMA TickReads ==
    ASSUME NEW u, Good(u), Settled(u), NEW ms, Readable(ms)
    PROVE  Read(u, Ticked(u, ms), ms)
<1> DEFINE n == Len(ms)
           e == Taken("events", u, ms)
           a == Taken("prompts", e, ms)
           s == ShowPending(a)
           v == Taken("outcomes", s, ms)
           R == FinishedIn(ms)
<1>1. v = Ticked(u, ms) /\ ms \in Seq(Messages) /\ n \in Nat
  BY DEF Ticked, Readable
<1>2. EventsRead(u, e, ms, n)
  BY EventsTaken
<1> HIDE DEF e
<1>3. Good(e) /\ Follows(u, e) /\ Settled(e) /\ Opened(e)
  BY <1>2 DEF EventsRead, Follows, Quieter, Settled, Opened, HasPending
<1>4. PromptsRead(e, a, ms, n)
  BY <1>1, <1>3, PromptsTaken
<1> HIDE DEF a
<1>5. Shown(a, s)
  BY <1>4, ShowPendingKeeps, GoodIsUntidy DEF PromptsRead
<1> HIDE DEF s
<1>6. Later(s, v, R)
  BY <1>1, <1>5, OutcomesTaken DEF Shown
<1> HIDE DEF v, n, R
<1>7. u \in Uis /\ e \in Uis /\ a \in Uis /\ s \in Uis /\ v \in Uis
  BY <1>3, <1>4, <1>5, <1>6 DEF PromptsRead, Shown, Later, Good
<1>8. Calm(u, e) /\ Calm(e, a) /\ Calm(a, s) /\ Calm(s, v)
  BY <1>3, <1>4, <1>5, <1>6 DEF Follows, PromptsRead, Shown, Later
<1>9. Calm(e, s)
  BY <1>7, <1>8, CalmTransitive
<1>10. Calm(e, v) /\ Calm(u, v)
  <2>1. Calm(e, v)
    BY <1>7, <1>8, <1>9, CalmTransitive
  <2> QED BY <1>7, <1>8, <2>1, CalmTransitive
<1>11. \A D \in SUBSET Deployments : InHand(u, D) => InHand(v, D)
  <2> SUFFICES ASSUME NEW D \in SUBSET Deployments, InHand(u, D) PROVE InHand(v, D)
    OBVIOUS
  <2>1. InHand(a, D)
    BY <1>3, <1>4 DEF InHand, Follows, Quieter, PromptsRead, SameRest
  <2>2. InHand(s, D)
    BY <1>5, <2>1 DEF Shown
  <2> QED BY <1>6, <2>2 DEF Later
<1>12. v.lost = e.lost /\ v.misled = e.misled
  BY <1>4, <1>5, <1>6 DEF PromptsRead, SameRest, Shown, SameMarks, Later
<1>13. ASSUME NEW j \in 1..n, ms[j].type = "step", ms[j].proc \in Running \ v.misled, ~u.proc[ms[j].proc].ended
       PROVE  Knows(v, ms[j].proc, ms[j].n)
  <2> DEFINE p == ms[j].proc
             k == ms[j].n
  <2>1. Knows(e, p, k) /\ p \in Running /\ p \in Dialogs /\ p \notin e.misled
    BY <1>2, <1>12, <1>13, RunningIsProc DEF EventsRead
  <2>2. ~e.proc[p].ended
    BY <1>8, <1>13, <2>1 DEF Calm, RecordCalm
  <2>3. RecordCalm(e.proc[p], v.proc[p])
    BY <1>10, <1>13 DEF Calm
  <2>4. k \in Nat /\ e.proc[p].step \in Nat /\ v.proc[p].step \in Nat
    <3>1. ms[j] \in Messages
      BY <1>1, <1>13 DEF n
    <3>2. ms[j] \in StepMessages
      BY <1>13, <3>1, MessageTypes
    <3> QED BY <1>7, <2>1, <3>2, FieldTypes, RecordTypes DEF StepMessages
  <2> HIDE DEF p, k
  <2>5. Knows(v, p, k)
    BY <2>1, <2>2, <2>3, <2>4 DEF Knows, RecordCalm
  <2> QED BY <2>5 DEF p, k
<1>14. Regained(ms, n, u.lost) => ~v.lost
  BY <1>2, <1>12 DEF EventsRead
<1>15. ASSUME u.lost => NoPrompts(u), NEW id \in Dialogs, NEW q \in Prompts, HasPrompt(v, id, q)
       PROVE  \/ \E j \in 1..n : StillAsked(ms, j) /\ ms[j].req = q
              \/ HasPrompt(u, id, q) /\ ~v.lost /\ ~ \E j \in 1..n : IsLost(ms, j)
  <2>1. HasPrompt(a, id, q)
    BY <1>5, <1>6, <1>15 DEF Later, NoPromptMore, Shown, PromptsKept, HasPrompt
  <2>2. CASE \E j \in 1..n : StillAsked(ms, j) /\ ms[j].req = q
    BY <2>2
  <2>3. CASE HasPrompt(e, id, q)
    <3>1. HasPrompt(u, id, q)
      BY <1>2, <2>3 DEF EventsRead, NoPromptMore
    <3>2. ~NoPrompts(e)
      BY <2>3 DEF NoPrompts, HasPrompt
    <3> QED BY <1>2, <1>12, <1>15, <3>1, <3>2 DEF EventsRead
  <2> QED BY <1>4, <2>1, <2>2, <2>3 DEF PromptsRead
<1>16. ASSUME \A j \in 1..n : StillAsked(ms, j) => ms[j].req \notin R, NEW p \in Procs, u.proc[p].between = "bad"
       PROVE  v.proc[p].between = "bad" \/ v.proc[p].prompts # <<>>
  <2>1. e.proc[p].between = "bad" /\ p \in Dialogs
    BY <1>3, <1>16, RunningIsProc DEF Follows, BadKept
  <2>2. CASE a.proc[p].between = "bad"
    BY <1>5, <1>6, <2>2 DEF Shown, Later, BadKept
  <2>3. CASE a.proc[p].between # "bad"
    <3>1. PICK j \in 1..n : StillAsked(ms, j) /\ HasPrompt(a, p, ms[j].req)
      BY <1>4, <2>1, <2>3 DEF PromptsRead
    <3> DEFINE q == ms[j].req
    <3>2. q \in Prompts /\ q \notin R
      <4>1. ms[j] \in Messages
        BY <1>1 DEF n
      <4> QED BY <1>16, <3>1, <4>1, MessageTypes DEF StillAsked
    <3> HIDE DEF q
    <3>3. HasPrompt(s, p, q)
      BY <1>5, <2>1, <3>1 DEF Shown, PromptsKept, HasPrompt, q
    <3>4. HasPrompt(v, p, q)
      BY <1>6, <2>1, <3>2, <3>3 DEF Later, PromptsBut
    <3> QED BY <3>4 DEF HasPrompt
  <2> QED BY <2>2, <2>3
<1>17. Read(u, v, ms)
  BY <1>6, <1>10, <1>11, <1>13, <1>14, <1>15, <1>16 DEF Read, Later, n, R
<1> QED BY <1>1, <1>17

-----------------------------------------------------------------------------
(* What the operator and the worker do to the UI.                          *)

\* A failure that goes was seen, or more is asked.
BadSeen(u, v) ==
    \A p \in Procs : u.proc[p].between = "bad" =>
        v.proc[p].between = "bad" \/ OnScreen(u, p) \/ ApprovalOf(u, p) \/ Called(v, p)

Drawn(u, v) == Untidy(v) /\ Calm(u, v) /\ NoPromptMore(u, v) /\ v.lost = u.lost /\ BadSeen(u, v)
Acted(u, v) == Good(v) /\ Settled(v) /\ Calm(u, v) /\ NoPromptMore(u, v) /\ v.lost = u.lost /\ BadSeen(u, v)

LEMMA ShowAfter ==
    ASSUME NEW u \in Uis, NEW w, Drawn(u, w)
    PROVE  /\ Acted(u, ShowPending(w))
           /\ \A D \in SUBSET Deployments : InHand(w, D) => InHand(ShowPending(w), D)
<1> DEFINE v == ShowPending(w)
<1>1. Shown(w, v) /\ w \in Uis
  BY ShowPendingKeeps DEF Drawn, Untidy
<1> HIDE DEF v
<1>2. v \in Uis
  BY <1>1 DEF Shown, Good
<1>3. Calm(u, v)
  BY <1>1, <1>2, CalmTransitive DEF Drawn, Shown
<1>4. NoPromptMore(u, v)
  BY <1>1, PromptsButSelf DEF Drawn, Shown, NoPromptMore
<1>5. v.lost = u.lost
  BY <1>1 DEF Drawn, Shown, SameMarks
<1>6. BadSeen(u, v)
  BY <1>1, RunningIsProc DEF Drawn, BadSeen, Shown, BadKept
<1>7. Acted(u, v)
  BY <1>1, <1>3, <1>4, <1>5, <1>6 DEF Acted, Shown
<1> QED BY <1>1, <1>7 DEF Shown, v

\* What leaves failures and prompts alone is fine to draw.
LEMMA DrawnBy ==
    ASSUME NEW u, NEW v, Untidy(v), Calm(u, v), BadKept(u, v), NoPromptMore(u, v), v.lost = u.lost
    PROVE  Drawn(u, v)
  BY DEF Drawn, BadSeen, BadKept

LEMMA TameDrawn ==
    ASSUME NEW u, NEW v, Tame(u, v), NoPromptMore(u, v)
    PROVE  Drawn(u, v)
  BY GoodIsUntidy, DrawnBy DEF Tame, Follows, SameRest

\* One dialog of a good UI with other prompts, flights and result.
Reworked(p, s, e, b) == [p EXCEPT !.prompts = s, !.flight = e, !.between = b]

LEMMA ReworkedIs ==
    ASSUME NEW p \in DialogRecords, NEW s \in Seq(Prompts), NEW e \in SUBSET InFlights, NEW b \in Betweens,
           NEW q, q = Reworked(p, s, e, b)
    PROVE  /\ q \in DialogRecords /\ q.here = p.here /\ q.step = p.step /\ q.prompts = s
           /\ q.ended = p.ended /\ q.flight = e /\ q.between = b /\ q.minimised = p.minimised
           /\ q.flashing = p.flashing /\ q.aside = p.aside /\ q.finished = p.finished
  BY DEF DialogRecords, Reworked

\* w is u with the dialog q for id, and good.
Reworks(u, w, id, q, s, b) ==
    /\ Good(w) /\ Calm(u, w) /\ SameRest(u, w) /\ Quieter(u, w) /\ w.foreground = u.foreground
    /\ w.proc[id] = q /\ q.prompts = s /\ q.between = b
    /\ \A i \in Dialogs : i # id => w.proc[i] = u.proc[i]

LEMMA ReworkedGood ==
    ASSUME NEW u, Good(u), NEW id \in Dialogs, NEW s \in Seq(Prompts), NEW e \in SUBSET InFlights, NEW b \in Betweens,
           u.proc[id].prompts = <<>> => s = <<>>,
           Implicit(id) => b = "none" /\ e = {},
           ~u.proc[id].here => e = {},
           b = u.proc[id].between \/ b \notin {"ok", "bad"},
           NEW q, q = Reworked(u.proc[id], s, e, b), NEW w, w = Put(u, id, q)
    PROVE  Reworks(u, w, id, q, s, b)
<1> DEFINE p == u.proc[id]
           v == Put(u, id, q)
<1>1. u \in Uis /\ p \in DialogRecords /\ DialogOK(u, id) /\ \A i \in Dialogs : u.proc[i].step \in Nat
  BY FieldTypes, RecordTypes DEF Good
<1>2. /\ q \in DialogRecords /\ q.here = p.here /\ q.step = p.step /\ q.prompts = s
      /\ q.ended = p.ended /\ q.flight = e /\ q.between = b /\ q.minimised = p.minimised
      /\ q.flashing = p.flashing /\ q.aside = p.aside
  <2> HIDE DEF p
  <2>1. q = Reworked(p, s, e, b)
    BY DEF p
  <2> QED BY <1>1, <2>1, ReworkedIs
<1>3. Sound(q, id, u.foreground = id)
  BY <1>1, <1>2 DEF DialogOK, Sound
<1>4. Pressing(q, Called(u, id)) => q.here /\ Located(q, u.foreground = id)
  BY <1>1, <1>2 DEF DialogOK, Pressing, Located
<1>5. Good(v)
  BY <1>2, <1>3, <1>4, PutGood
<1>6. v.foreground = u.foreground /\ v.proc[id] = q /\ SameRest(u, v)
      /\ \A i \in Dialogs : i # id => v.proc[i] = u.proc[i]
  BY <1>1, <1>2, PutIs DEF SameRest
<1> HIDE DEF v
<1>7. ASSUME NEW i \in Dialogs PROVE RecordCalm(u.proc[i], v.proc[i]) /\ (OnScreen(v, i) => OnScreen(u, i))
  <2>1. CASE i = id
    BY <1>1, <1>2, <1>6, <2>1 DEF RecordCalm, OnScreen
  <2>2. CASE i # id
    BY <1>1, <1>6, <2>2 DEF RecordCalm, OnScreen
  <2> QED BY <2>1, <2>2
<1>8. Calm(u, v) /\ Quieter(u, v)
  BY <1>6, <1>7, RunningIsProc DEF Calm, Quieter, SameRest
<1> QED BY <1>2, <1>5, <1>6, <1>8 DEF v, Reworks

LEMMA TakeShownKeeps ==
    ASSUME NEW u, Good(u), ShownPrompt(u), NEW yes \in BOOLEAN
    PROVE  Drawn(u, TakeShown(u, yes)) /\ SameRest(u, TakeShown(u, yes))
<1> DEFINE id == u.foreground
           p == u.proc[id]
           r == Head(p.prompts)
           s == Tail(p.prompts)
           e == {IF f.req = r THEN [f EXCEPT !.denied = ~yes] ELSE f : f \in p.flight}
           b == IF ~Implicit(id) /\ s = <<>> THEN "working" ELSE p.between
           q == Reworked(p, s, e, b)
           w == Put(u, id, q)
           v == TakeShown(u, yes)
<1>1. u \in Uis /\ id \in Dialogs /\ p.prompts # <<>>
  BY FieldTypes DEF Good, ShownPrompt
<1>2. p \in DialogRecords /\ DialogOK(u, id) /\ p.prompts \in Seq(Prompts) /\ p.flight \in SUBSET InFlights /\ p.between \in Betweens
  BY <1>1, FieldTypes, RecordTypes DEF Good
<1>3. s \in Seq(Prompts)
  BY <1>1, <1>2
<1>4. e \in SUBSET InFlights /\ (p.flight = {} => e = {})
  BY <1>2 DEF InFlights
<1>5. b \in Betweens /\ (b = p.between \/ b \notin {"ok", "bad"})
  BY <1>2 DEF Betweens
<1>6. Implicit(id) => b = "none" /\ e = {}
  BY <1>2, <1>4 DEF DialogOK, Sound
<1>7. v = Tidy(w)
  BY <1>2 DEF TakeShown, Reworked, DialogRecords
<1>8. ~p.here => e = {}
  BY <1>2, <1>4 DEF DialogOK, Sound
<1>9. p.between # "bad"
  BY <1>1, <1>2 DEF DialogOK, Sound
<1>10. \A j \in 1..Len(s) : s[j] = p.prompts[j + 1] /\ j + 1 \in 1..Len(p.prompts)
  BY <1>1, <1>2
<1> DEFINE g == u.foreground
<1>11. q = Reworked(u.proc[id], s, e, b) /\ w = Put(u, id, q) /\ (u.proc[id].prompts = <<>> => s = <<>>)
       /\ (~u.proc[id].here => e = {}) /\ (b = u.proc[id].between \/ b \notin {"ok", "bad"})
  BY <1>1, <1>5, <1>8
<1> HIDE DEF s, e, b, q, id, w, p
<1>a. Reworks(u, w, id, q, s, b)
  BY <1>1, <1>3, <1>4, <1>5, <1>6, <1>11, ReworkedGood
<1>12. /\ Good(w) /\ Calm(u, w) /\ SameRest(u, w) /\ w.proc[id] = q /\ q.prompts = s /\ q.between = b
       /\ \A i \in Dialogs : i # id => w.proc[i] = u.proc[i]
  BY <1>a DEF Reworks
<1>13. BadKept(u, w)
  BY <1>9, <1>12, RunningIsProc DEF BadKept, p
<1>14. NoPromptMore(u, w)
  <2> SUFFICES ASSUME NEW i \in Dialogs, NEW x \in Prompts, HasPrompt(w, i, x) PROVE HasPrompt(u, i, x)
    BY DEF NoPromptMore
  <2>1. CASE i = id
    BY <1>10, <1>12, <2>1 DEF HasPrompt, p
  <2>2. CASE i # id
    BY <1>12, <2>2 DEF HasPrompt
  <2> QED BY <2>1, <2>2
<1>15. Tame(w, v) /\ PromptsKept(w, v)
  BY <1>7, <1>12, TidyTame
<1> HIDE DEF v
<1>16. u \in Uis /\ w \in Uis /\ v \in Uis /\ Untidy(v)
  BY <1>1, <1>12, <1>15, GoodIsUntidy DEF Good, Tame
<1>17. Calm(u, v) /\ BadKept(u, v) /\ NoPromptMore(u, v) /\ SameRest(u, v)
  <2>1. Calm(u, v)
    BY <1>12, <1>15, <1>16, CalmTransitive DEF Tame, Follows
  <2>2. BadKept(u, v) /\ SameRest(u, v)
    BY <1>12, <1>13, <1>15 DEF Tame, Follows, BadKept, SameRest
  <2>3. NoPromptMore(u, v)
    BY <1>14, <1>15, PromptsButSelf DEF NoPromptMore
  <2> QED BY <2>1, <2>2, <2>3
<1>18. Drawn(u, v)
  BY <1>16, <1>17, DrawnBy DEF SameRest
<1> QED BY <1>17, <1>18 DEF v

-----------------------------------------------------------------------------
(* The operations of the operator and of the deployment worker.            *)

\* What the operator's keys do: nothing is asked or claimed that was not.
Turned(u, v) ==
    /\ Untidy(v) /\ Calm(u, v) /\ BadKept(u, v) /\ PromptsKept(u, v) /\ SameMarks(u, v)
    /\ \A D \in SUBSET Deployments : InHand(u, D) => InHand(v, D)

LEMMA TurnedTransitive ==
    ASSUME NEW u \in Uis, NEW v \in Uis, NEW w \in Uis, Turned(u, v), Turned(v, w)
    PROVE  Turned(u, w)
<1>1. Calm(u, w)
  BY CalmTransitive DEF Turned
<1>2. BadKept(u, w) /\ PromptsKept(u, w) /\ SameMarks(u, w)
  BY DEF Turned, BadKept, PromptsKept, SameMarks
<1> QED BY <1>1, <1>2 DEF Turned

LEMMA TurnedItself ==
    ASSUME NEW u, Good(u)
    PROVE  Turned(u, u)
  BY GoodIsUntidy, FollowsItself DEF Turned, Good, Follows, PromptsKept, SameMarks

LEMMA ShownTurned ==
    ASSUME NEW u, NEW v, Shown(u, v)
    PROVE  Turned(u, v)
  BY GoodIsUntidy DEF Turned, Shown

LEMMA TurnedDrawn ==
    ASSUME NEW u, NEW v, Turned(u, v)
    PROVE  Drawn(u, v)
  BY DrawnBy, PromptsButSelf DEF Turned, SameMarks

\* The dialog p in the task bar, where the operator put it.
Asided(p, b) == [p EXCEPT !.minimised = TRUE, !.flashing = FALSE, !.aside = TRUE, !.between = b]

LEMMA AsidedIs ==
    ASSUME NEW p \in DialogRecords, NEW b \in Betweens, NEW q, q = Asided(p, b)
    PROVE  /\ q \in DialogRecords /\ q.here = p.here /\ q.step = p.step /\ q.prompts = p.prompts
           /\ q.ended = p.ended /\ q.flight = p.flight /\ q.between = b /\ q.minimised = TRUE
           /\ q.aside = TRUE
  BY DEF DialogRecords, Asided

SetAside(u, id, b, m, s) == Switched2(Placed(u, id, Asided(u.proc[id], b), NoDialog), m, s)

LEMMA SetAsideKeeps ==
    ASSUME NEW u, Good(u), NEW id \in Dialogs, u.proc[id].here, u.foreground \in {id, NoDialog},
           NEW b \in Betweens, b = u.proc[id].between \/ (u.proc[id].between = "ok" /\ b = "none"),
           NEW m \in Modes, NEW s \in Seq(Deployments), NEW w, w = SetAside(u, id, b, m, s),
           \A i \in Dialogs : Called(w, i) => Called(u, i),
           \A D \in SUBSET Deployments : InHand(u, D) => InHand(w, D)
    PROVE  Good(w) /\ Turned(u, w) /\ w.foreground = NoDialog
<1> DEFINE p == u.proc[id]
           q == Asided(p, b)
           x == Placed(u, id, q, NoDialog)
<1>1. u \in Uis /\ p \in DialogRecords /\ DialogOK(u, id)
  BY FieldTypes DEF Good
<1>2. /\ q \in DialogRecords /\ q.here = p.here /\ q.step = p.step /\ q.prompts = p.prompts
      /\ q.ended = p.ended /\ q.flight = p.flight /\ q.between = b /\ q.minimised = TRUE
      /\ q.aside = TRUE
  <2> HIDE DEF p
  <2> QED BY <1>1, AsidedIs
<1>3. p.between = "bad" => q.between = "bad"
  BY <1>2
<1>4. x = Placed(u, id, q, NoDialog) /\ w = Switched2(x, m, s)
  BY DEF SetAside
<1> HIDE DEF q, x
<1>5. Differs(u, x, id, q, NoDialog) /\ PromptsKept(u, x) /\ Calm(u, x) /\ BadKept(u, x)
  BY <1>1, <1>2, <1>3, <1>4, RelocatedUi
<1>6. /\ x \in Uis /\ SameRest(u, x) /\ x.foreground = NoDialog
      /\ x.proc[id] = q /\ \A i \in Dialogs : i # id => x.proc[i] = u.proc[i]
  BY <1>5 DEF Differs
<1>7. \A i \in Dialogs : Called(x, i) = Called(u, i)
  BY <1>6, CalledSame DEF SameRest
<1>8. DialogOK(x, id)
  <2>1. Sound(q, id, FALSE)
    BY <1>1, <1>2 DEF DialogOK, Sound
  <2>2. q.here /\ Located(q, FALSE)
    BY <1>2 DEF Located
  <2>3. (x.foreground = id) = FALSE
    BY <1>6, Names
  <2> QED BY <1>6, <2>1, <2>2, <2>3 DEF DialogOK, Located, Sound
<1>9. ASSUME NEW i \in Dialogs, i # id PROVE DialogOK(x, i)
  <2>1. DialogOK(u, i) /\ x.proc[i] = u.proc[i] /\ Called(x, i) = Called(u, i) /\ x.foreground # i /\ u.foreground # i
    BY <1>6, <1>7, <1>9, Names DEF Good
  <2> QED BY <2>1 DEF DialogOK, Located, Sound
<1>10. Good(x)
  BY <1>6, <1>8, <1>9 DEF Good
<1>11. \A i \in Dialogs : Called(w, i) => Called(x, i)
  BY <1>7
<1>12. Good(w) /\ Calm(x, w) /\ BadKept(x, w) /\ PromptsKept(x, w) /\ SameMarks(x, w) /\ w.foreground = x.foreground
  BY <1>4, <1>10, <1>11, SwitchedKeeps
<1>13. Untidy(w) /\ w \in Uis
  BY <1>12, GoodIsUntidy DEF Good
<1>14. Calm(u, w)
  BY <1>1, <1>5, <1>6, <1>12, <1>13, CalmTransitive
<1>15. BadKept(u, w) /\ PromptsKept(u, w) /\ SameMarks(u, w)
  BY <1>5, <1>6, <1>12 DEF BadKept, PromptsKept, SameMarks, SameRest
<1> QED BY <1>6, <1>12, <1>13, <1>14, <1>15 DEF Turned

\* An open approval goes back to the head of those that wait.
LEMMA ApprovalBack ==
    ASSUME NEW u \in Uis, u.mode \in Deployments, NEW w, w.mode = "browse", w.pending = <<u.mode>> \o u.pending
    PROVE  /\ \A i \in Dialogs : Called(w, i) => Called(u, i)
           /\ \A D \in SUBSET Deployments : InHand(u, D) => InHand(w, D)
<1> DEFINE s == <<u.mode>> \o u.pending
<1>1. u.pending \in Seq(Deployments)
  BY FieldTypes
<1>2. s \in Seq(Deployments) /\ Len(s) = 1 + Len(u.pending) /\ s[1] = u.mode
      /\ \A j \in 2..Len(s) : s[j] = u.pending[j - 1] /\ j - 1 \in 1..Len(u.pending)
  BY <1>1
<1>3. w.pending = s /\ DOMAIN s = 1..Len(s) /\ DOMAIN u.pending = 1..Len(u.pending)
  BY <1>1, <1>2
<1> HIDE DEF s
<1>4. ASSUME NEW i \in Dialogs, Called(w, i) PROVE Called(u, i)
  <2>1. ~ApprovalOf(w, i)
    BY Names DEF ApprovalOf
  <2>2. PICK j \in 1..Len(s) : Owner(s[j]) = i
    BY <1>3, <1>4, <2>1 DEF Called, HasPending
  <2>3. CASE j = 1
    BY <1>2, <2>2, <2>3 DEF Called, ApprovalOf
  <2>4. CASE j # 1
    <3>1. j \in 2..Len(s)
      BY <1>2, <2>2, <2>4
    <3>2. s[j] = u.pending[j - 1] /\ j - 1 \in DOMAIN u.pending
      BY <1>2, <1>3, <3>1
    <3> QED BY <2>2, <3>2 DEF Called, HasPending
  <2> QED BY <2>3, <2>4
<1>5. ASSUME NEW D \in SUBSET Deployments, InHand(u, D) PROVE InHand(w, D)
  <2>1. u.mode \in D /\ u.pending = <<>>
    BY <1>5 DEF InHand
  <2>2. Len(s) = 1 /\ s[1] \in D
    BY <1>2, <2>1
  <2> QED BY <1>3, <2>2, Names DEF InHand
<1> QED BY <1>4, <1>5

LEMMA InHandSame ==
    ASSUME NEW u, NEW v, v.mode = u.mode, v.pending = u.pending
    PROVE  \A D \in SUBSET Deployments : InHand(u, D) => InHand(v, D)
  BY DEF InHand

Back(p) == IF p.between = "ok" /\ ~Warned(p) THEN "none" ELSE p.between
ModeBack(u, own) == IF own THEN "browse" ELSE u.mode
PendingBack(u, own) == IF own THEN <<u.mode>> \o u.pending ELSE u.pending

AsideBy(u, id, own) ==
    [Put(u, id, [u.proc[id] EXCEPT
           !.minimised = TRUE, !.flashing = FALSE, !.aside = TRUE,
                   !.between = IF @ = "ok" /\ ~Warned(u.proc[id]) THEN "none" ELSE @])
            EXCEPT !.mode = IF own THEN "browse" ELSE @,
                   !.pending = IF own THEN <<u.mode>> \o @ ELSE @,
                   !.foreground = NoDialog]

LEMMA SetAsideIs ==
    ASSUME NEW u \in Uis, NEW id \in Dialogs, NEW own \in BOOLEAN, NEW z, z = AsideBy(u, id, own)
    PROVE  z = SetAside(u, id, Back(u.proc[id]), ModeBack(u, own), PendingBack(u, own))
<1> DEFINE p == u.proc[id]
           q == Asided(p, Back(p))
           x == Put(u, id, q)
<1>1. p \in DialogRecords /\ p.between \in Betweens
  BY FieldTypes, RecordTypes
<1>2. [p EXCEPT !.minimised = TRUE, !.flashing = FALSE, !.aside = TRUE,
                !.between = IF @ = "ok" /\ ~Warned(p) THEN "none" ELSE @] = q
  <2> HIDE DEF p
  <2> QED BY <1>1 DEF Asided, Back, DialogRecords
<1>3. q \in DialogRecords
  <2>1. Back(p) \in Betweens
    BY <1>1 DEF Back, Betweens
  <2> HIDE DEF p
  <2> QED BY <1>1, <2>1, AsidedIs
<1>4. x \in Uis /\ x.mode = u.mode /\ x.pending = u.pending
  <2> HIDE DEF q
  <2> QED BY <1>3, PutIs
<1>5. [x EXCEPT !.mode = IF own THEN "browse" ELSE @,
                !.pending = IF own THEN <<u.mode>> \o @ ELSE @,
                !.foreground = NoDialog] = Switched2(Fronted(x, NoDialog), ModeBack(u, own), PendingBack(u, own))
  <2> HIDE DEF x
  <2> QED BY <1>4 DEF Switched2, Fronted, ModeBack, PendingBack, Uis
<1> QED BY <1>2, <1>5 DEF SetAside, Placed, AsideBy

LEMMA SetAsideFronted ==
    ASSUME NEW u \in Uis, NEW id \in Dialogs, NEW b \in Betweens, NEW m, NEW s
    PROVE  SetAside(Fronted(u, id), id, b, m, s) = SetAside(u, id, b, m, s)
<1> DEFINE f == Fronted(u, id)
           q == Asided(u.proc[id], b)
<1>1. f.proc = u.proc
  BY FrontedIs
<1>2. Fronted(Put(f, id, q), NoDialog) = Fronted(Put(u, id, q), NoDialog)
  <2> HIDE DEF q
  <2> QED BY DEF Fronted, Put, Uis
<1> QED BY <1>1, <1>2 DEF SetAside, Placed

\* minimise: what has the screen goes to the task bar, an open approval with it.
LEMMA MinimiseKeeps ==
    ASSUME NEW u, Good(u), number \in [Requests -> Nat]
    PROVE  LET v == MinimiseDialog(u)
           IN  /\ Good(v) /\ Turned(u, v)
               /\ \/ v.foreground = NoDialog
                  \/ v = u /\ ~ShownPrompt(u) /\ ~ApprovalOf(u, u.foreground) /\ ~BetweenShown(u)
<1> DEFINE v == MinimiseDialog(u)
<1>1. u \in Uis /\ u.foreground \in Dialogs \union {NoDialog} /\ Turned(u, u) /\ u.mode \in Modes
      /\ u.pending \in Seq(Deployments)
  BY TurnedItself, FieldTypes DEF Good
<1>2. CASE u.foreground = NoDialog /\ u.mode \notin Deployments
  <2>1. v = u /\ v.foreground = NoDialog
    BY <1>2 DEF MinimiseDialog
  <2> QED BY <1>1, <2>1
<1>3. ASSUME NEW e, Good(e), Turned(u, e), NEW id \in Dialogs, e.proc[id].here, e.foreground \in {id, NoDialog},
             e.mode = u.mode, e.pending = u.pending, NEW own, own = ApprovalOf(u, id),
             v = Tidy(SetAside(e, id, Back(e.proc[id]), ModeBack(e, own), PendingBack(e, own)))
      PROVE  Good(v) /\ Turned(u, v) /\ v.foreground = NoDialog
  <2> DEFINE b == Back(e.proc[id])
             m == ModeBack(e, own)
             s == PendingBack(e, own)
             w == SetAside(e, id, b, m, s)
  <2>1. e \in Uis /\ e.proc[id].between \in Betweens
    BY <1>3, FieldTypes, RecordTypes DEF Good
  <2>2. b \in Betweens /\ (b = e.proc[id].between \/ (e.proc[id].between = "ok" /\ b = "none"))
    BY <2>1 DEF Back, Betweens
  <2>3. m \in Modes /\ s \in Seq(Deployments)
    <3>1. CASE own
      <4>1. e.mode \in Deployments /\ m = "browse" /\ s = <<e.mode>> \o e.pending /\ e.pending \in Seq(Deployments)
        BY <1>1, <1>3, <3>1 DEF ModeBack, PendingBack, ApprovalOf
      <4>2. <<e.mode>> \in Seq(Deployments)
        BY <4>1
      <4> QED BY <4>1, <4>2, ConcatProperties DEF Modes
    <3>2. CASE ~own
      BY <1>1, <1>3, <3>2 DEF ModeBack, PendingBack
    <3> QED BY <3>1, <3>2
  <2>4. w = SetAside(e, id, b, m, s)
    OBVIOUS
  <2> HIDE DEF b, m, s, w
  <2>5. w.mode = m /\ w.pending = s
    <3> DEFINE x == Placed(e, id, Asided(e.proc[id], b), NoDialog)
    <3>1. x \in Uis
      <4>1. Asided(e.proc[id], b) \in DialogRecords
        BY <2>1, <2>2, FieldTypes, AsidedIs
      <4>2. Put(e, id, Asided(e.proc[id], b)) \in Uis
        BY <2>1, <4>1, PutIs
      <4> QED BY <4>2, FrontedIs DEF Placed
    <3> HIDE DEF x
    <3>2. w = Switched2(x, m, s)
      BY <2>4 DEF SetAside, x
    <3> QED BY <2>3, <3>1, <3>2, SwitchedIs
  <2>6. /\ \A i \in Dialogs : Called(w, i) => Called(e, i)
        /\ \A D \in SUBSET Deployments : InHand(e, D) => InHand(w, D)
    <3>1. CASE own
      <4>1. e.mode \in Deployments /\ w.mode = "browse" /\ w.pending = <<e.mode>> \o e.pending
        BY <1>3, <2>5, <3>1 DEF ApprovalOf, m, s, ModeBack, PendingBack
      <4> QED BY <2>1, <4>1, ApprovalBack
    <3>2. CASE ~own
      <4>1. w.mode = e.mode /\ w.pending = e.pending
        BY <2>5, <3>2 DEF m, s, ModeBack, PendingBack
      <4> QED BY <4>1, CalledSame, InHandSame
    <3> QED BY <3>1, <3>2
  <2>7. Good(w) /\ Turned(e, w) /\ w.foreground = NoDialog
    BY <1>3, <2>2, <2>3, <2>4, <2>6, SetAsideKeeps
  <2>8. Tame(w, v) /\ PromptsKept(w, v) /\ v = Tidy(w) /\ w \in Uis /\ Untidy(w)
    BY <1>3, <2>7, TidyTame, GoodIsUntidy DEF w, b, m, s, Good
  <2>9. v.foreground = NoDialog
    BY <2>7, <2>8, TidyKeeps
  <2>10. Good(v) /\ v \in Uis /\ Turned(w, v)
    <3>1. Good(v) /\ v \in Uis /\ Calm(w, v) /\ BadKept(w, v) /\ SameRest(w, v)
      BY <2>8 DEF Tame, Good, Follows
    <3>2. Untidy(v)
      BY <3>1, GoodIsUntidy
    <3>3. \A D \in SUBSET Deployments : InHand(w, D) => InHand(v, D)
      BY <3>1, InHandSame DEF SameRest
    <3> QED BY <2>8, <3>1, <3>2, <3>3 DEF Turned, SameMarks, SameRest
  <2>11. Turned(e, v)
    BY <2>1, <2>7, <2>8, <2>10, TurnedTransitive
  <2>12. Turned(u, v)
    BY <1>1, <1>3, <2>1, <2>10, <2>11, TurnedTransitive
  <2> QED BY <2>9, <2>10, <2>12
<1>4. CASE u.foreground = NoDialog /\ u.mode \in Deployments
  <2> DEFINE id == Owner(u.mode)
             e == Ensure(u, id, number[u.mode])
             f == Fronted(e, id)
             own == ApprovalOf(f, id)
  <2>1. id \in Dialogs /\ number[u.mode] \in Nat /\ id # NoDialog
    BY <1>4, Names, ProcedureNames
  <2>2. /\ Good(e) /\ Follows(u, e) /\ SameRest(u, e) /\ e.foreground = NoDialog /\ e.proc[id].here
        /\ e.proc[id].prompts = u.proc[id].prompts /\ \A i \in Dialogs : i # id => e.proc[i] = u.proc[i]
    <3> DEFINE n == number[u.mode]
    <3> HIDE DEF id, n
    <3>1. n \in Nat
      BY <2>1 DEF n
    <3> QED BY <1>4, <2>1, <3>1, EnsureKeeps DEF n
  <2> HIDE DEF e
  <2>3. e \in Uis
    BY <2>2 DEF Good
  <2>4. f \in Uis /\ f.proc = e.proc /\ SameRest(e, f)
    BY <2>1, <2>3, FrontedIs
  <2>5. own = TRUE /\ ApprovalOf(u, id) = TRUE
    BY <1>4, <2>2, <2>4 DEF ApprovalOf, SameRest
  <2>6. v = Tidy(SetAside(f, id, Back(f.proc[id]), ModeBack(f, TRUE), PendingBack(f, TRUE)))
    <3>1. f = [e EXCEPT !.foreground = id]
      BY DEF Fronted
    <3>2. v = Tidy(AsideBy(f, id, TRUE))
      BY <1>4, <2>1, <2>5, <3>1 DEF MinimiseDialog, e, AsideBy
    <3> HIDE DEF f, id
    <3> QED BY <2>1, <2>4, <3>2, SetAsideIs
  <2>7. v = Tidy(SetAside(e, id, Back(e.proc[id]), ModeBack(e, TRUE), PendingBack(e, TRUE)))
    <3> DEFINE b == Back(e.proc[id])
    <3>1. b \in Betweens
      BY <2>1, <2>3, FieldTypes, RecordTypes DEF Back, Betweens
    <3>2. ModeBack(f, TRUE) = ModeBack(e, TRUE) /\ PendingBack(f, TRUE) = PendingBack(e, TRUE)
      BY <2>4 DEF ModeBack, PendingBack, SameRest
    <3> DEFINE m == ModeBack(e, TRUE)
               s == PendingBack(e, TRUE)
    <3> HIDE DEF b, id, m, s
    <3>3. SetAside(Fronted(e, id), id, b, m, s) = SetAside(e, id, b, m, s)
      BY <2>1, <2>3, <3>1, SetAsideFronted
    <3> QED BY <2>4, <2>6, <3>2, <3>3 DEF b, m, s
  <2>8. Turned(u, e)
    <3>1. PromptsKept(u, e)
      BY <2>2 DEF PromptsKept
    <3>2. Untidy(e)
      BY <2>2, GoodIsUntidy
    <3>3. \A D \in SUBSET Deployments : InHand(u, D) => InHand(e, D)
      BY <2>2, InHandSame DEF SameRest
    <3> QED BY <2>2, <3>1, <3>2, <3>3 DEF Turned, Follows, SameMarks, SameRest
  <2> HIDE DEF id
  <2>9. e.mode = u.mode /\ e.pending = u.pending
    BY <2>2 DEF SameRest
  <2> QED BY <1>3, <2>1, <2>2, <2>5, <2>7, <2>8, <2>9
<1>5. CASE u.foreground # NoDialog
  <2> DEFINE id == u.foreground
             own == ApprovalOf(u, id)
  <2>1. id \in Dialogs /\ u.proc[id].here
    BY <1>1, <1>5 DEF Good, DialogOK, Sound
  <2>2. CASE ~(ShownPrompt(u) \/ own \/ BetweenShown(u))
    <3>1. v = u
      BY <1>5, <2>2 DEF MinimiseDialog
    <3> QED BY <1>1, <2>2, <3>1
  <2>3. CASE ShownPrompt(u) \/ own \/ BetweenShown(u)
    <3>1. own \in BOOLEAN
      BY DEF ApprovalOf
    <3>2. v = Tidy(AsideBy(u, id, own))
      BY <1>5, <2>3 DEF MinimiseDialog, AsideBy
    <3>3. own = ApprovalOf(u, id) /\ u.foreground \in {id, NoDialog}
      OBVIOUS
    <3> HIDE DEF own, id
    <3>4. v = Tidy(SetAside(u, id, Back(u.proc[id]), ModeBack(u, own), PendingBack(u, own)))
      BY <1>1, <2>1, <3>1, <3>2, SetAsideIs
    <3> QED BY <1>1, <1>3, <2>1, <3>3, <3>4
  <2> QED BY <2>2, <2>3
<1> QED BY <1>1, <1>2, <1>4, <1>5

\* restore: another dialog takes the screen only when nothing is lost by it.
LEMMA RestoreKeeps ==
    ASSUME NEW u, Good(u), Settled(u), number \in [Requests -> Nat], NEW id \in Dialogs
    PROVE  Turned(u, RestoreDialog(u, id))
<1> DEFINE blocked == u.mode = "dialog" /\ ~ShownPrompt(u)
           v == IF u.foreground # id THEN MinimiseDialog(u) ELSE u
           w == Raised(v, id)
           z == RestoreDialog(u, id)
<1>1. u \in Uis /\ u.foreground \in Dialogs \union {NoDialog} /\ Turned(u, u) /\ u.mode \in Modes
  BY TurnedItself, FieldTypes DEF Good
<1>2. /\ Good(v) /\ Turned(u, v)
      /\ \/ v.foreground = NoDialog
         \/ v = u /\ u.foreground = id
         \/ v = u /\ ~ShownPrompt(u) /\ ~ApprovalOf(u, u.foreground) /\ ~BetweenShown(u)
  BY <1>1, MinimiseKeeps
<1>3. \/ z = u \/ z = v
      \/ /\ z = w \/ z = ShowPending(w)
         /\ u.proc[id].here /\ ~blocked /\ (u.foreground # id => v.mode \notin Deployments /\ v.proc[id].here)
  BY DEF RestoreDialog
<1> HIDE DEF v
<1>4. CASE z = u \/ z = v
  BY <1>1, <1>2, <1>4
<1>5. CASE /\ z = w \/ z = ShowPending(w)
           /\ u.proc[id].here /\ ~blocked /\ (u.foreground # id => v.mode \notin Deployments /\ v.proc[id].here)
  <2>1. v.proc[id].here
    BY <1>5 DEF v
  <2>2. GoodBut(v, id)
    BY <1>2 DEF Good, GoodBut, DialogOK
  <2>3. ASSUME NEW i \in Dialogs, i # id, v.foreground = i PROVE ~Insisting(v.proc[i], Called(v, i))
    <3>1. v = u /\ u.foreground = i /\ ~ShownPrompt(u) /\ ~ApprovalOf(u, i) /\ ~BetweenShown(u)
      BY <1>2, <2>3, Names
    <3>2. DialogOK(u, i) /\ OnScreen(u, i) /\ i # NoDialog
      BY <3>1, Names DEF Good, DialogOK, Sound, OnScreen
    <3>3. u.proc[i].prompts = <<>>
      BY <3>1, <3>2 DEF ShownPrompt
    <3>4. u.mode = "browse"
      BY <1>1, <1>5, <2>3, <3>1 DEF Modes
    <3>5. u.proc[i].between = "none" /\ ~HasPending(u, i)
      BY <3>1, <3>2, <3>3, <3>4 DEF BetweenShown, Settled
    <3> QED BY <3>1, <3>3, <3>5 DEF Insisting, Called
  <2>4. Untidy(w) /\ Calm(v, w) /\ BadKept(v, w) /\ SameRest(v, w) /\ PromptsKept(v, w)
    BY <2>1, <2>2, <2>3, RaisedKeeps
  <2> HIDE DEF w
  <2>5. w \in Uis /\ v \in Uis
    BY <1>2, <2>4 DEF Untidy, Good
  <2>6. Turned(v, w)
    <3>1. \A D \in SUBSET Deployments : InHand(v, D) => InHand(w, D)
      BY <2>4, InHandSame DEF SameRest
    <3> QED BY <2>4, <3>1 DEF Turned, SameMarks, SameRest
  <2>7. Turned(u, w)
    BY <1>1, <1>2, <2>5, <2>6, TurnedTransitive
  <2>8. CASE z = w
    BY <2>7, <2>8
  <2>9. CASE z = ShowPending(w)
    <3>1. Shown(w, ShowPending(w)) /\ ShowPending(w) \in Uis
      BY <2>4, ShowPendingKeeps DEF Shown, Good
    <3> QED BY <1>1, <2>5, <2>7, <2>9, <3>1, ShownTurned, TurnedTransitive
  <2> QED BY <1>5, <2>8, <2>9
<1> QED BY <1>3, <1>4, <1>5

\* dismiss_result: what is on screen was seen.
LEMMA DismissResultKeeps ==
    ASSUME NEW u, Good(u), u.foreground # NoDialog, OnScreen(u, u.foreground)
    PROVE  LET v == DismissResult(u)
           IN  /\ Good(v) /\ Calm(u, v) /\ SameRest(u, v) /\ Quieter(u, v) /\ PromptsKept(u, v)
               /\ \A p \in Procs : u.proc[p].between = "bad" => v.proc[p].between = "bad" \/ OnScreen(u, p)
               /\ u.proc[u.foreground].between # "bad" => BadKept(u, v)
<1> DEFINE id == u.foreground
           p == u.proc[id]
           b == IF p.between \in {"ok", "bad"} THEN "none" ELSE p.between
           q == Reworked(p, p.prompts, p.flight, b)
           w == Put(u, id, q)
           v == DismissResult(u)
<1>1. u \in Uis /\ id \in Dialogs
  BY FieldTypes DEF Good
<1>2. /\ p \in DialogRecords /\ DialogOK(u, id) /\ p.prompts \in Seq(Prompts) /\ p.flight \in SUBSET InFlights
      /\ p.between \in Betweens
  BY <1>1, FieldTypes, RecordTypes DEF Good
<1>3. b \in Betweens /\ (b = p.between \/ b \notin {"ok", "bad"})
  BY <1>2 DEF Betweens
<1>4. Implicit(id) => b = "none" /\ p.flight = {}
  BY <1>2 DEF DialogOK, Sound
<1>5. ~p.here => p.flight = {}
  BY <1>2 DEF DialogOK, Sound
<1>6. v = Tidy(w)
  BY <1>2 DEF DismissResult, Reworked, DialogRecords
<1>7. q = Reworked(u.proc[id], p.prompts, p.flight, b) /\ w = Put(u, id, q) /\ p = u.proc[id]
  OBVIOUS
<1>8. p.between # "bad" => b # "none" \/ p.between \in {"ok", "none"}
  BY <1>3
<1> HIDE DEF b, q, id, w, p
<1>9. Reworks(u, w, id, q, p.prompts, b)
  BY <1>1, <1>2, <1>3, <1>4, <1>5, <1>7, ReworkedGood
<1>10. /\ Good(w) /\ Calm(u, w) /\ SameRest(u, w) /\ Quieter(u, w)
       /\ w.proc[id] = q /\ q.prompts = p.prompts /\ q.between = b
       /\ \A i \in Dialogs : i # id => w.proc[i] = u.proc[i]
  BY <1>9 DEF Reworks
<1>11. PromptsKept(u, w)
  BY <1>7, <1>10 DEF PromptsKept
<1>12. \A i \in Procs : u.proc[i].between = "bad" => w.proc[i].between = "bad" \/ OnScreen(u, i)
  BY <1>10, RunningIsProc DEF id
<1>13. p.between # "bad" => BadKept(u, w)
  BY <1>7, <1>10, RunningIsProc DEF BadKept
<1>14. Tame(w, v) /\ PromptsKept(w, v)
  BY <1>6, <1>10, TidyTame
<1> HIDE DEF v
<1>15. Good(v) /\ w \in Uis /\ v \in Uis
  BY <1>10, <1>14 DEF Tame, Good
<1>16. Calm(u, v)
  BY <1>1, <1>10, <1>14, <1>15, CalmTransitive DEF Tame, Follows
<1>17. SameRest(u, v) /\ Quieter(u, v) /\ PromptsKept(u, v)
  BY <1>10, <1>11, <1>14 DEF Tame, Follows, SameRest, Quieter, PromptsKept
<1>18. \A i \in Procs : u.proc[i].between = "bad" => v.proc[i].between = "bad" \/ OnScreen(u, i)
  BY <1>12, <1>14 DEF Tame, Follows, BadKept
<1>19. p.between # "bad" => BadKept(u, v)
  BY <1>13, <1>14 DEF Tame, Follows, BadKept
<1> QED BY <1>15, <1>16, <1>17, <1>18, <1>19 DEF v, p, id

LEMMA SettledStays ==
    ASSUME NEW u, NEW v, Settled(u), Quieter(u, v)
    PROVE  Settled(v)
<1>1. \A i \in Dialogs : HasPending(v, i) => HasPending(u, i)
  BY DEF HasPending, Quieter
<1> QED BY <1>1 DEF Settled, Quieter

\* What is drawn of what was quieted.
LEMMA DrawnThrough ==
    ASSUME NEW u \in Uis, NEW v \in Uis, NEW w \in Uis, Calm(u, v), BadKept(u, v), Quieter(u, v), NoPromptMore(u, v),
           v.lost = u.lost, Drawn(v, w)
    PROVE  Drawn(u, w)
<1>1. Calm(u, w)
  BY CalmTransitive DEF Drawn
<1>2. NoPromptMore(u, w)
  BY DEF Drawn, NoPromptMore
<1>3. BadSeen(u, w)
  BY RunningIsProc DEF Drawn, BadSeen, BadKept, Quieter, ApprovalOf
<1> QED BY <1>1, <1>2, <1>3 DEF Drawn

LEMMA ActedItself ==
    ASSUME NEW u, Good(u), Settled(u)
    PROVE  Acted(u, u)
  BY FollowsItself DEF Acted, Good, NoPromptMore, BadSeen

\* offer_approval of the first claim: it waits in its dialog, or is opened.
LEMMA OfferKeeps ==
    ASSUME NEW u, Good(u), Settled(u), number \in [Requests -> Nat], NEW d \in Deployments,
           u.pending = <<>>, u.mode \notin Deployments
    PROVE  Acted(u, OfferApproval(u, d)) /\ InHand(OfferApproval(u, d), {d})
<1> DEFINE id == Owner(d)
           n == number[d]
           e == Ensure(u, id, n)
           p == e.proc[id]
           q == Reworked(p, p.prompts, p.flight, "none")
           v == Put(e, id, q)
           x == Switched2(v, v.mode, Append(v.pending, d))
           a == Arrive(x, id)
           z == ShowPending(a)
<1>1. u \in Uis /\ id \in Dialogs /\ n \in Nat /\ u.mode # d
  BY Names, ProcedureNames DEF Good
<1>2. CASE d \in u.completed
  <2>1. OfferApproval(u, d) = u
    BY <1>2 DEF OfferApproval
  <2>2. InHand(u, {d})
    BY DEF InHand
  <2> QED BY <2>1, <2>2, ActedItself
<1>3. CASE d \notin u.completed
  <2>1. OfferApproval(u, d) = ShowPending(Arrive([Put(e, id, [p EXCEPT !.between = "none"]) EXCEPT !.pending = Append(@, d)], id))
    BY <1>1, <1>3 DEF OfferApproval
  <2> HIDE DEF id, n
  <2>2. /\ Good(e) /\ Follows(u, e) /\ SameRest(u, e) /\ e.foreground = u.foreground
        /\ p.here /\ p.prompts = u.proc[id].prompts /\ p.between = u.proc[id].between
        /\ \A i \in Dialogs : i # id => e.proc[i] = u.proc[i]
    BY <1>1, EnsureKeeps
  <2> HIDE DEF e
  <2>3. /\ e \in Uis /\ p \in DialogRecords /\ DialogOK(e, id) /\ p.prompts \in Seq(Prompts)
        /\ p.flight \in SUBSET InFlights
    BY <1>1, <2>2, FieldTypes, RecordTypes DEF Good
  <2>4. Implicit(id) => p.flight = {}
    BY <2>3 DEF DialogOK, Sound
  <2>5. [p EXCEPT !.between = "none"] = q
    BY <2>3 DEF Reworked, DialogRecords
  <2>6. q = Reworked(e.proc[id], p.prompts, p.flight, "none") /\ v = Put(e, id, q) /\ p = e.proc[id]
    OBVIOUS
  <2> DEFINE none == "none"
  <2>7. none \in Betweens /\ none \notin {"ok", "bad"} /\ none = "none"
    BY DEF Betweens
  <2> HIDE DEF p
  <2>8. Reworks(e, v, id, q, p.prompts, none)
    <3> HIDE DEF none, q, v
    <3>1. q = Reworked(e.proc[id], p.prompts, p.flight, none)
      BY <2>6, <2>7 DEF q
    <3>2. (e.proc[id].prompts = <<>> => p.prompts = <<>>) /\ (~e.proc[id].here => p.flight = {})
      BY <2>2, <2>6
    <3> QED BY <1>1, <2>2, <2>3, <2>4, <2>6, <2>7, <3>1, <3>2, ReworkedGood
  <2>9. /\ Good(v) /\ Calm(e, v) /\ SameRest(e, v) /\ v.foreground = e.foreground
        /\ v.proc[id] = q /\ q.prompts = p.prompts
        /\ \A i \in Dialogs : i # id => v.proc[i] = e.proc[i]
    BY <2>8 DEF Reworks
  <2>10. q.here
    <3>1. q.here = p.here
      BY <2>3 DEF Reworked, DialogRecords
    <3> QED BY <2>2, <3>1 DEF p
  <2>11. OfferApproval(u, d) = z
    <3>1. [v EXCEPT !.pending = Append(@, d)] = x
      <4>1. v \in Uis
        BY <2>9 DEF Good
      <4> HIDE DEF v
      <4> QED BY <4>1 DEF Switched2, Uis
    <3> QED BY <2>1, <2>5, <3>1
  <2> HIDE DEF q, v
  <2>12. v \in Uis /\ v.mode = u.mode /\ v.pending = <<>> /\ Append(v.pending, d) = <<d>> /\ <<d>> \in Seq(Deployments)
         /\ v.mode \in Modes /\ v.lost = u.lost
    BY <2>2, <2>9, FieldTypes DEF Good, SameRest
  <2>13. /\ x \in Uis /\ x.mode = v.mode /\ x.pending = <<d>> /\ SameDialogs(v, x)
    <3> DEFINE m == v.mode
               s == Append(v.pending, d)
    <3>1. m \in Modes /\ s \in Seq(Deployments) /\ x = Switched2(v, m, s) /\ s = <<d>>
      BY <2>12
    <3> HIDE DEF m, s, x
    <3>2. v \in Uis
      BY <2>12
    <3>3. /\ Switched2(v, m, s) \in Uis /\ Switched2(v, m, s).mode = m /\ Switched2(v, m, s).pending = s
          /\ SameDialogs(v, Switched2(v, m, s))
      <4>1. m \in Modes /\ s \in Seq(Deployments)
        BY <3>1
      <4> QED BY <3>2, <4>1 DEF Uis, SameDialogs, Switched2
    <3> QED BY <3>1, <3>3 DEF m
  <2> HIDE DEF x
  <2>14. x.foreground = v.foreground /\ x.proc = v.proc /\ x.misled = v.misled /\ x.lost = v.lost
    BY <2>13 DEF SameDialogs
  <2>15. /\ HasPending(x, id) /\ ~ApprovalOf(x, id)
         /\ \A i \in Dialogs : i # id => ~HasPending(x, i) /\ ~ApprovalOf(x, i) /\ ~Called(x, i)
    <3>1. DOMAIN x.pending = {1} /\ x.pending[1] = d
      BY <2>13
    <3>2. x.mode \notin Deployments
      BY <2>12, <2>13
    <3> QED BY <3>1, <3>2 DEF HasPending, ApprovalOf, Called, id
  <2>16. GoodBut(x, id)
    <3>1. Sound(x.proc[id], id, x.foreground = id)
      BY <1>1, <2>9, <2>14 DEF Good, DialogOK
    <3>2. ASSUME NEW i \in Dialogs, i # id PROVE DialogOK(x, i)
      <4>1. DialogOK(v, i) /\ ~Called(x, i)
        BY <2>9, <2>15, <3>2 DEF Good
      <4> QED BY <2>14, <4>1 DEF DialogOK, Pressing
    <3> QED BY <2>13, <3>1, <3>2 DEF GoodBut
  <2>17. Moved(x, a, id)
    BY <1>1, <2>9, <2>10, <2>14, <2>15, <2>16, ArriveKeeps
  <2> HIDE DEF a
  <2>18. Shown(a, z)
    BY <2>17, GoodIsUntidy, ShowPendingKeeps DEF Moved
  <2> HIDE DEF z
  <2>19. a \in Uis /\ z \in Uis /\ Calm(x, a) /\ Calm(a, z) /\ Good(z) /\ Settled(z)
    BY <2>17, <2>18 DEF Moved, Shown, Good
  <2>20. Calm(u, z)
    <3>1. Calm(u, v)
      BY <1>1, <2>2, <2>3, <2>9, <2>12, CalmTransitive DEF Follows
    <3>2. Calm(v, x)
      BY <2>12, <2>14, FollowsItself DEF Calm
    <3> QED BY <1>1, <2>12, <2>13, <2>19, <3>1, <3>2, CalmTransitive
  <2>21. NoPromptMore(u, z)
    <3>1. PromptsKept(u, z)
      <4>1. PromptsKept(u, x)
        BY <2>2, <2>9, <2>14 DEF PromptsKept
      <4> QED BY <2>17, <2>18, <4>1 DEF PromptsKept, Moved, Shown
    <3> QED BY <3>1, PromptsButSelf
  <2>22. z.lost = u.lost
    BY <2>12, <2>14, <2>17, <2>18 DEF Moved, Shown, SameRest, SameMarks
  <2>23. BadSeen(u, z)
    <3> SUFFICES ASSUME NEW j \in Procs, u.proc[j].between = "bad" PROVE z.proc[j].between = "bad" \/ Called(z, j)
      BY DEF BadSeen
    <3>1. CASE j = id
      <4>1. HasPending(a, id)
        BY <2>15, <2>17 DEF Moved, SameRest, HasPending
      <4>2. Called(z, id) = Called(a, id)
        BY <1>1, <2>18 DEF Shown
      <4> QED BY <3>1, <4>1, <4>2 DEF Called
    <3>2. CASE j # id
      <4>1. x.proc[j] = u.proc[j]
        BY <2>2, <2>9, <2>14, <3>2, RunningIsProc
      <4> QED BY <2>17, <2>18, <4>1 DEF Moved, Shown, BadKept
    <3> QED BY <3>1, <3>2
  <2>24. InHand(z, {d})
    <3>1. InHand(x, {d})
      BY <2>12, <2>13 DEF InHand
    <3>2. InHand(a, {d})
      BY <2>17, <3>1, InHandSame DEF Moved, SameRest
    <3> QED BY <2>18, <3>2 DEF Shown
  <2> QED BY <2>11, <2>19, <2>20, <2>21, <2>22, <2>23, <2>24 DEF Acted
<1> QED BY <1>2, <1>3

\* deployment_answered: only what is in flight and what is shown changes, and the
\* operator had the approval before them.
LEMMA AnsweredKeeps ==
    ASSUME NEW u, Good(u), number \in [Requests -> Nat], NEW d \in Deployments, u.mode = d, u.pending = <<>>,
           NEW yes \in BOOLEAN
    PROVE  LET w == [DeploymentAnswered(u, d) EXCEPT !.mode = IF yes THEN "browse" ELSE @]
           IN  Drawn(u, w) /\ InHand(w, IF yes THEN {} ELSE {d})
<1> DEFINE id == Owner(d)
           k == [i \in Dialogs |-> u.proc[i].prompts]
           e == [i \in Dialogs |-> {f \in u.proc[i].flight : f.kind # "deploy" \/ f.req = d}]
           g == [i \in Dialogs |-> Fewer(u.proc[i], k[i], e[i])]
           v == Redrawn(u, g, u.foreground)
           flight == [req |-> d, n |-> number[d], kind |-> "deploy", denied |-> FALSE]
           x == DeploymentAnswered(u, d)
           w == [x EXCEPT !.mode = IF yes THEN "browse" ELSE @]
<1>1. u \in Uis /\ id \in Dialogs /\ \A i \in Dialogs : u.proc[i] \in DialogRecords /\ u.proc[i].prompts \in Seq(Prompts)
  BY Names, ProcedureNames, FieldTypes, RecordTypes DEF Good
<1>2. [u EXCEPT !.proc = [i \in Dialogs |->
          [u.proc[i] EXCEPT !.flight = {f \in @ : f.kind # "deploy" \/ f.req = d}]]] = v
  <2>1. ASSUME NEW i \in Dialogs
        PROVE  [u.proc[i] EXCEPT !.flight = {f \in @ : f.kind # "deploy" \/ f.req = d}] = g[i]
    <3> DEFINE p == u.proc[i]
               t == {f \in p.flight : f.kind # "deploy" \/ f.req = d}
    <3>1. p \in DialogRecords
      BY <1>1, <2>1
    <3>2. g[i] = Fewer(p, p.prompts, t)
      BY <2>1
    <3>3. [p EXCEPT !.flight = {f \in @ : f.kind # "deploy" \/ f.req = d}] = [p EXCEPT !.flight = t]
      OBVIOUS
    <3>4. [p EXCEPT !.flight = t] = Fewer(p, p.prompts, t)
      <4> HIDE DEF p, t
      <4> QED BY <3>1 DEF Fewer, DialogRecords
    <3> QED BY <3>2, <3>3, <3>4
  <2>2. [i \in Dialogs |-> [u.proc[i] EXCEPT !.flight = {f \in @ : f.kind # "deploy" \/ f.req = d}]] = g
    BY <2>1
  <2> HIDE DEF g
  <2> QED BY <1>1, <2>2 DEF Redrawn, Uis
<1>3. /\ k \in [Dialogs -> Seq(Prompts)]
      /\ \A i \in Dialogs : e[i] \in SUBSET u.proc[i].flight /\ (u.proc[i].prompts = <<>> => k[i] = <<>>)
  BY <1>1
<1>4. g = [i \in Dialogs |-> Fewer(u.proc[i], k[i], e[i])]
  OBVIOUS
<1>5. ASSUME NEW i \in Dialogs
      PROVE  /\ g[i] \in DialogRecords /\ g[i].prompts = u.proc[i].prompts /\ g[i].between = u.proc[i].between
             /\ g[i].flight \subseteq u.proc[i].flight
  <2> DEFINE p == u.proc[i]
             s == k[i]
             t == e[i]
  <2>1. p \in DialogRecords /\ s \in Seq(Prompts) /\ t \in SUBSET p.flight /\ g[i] = Fewer(p, s, t) /\ s = p.prompts
    BY <1>1, <1>3, <1>5
  <2> HIDE DEF p, s, t
  <2>2. Fewer(p, s, t) \in DialogRecords /\ Fewer(p, s, t).prompts = s /\ Fewer(p, s, t).between = p.between
        /\ Fewer(p, s, t).flight = t
    BY <2>1, FewerIs
  <2> QED BY <2>1, <2>2 DEF p
<1> HIDE DEF k, e, g
<1>6. Tame(u, v)
  BY <1>3, <1>4, FewerInAll
<1>7. v \in Uis /\ v.proc = g /\ v.foreground = u.foreground /\ SameRest(u, v) /\ Good(v)
  <2>1. g \in [Dialogs -> DialogRecords] /\ u.foreground \in Dialogs \union {NoDialog}
    BY <1>1, <1>4, <1>5, FieldTypes
  <2> QED BY <1>1, <1>6, <2>1, RedrawnIs DEF Tame
<1> DEFINE y0 == [u EXCEPT !.proc = [i \in Dialogs |->
                    [u.proc[i] EXCEPT !.flight = {f \in @ : f.kind # "deploy" \/ f.req = d}]]]
<1>8a. x = IF Implicit(id) \/ ~y0.proc[id].here THEN y0
           ELSE Put(y0, id, [y0.proc[id] EXCEPT
                    !.flight = IF \E f \in @ : f.req = d THEN @ ELSE @ \union {flight},
                    !.between = IF y0.proc[id].prompts = <<>> THEN "working" ELSE @])
  BY ZenonT(30) DEF DeploymentAnswered
<1>8b. y0 = v
  BY <1>2
<1> HIDE DEF v, y0
<1>8. x = IF Implicit(id) \/ ~v.proc[id].here THEN v
          ELSE Put(v, id, [v.proc[id] EXCEPT
                    !.flight = IF \E f \in @ : f.req = d THEN @ ELSE @ \union {flight},
                    !.between = IF v.proc[id].prompts = <<>> THEN "working" ELSE @])
  BY <1>8a, <1>8b
<1>9. /\ Good(x) /\ Calm(v, x) /\ SameRest(v, x) /\ PromptsKept(v, x)
      /\ \A i \in Dialogs : i # id => x.proc[i] = v.proc[i]
  <2>1. CASE Implicit(id) \/ ~v.proc[id].here
    <3>1. x = v
      BY <1>8, <2>1
    <3> QED BY <1>7, <3>1, FollowsItself DEF SameRest, PromptsKept
  <2>2. CASE ~Implicit(id) /\ v.proc[id].here
    <3> DEFINE p == v.proc[id]
               t == IF \E f \in p.flight : f.req = d THEN p.flight ELSE p.flight \union {flight}
               b == IF p.prompts = <<>> THEN "working" ELSE p.between
               q == Reworked(p, p.prompts, t, b)
               y == Put(v, id, q)
    <3>1. p \in DialogRecords /\ p.prompts \in Seq(Prompts) /\ p.flight \in SUBSET InFlights /\ p.between \in Betweens
      BY <1>1, <1>7, FieldTypes, RecordTypes
    <3>2. t \in SUBSET InFlights
      <4>1. flight \in InFlights
        BY ProcedureNames DEF InFlights
      <4> HIDE DEF flight
      <4> QED BY <3>1, <4>1
    <3>3. b \in Betweens /\ (b = p.between \/ b \notin {"ok", "bad"})
      BY <3>1 DEF Betweens
    <3>4. x = y
      <4>1. x = Put(v, id, [p EXCEPT
                    !.flight = IF \E f \in @ : f.req = d THEN @ ELSE @ \union {flight},
                    !.between = IF p.prompts = <<>> THEN "working" ELSE @])
        BY <1>8, <2>2
      <4>2. [p EXCEPT !.flight = IF \E f \in @ : f.req = d THEN @ ELSE @ \union {flight},
                      !.between = IF p.prompts = <<>> THEN "working" ELSE @]
            = [p EXCEPT !.flight = t, !.between = b]
        BY <3>1 DEF DialogRecords
      <4>3. [p EXCEPT !.flight = t, !.between = b] = q
        <5> HIDE DEF p, t, b
        <5> QED BY <3>1 DEF Reworked, DialogRecords
      <4> QED BY <4>1, <4>2, <4>3
    <3>5. q = Reworked(v.proc[id], p.prompts, t, b) /\ y = Put(v, id, q) /\ p = v.proc[id]
      OBVIOUS
    <3> HIDE DEF p, t, b, q, y
    <3>6. Reworks(v, y, id, q, p.prompts, b)
      <4>1. (v.proc[id].prompts = <<>> => p.prompts = <<>>) /\ (b = v.proc[id].between \/ b \notin {"ok", "bad"})
        BY <3>3, <3>5
      <4> QED BY <1>1, <1>7, <2>2, <3>1, <3>2, <3>3, <3>5, <4>1, ReworkedGood
    <3>7. /\ Good(y) /\ Calm(v, y) /\ SameRest(v, y) /\ y.proc[id] = q /\ q.prompts = p.prompts
          /\ \A i \in Dialogs : i # id => y.proc[i] = v.proc[i]
      BY <3>6 DEF Reworks
    <3> QED BY <3>4, <3>5, <3>7 DEF PromptsKept
  <2> QED BY <2>1, <2>2
<1> HIDE DEF x
<1>10. x \in Uis /\ x.mode = d /\ x.pending = <<>> /\ x.lost = u.lost
  BY <1>7, <1>9 DEF Good, SameRest
<1> DEFINE browse == IF yes THEN "browse" ELSE d
           nil == x.pending
<1>11. w = Switched2(x, browse, nil) /\ browse \in Modes /\ nil \in Seq(Deployments)
  BY <1>10 DEF Switched2, Uis, Modes
<1> HIDE DEF w
<1>12. /\ Good(w) /\ Calm(x, w) /\ BadKept(x, w) /\ PromptsKept(x, w) /\ SameMarks(x, w)
       /\ w.mode = (IF yes THEN "browse" ELSE d) /\ w.pending = <<>>
  <2>1. x \in Uis /\ w \in Uis /\ w.mode = browse /\ w.pending = nil
    <3> HIDE DEF browse, nil
    <3> QED BY <1>10, <1>11, SwitchedIs
  <2>2. \A i \in Dialogs : Called(w, i) => Called(x, i)
    BY <1>10, <2>1, Names DEF Called, HasPending, ApprovalOf
  <2> HIDE DEF browse, nil
  <2>3. /\ Good(w) /\ Calm(x, w) /\ BadKept(x, w) /\ PromptsKept(x, w) /\ SameMarks(x, w)
    BY <1>9, <1>11, <2>2, SwitchedKeeps
  <2> QED BY <1>10, <2>1, <2>3 DEF browse, nil
<1>13. InHand(w, IF yes THEN {} ELSE {d})
  BY <1>12, Names DEF InHand
<1>14. w \in Uis /\ Untidy(w)
  BY <1>12, GoodIsUntidy DEF Good
<1>15. Calm(u, w)
  BY <1>1, <1>6, <1>7, <1>9, <1>10, <1>12, <1>14, CalmTransitive DEF Tame, Follows
<1>16. PromptsKept(u, w)
  BY <1>5, <1>7, <1>9, <1>12 DEF PromptsKept
<1>17. w.lost = u.lost
  BY <1>10, <1>12 DEF SameMarks
<1>18. BadSeen(u, w)
  <2> SUFFICES ASSUME NEW j \in Procs, u.proc[j].between = "bad" PROVE w.proc[j].between = "bad" \/ ApprovalOf(u, j)
    BY DEF BadSeen
  <2>1. CASE j = id
    BY <2>1 DEF ApprovalOf
  <2>2. CASE j # id
    <3>1. x.proc[j].between = "bad"
      BY <1>5, <1>7, <1>9, <2>2, RunningIsProc
    <3> QED BY <1>12, <3>1 DEF BadKept
  <2> QED BY <2>1, <2>2
<1>19. Drawn(u, w)
  BY <1>14, <1>15, <1>16, <1>17, <1>18, PromptsButSelf DEF Drawn
<1> QED BY <1>13, <1>19 DEF w, x

\* Fewer approvals are open or pending.
LEMMA FewerCalls ==
    ASSUME NEW u \in Uis, NEW v, v.mode = u.mode \/ v.mode = "browse", v.pending \in Seq(Deployments),
           Len(v.pending) <= Len(u.pending),
           \A j \in 1..Len(v.pending) : \E k \in 1..Len(u.pending) : v.pending[j] = u.pending[k]
    PROVE  /\ \A i \in Dialogs : Called(v, i) => Called(u, i)
           /\ \A D \in SUBSET Deployments : InHand(u, D) => InHand(v, D)
<1>1. u.pending \in Seq(Deployments)
  BY FieldTypes
<1>2. ASSUME NEW i \in Dialogs, HasPending(v, i) PROVE HasPending(u, i)
  BY <1>1, <1>2 DEF HasPending
<1>3. ASSUME NEW i \in Dialogs, ApprovalOf(v, i) PROVE ApprovalOf(u, i)
  BY <1>3, Names DEF ApprovalOf
<1>4. ASSUME NEW D \in SUBSET Deployments, InHand(u, D) PROVE InHand(v, D)
  <2>1. \A j \in 1..Len(v.pending) : v.pending[j] \in D
    BY <1>4 DEF InHand
  <2>2. Len(v.pending) \in Nat /\ Len(u.pending) \in Nat /\ Len(v.pending) <= 1
    BY <1>1, <1>4 DEF InHand
  <2>3. v.mode \in Deployments => v.mode \in D /\ v.pending = <<>>
    <3> SUFFICES ASSUME v.mode \in Deployments PROVE v.mode \in D /\ v.pending = <<>>
      OBVIOUS
    <3>1. u.mode = v.mode
      BY Names
    <3>2. u.pending = <<>> /\ v.mode \in D
      BY <1>4, <3>1 DEF InHand
    <3>3. Len(v.pending) = 0
      BY <2>2, <3>2
    <3> QED BY <3>2, <3>3
  <2> QED BY <2>1, <2>2, <2>3 DEF InHand
<1> QED BY <1>2, <1>3, <1>4 DEF Called

\* The approvals on screen are closed, and all of them once the claims are lost.
Closed(u, lost) == IF lost THEN [ApprovalsClosed(u) EXCEPT !.pending = <<>>] ELSE ApprovalsClosed(u)

LEMMA DoneKeeps ==
    ASSUME NEW u, Good(u), NEW d \in Deployments, NEW ok \in BOOLEAN, NEW lost \in BOOLEAN,
           NEW c, c = Closed(u, lost)
    PROVE  LET w == StepFinished(c, d, ok)
           IN  /\ Drawn(u, w) /\ (lost => InHand(w, {}))
               /\ \A D \in SUBSET Deployments : InHand(u, D) => InHand(w, D)
<1> DEFINE m == IF u.mode \in Deployments THEN "browse" ELSE u.mode
           s == IF lost THEN <<>> ELSE u.pending
           w == StepFinished(c, d, ok)
<1>1. u \in Uis /\ u.mode \in Modes /\ u.pending \in Seq(Deployments)
  BY FieldTypes DEF Good
<1>2. m \in Modes /\ m \notin Deployments /\ (m = u.mode \/ m = "browse") /\ s \in Seq(Deployments) /\ (s = u.pending \/ s = <<>>)
  BY <1>1, Names DEF Modes
<1>3. c = Switched2(u, m, s)
  BY <1>1 DEF Closed, ApprovalsClosed, Switched2, Uis
<1>4. lost => s = <<>>
  OBVIOUS
<1> HIDE DEF m, s
<1>5. c \in Uis /\ c.mode = m /\ c.pending = s
  BY <1>1, <1>2, <1>3, SwitchedIs
<1>6. /\ \A i \in Dialogs : Called(c, i) => Called(u, i)
      /\ \A D \in SUBSET Deployments : InHand(u, D) => InHand(c, D)
  <2>1. Len(c.pending) <= Len(u.pending) /\ \A j \in 1..Len(c.pending) : \E k \in 1..Len(u.pending) : c.pending[j] = u.pending[k]
    BY <1>1, <1>2, <1>5
  <2> QED BY <1>1, <1>2, <1>5, <2>1, FewerCalls
<1>7. Good(c) /\ Calm(u, c) /\ BadKept(u, c) /\ PromptsKept(u, c) /\ SameMarks(u, c)
  BY <1>2, <1>3, <1>6, SwitchedKeeps
<1>8. Tame(c, w) /\ NoPromptMore(c, w)
  BY <1>7, ProcedureNames, StepFinishedTame
<1> HIDE DEF w
<1>9. Good(w) /\ w \in Uis /\ Untidy(w) /\ Calm(c, w) /\ BadKept(c, w) /\ SameRest(c, w)
  BY <1>8, GoodIsUntidy DEF Tame, Good, Follows
<1>10. Calm(u, w) /\ BadKept(u, w) /\ NoPromptMore(u, w) /\ w.lost = u.lost
  <2>1. Calm(u, w)
    BY <1>1, <1>5, <1>7, <1>9, CalmTransitive
  <2>2. NoPromptMore(u, w)
    BY <1>7, <1>8, PromptsButSelf DEF NoPromptMore
  <2> QED BY <1>7, <1>9, <2>1, <2>2 DEF BadKept, SameMarks, SameRest
<1>11. Drawn(u, w)
  BY <1>9, <1>10, DrawnBy
<1>12. \A D \in SUBSET Deployments : InHand(c, D) => InHand(w, D)
  BY <1>9, InHandSame DEF SameRest
<1>13. lost => InHand(c, {})
  BY <1>2, <1>4, <1>5 DEF InHand
<1>14. (lost => InHand(w, {})) /\ \A D \in SUBSET Deployments : InHand(u, D) => InHand(w, D)
  BY <1>6, <1>12, <1>13
<1> QED BY <1>11, <1>14 DEF w

\* finish_approval: no copy of the claim is left.
LEMMA FinishKeeps ==
    ASSUME NEW u, Good(u), NEW d \in Deployments
    PROVE  LET w == Tidy([u EXCEPT !.completed = @ \union {d}, !.pending = Without(@, d),
                                   !.mode = IF @ = d THEN "browse" ELSE @])
           IN  /\ Drawn(u, w)
               /\ \A D \in SUBSET Deployments : InHand(u, D) => InHand(w, D \ {d})
<1> DEFINE m == IF u.mode = d THEN "browse" ELSE u.mode
           s == Without(u.pending, d)
           c == Switched2(u, m, s)
           x == [c EXCEPT !.completed = @ \union {d}]
           w == Tidy([u EXCEPT !.completed = @ \union {d}, !.pending = Without(@, d),
                               !.mode = IF @ = d THEN "browse" ELSE @])
<1>1. u \in Uis /\ u.mode \in Modes /\ u.pending \in Seq(Deployments)
  BY FieldTypes DEF Good
<1>2. m \in Modes /\ (m = u.mode \/ m = "browse") /\ m # d
  BY <1>1, Names DEF Modes
<1>3. /\ s \in Seq(Deployments) /\ Len(s) <= Len(u.pending)
      /\ \A j \in 1..Len(s) : s[j] # d /\ \E k \in 1..Len(u.pending) : s[j] = u.pending[k]
  <2> DEFINE t == u.pending
  <2>1. t \in Seq(Deployments) /\ s = Without(t, d)
    BY <1>1
  <2> HIDE DEF t, s
  <2>2. /\ s \in Seq(Deployments) /\ Len(s) <= Len(t)
        /\ \A j \in 1..Len(s) : s[j] # d /\ \E k \in 1..Len(t) : s[j] = t[k]
    BY <2>1, WithoutIs
  <2> QED BY <2>2 DEF t
<1>4. w = Tidy(x)
  <2> HIDE DEF s
  <2>1. [u EXCEPT !.completed = @ \union {d}, !.pending = s, !.mode = IF @ = d THEN "browse" ELSE @] = x
    BY <1>1 DEF Switched2, Uis
  <2> QED BY <2>1 DEF s
<1> HIDE DEF m, s, w
<1>5. c \in Uis /\ c.mode = m /\ c.pending = s /\ c = Switched2(u, m, s)
  BY <1>1, <1>2, <1>3, SwitchedIs
<1> HIDE DEF c
<1>6. /\ \A i \in Dialogs : Called(c, i) => Called(u, i)
      /\ \A D \in SUBSET Deployments : InHand(u, D) => InHand(c, D)
  BY <1>1, <1>2, <1>3, <1>5, FewerCalls
<1>7. Good(c) /\ Calm(u, c) /\ BadKept(u, c) /\ PromptsKept(u, c) /\ SameMarks(u, c)
  BY <1>2, <1>3, <1>5, <1>6, SwitchedKeeps
<1>8. /\ x \in Uis /\ x.proc = c.proc /\ x.foreground = c.foreground /\ x.mode = c.mode /\ x.pending = c.pending
      /\ x.misled = c.misled /\ x.lost = c.lost
  BY <1>5 DEF Uis
<1> HIDE DEF x
<1>9. Good(x)
  <2> SUFFICES ASSUME NEW i \in Dialogs PROVE DialogOK(x, i)
    BY <1>8 DEF Good
  <2>1. DialogOK(c, i) /\ Called(x, i) = Called(c, i)
    BY <1>7, <1>8, CalledSame DEF Good
  <2> QED BY <1>8, <2>1 DEF DialogOK
<1>10. Calm(c, x) /\ BadKept(c, x) /\ PromptsKept(c, x)
  BY <1>5, <1>8, FollowsItself DEF Calm, BadKept, PromptsKept
<1>11. Tame(x, w) /\ PromptsKept(x, w)
  BY <1>4, <1>9, TidyTame
<1>12. Good(w) /\ w \in Uis /\ Untidy(w) /\ Calm(x, w) /\ BadKept(x, w) /\ SameRest(x, w)
  BY <1>11, GoodIsUntidy DEF Tame, Good, Follows
<1>13. Calm(u, w) /\ BadKept(u, w) /\ PromptsKept(u, w) /\ w.lost = u.lost
  <2>1. Calm(u, w)
    BY <1>1, <1>5, <1>7, <1>8, <1>10, <1>12, CalmTransitive
  <2>2. BadKept(u, w) /\ PromptsKept(u, w)
    BY <1>7, <1>10, <1>11, <1>12 DEF BadKept, PromptsKept
  <2>3. w.lost = u.lost
    BY <1>7, <1>8, <1>12 DEF SameMarks, SameRest
  <2> QED BY <2>1, <2>2, <2>3
<1>14. Drawn(u, w)
  BY <1>12, <1>13, DrawnBy, PromptsButSelf
<1>15. \A D \in SUBSET Deployments : InHand(c, D) => InHand(w, D)
  BY <1>8, <1>12, InHandSame DEF SameRest
<1>16. \A D \in SUBSET Deployments : InHand(c, D) => InHand(c, D \ {d})
  BY <1>2, <1>3, <1>5 DEF InHand
<1>17. ASSUME NEW D \in SUBSET Deployments, InHand(u, D) PROVE InHand(w, D \ {d})
  <2>1. InHand(c, D \ {d}) /\ D \ {d} \in SUBSET Deployments
    BY <1>6, <1>16, <1>17
  <2> QED BY <1>15, <2>1
<1> QED BY <1>14, <1>17 DEF w

\* Another dialog of the TUI opens or closes.
LEMMA SwitchKeeps ==
    ASSUME NEW u, Good(u), u.mode \in {"browse", "dialog"}, NEW m \in {"browse", "dialog"},
           NEW v, v = Switched(u, m)
    PROVE  Turned(u, v) /\ Good(v) /\ v.mode = m
<1>1. u \in Uis /\ u.pending \in Seq(Deployments) /\ m \in Modes
  BY FieldTypes DEF Good, Modes
<1> DEFINE s == u.pending
<1>2. v = Switched2(u, m, s)
  BY <1>1 DEF Switched, Switched2, Uis
<1> HIDE DEF s
<1>3. v.mode = m /\ v.pending = u.pending
  BY <1>1, <1>2, SwitchedIs DEF s
<1>4. /\ \A i \in Dialogs : Called(v, i) => Called(u, i)
      /\ \A D \in SUBSET Deployments : InHand(u, D) => InHand(v, D)
  BY <1>3, Names DEF Called, HasPending, ApprovalOf, InHand
<1>5. Good(v) /\ Calm(u, v) /\ BadKept(u, v) /\ PromptsKept(u, v) /\ SameMarks(u, v)
  BY <1>1, <1>2, <1>4, SwitchedKeeps DEF s
<1> QED BY <1>3, <1>4, <1>5, GoodIsUntidy DEF Turned

LEMMA CancelKeeps ==
    ASSUME NEW u, Good(u), Settled(u), NEW r \in Requests,
           NEW v, v = [u EXCEPT !.cancelled = @ \union {r}]
    PROVE  Acted(u, v) /\ \A D \in SUBSET Deployments : InHand(u, D) => InHand(v, D)
<1>1. u \in Uis
  BY DEF Good
<1>2. /\ v \in Uis /\ v.proc = u.proc /\ v.foreground = u.foreground /\ v.mode = u.mode /\ v.pending = u.pending
      /\ v.misled = u.misled /\ v.lost = u.lost
  BY <1>1 DEF Uis
<1>3. Good(v)
  <2> SUFFICES ASSUME NEW i \in Dialogs PROVE DialogOK(v, i)
    BY <1>2 DEF Good
  <2>1. DialogOK(u, i) /\ Called(v, i) = Called(u, i)
    BY <1>2, CalledSame DEF Good
  <2> QED BY <1>2, <2>1 DEF DialogOK
<1>4. Settled(v)
  BY <1>2 DEF Settled, OnScreen, HasPending
<1>5. Calm(u, v) /\ BadSeen(u, v) /\ NoPromptMore(u, v)
  BY <1>1, <1>2, FollowsItself DEF Calm, BadSeen, NoPromptMore, HasPrompt
<1> QED BY <1>2, <1>3, <1>4, <1>5, InHandSame DEF Acted
============================================================================
