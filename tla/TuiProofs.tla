------------------------------ MODULE TuiProofs ------------------------------
(***************************************************************************)
(* What the TUI owes its operator, for any procedures, requests, asks and  *)
(* bounds.  First the desktop: what the last frame signalled about a key   *)
(* is what the last of the calls waiting for that key asks for, and when   *)
(* none waits it is what the desktop shows; an id names one notification   *)
(* and belongs to its key.  Then the dialogs of procedures, from what      *)
(* DialogsProofs shows of the operations: the messages tell of every step  *)
(* that an attached TUI does not know (KnowledgeInv), and a prompt is      *)
(* asked once and of a session that lives (AskingInv).                     *)
(***************************************************************************)
EXTENDS DialogsProofs, Attention, FiniteSetTheorems

DesktopCalls == [do : {"notify", "close"}, key : AttentionKeys]
ScreenAsks == [at : {"gone", "bar", "flash", "screen"}, deadline : Nat]
KnownAsks == [open : BOOLEAN, deadline : Nat, reminded : BOOLEAN]
Notifications == [id : Nat \ {0}, key : AttentionKeys, dismissed : BOOLEAN]

AttentionTypes ==
    /\ screen \in [asks : [Asks -> ScreenAsks], missed : SUBSET Asks, up : BOOLEAN]
    /\ attention \in [known : [Asks -> KnownAsks], titled : SUBSET Asks, missed : SUBSET Asks]
    /\ calls \in Seq(DesktopCalls) /\ ids \in [AttentionKeys -> Nat]
    /\ desktop \in SUBSET Notifications /\ nextId \in Nat \ {0}

\* What the last frame signalled is what is on screen.
FrameIsTrue ==
    drawn => /\ attention.titled = Foreground /\ attention.missed = screen.missed
             /\ \A a \in Asks : /\ screen.asks[a].at \in {"flash", "screen"} => attention.known[a].open
                                /\ attention.known[a].open => IsOpen(a)

\* No call about k waits; or the last one that does.
Silent(s, k) == \A i \in 1..Len(s) : s[i].key # k
LastIs(s, k, do) ==
    \E i \in 1..Len(s) : s[i] = [do |-> do, key |-> k] /\ \A j \in 1..Len(s) : j > i => s[j].key # k

\* Whether the frames so far called for the operator because of k.
Signalled(k) == \/ \E a \in Asks : k = AskKey(a) /\ attention.known[a].open
                \/ \E a \in attention.missed : k = MissedKey(a)
Wish(k) == IF Signalled(k) THEN "notify" ELSE "close"

\* Once the calls that wait are made, the desktop shows what was signalled.
CallsLead ==
    \A k \in AttentionKeys \ slipped :
        /\ Silent(calls, k) => IF Signalled(k) THEN \E n \in desktop : n.key = k
                               ELSE \A n \in desktop : n.key = k => n.dismissed
        /\ Silent(calls, k) \/ LastIs(calls, k, Wish(k))

\* An id names one notification, and what the thread has is that of its key.
IdsAreOwn ==
    /\ \A n, m \in desktop : n.id = m.id => n = m
    /\ \A n \in desktop : n.id < nextId
    /\ \A k \in AttentionKeys : ids[k] < nextId /\ \A n \in desktop : n.id = ids[k] => n.key = k
    /\ \A k \in AttentionKeys \ slipped : \A n \in desktop : n.key = k /\ ~n.dismissed => n.id = ids[k]

AttentionInv == AttentionTypes /\ FrameIsTrue /\ CallsLead /\ IdsAreOwn

-----------------------------------------------------------------------------
(* Calls in order.                                                         *)

LEMMA KeysApart ==
    /\ \A a, b \in Asks : /\ AskKey(a) = AskKey(b) => a = b
                          /\ MissedKey(a) = MissedKey(b) => a = b
                          /\ AskKey(a) # MissedKey(b)
    /\ \A k \in AttentionKeys : \E a \in Asks : k = AskKey(a) \/ k = MissedKey(a)
    /\ \A a \in Asks : AskKey(a) \in AttentionKeys /\ MissedKey(a) \in AttentionKeys
    /\ \A a \in Asks : AskKey(a)[1] = "ask" /\ AskKey(a)[2] = a
    /\ \A a \in Asks : MissedKey(a)[1] # "ask" /\ MissedKey(a)[2] = a
BY DEF AskKey, MissedKey, AttentionKeys

LEMMA SetInOrder ==
    ASSUME NEW S, IsFiniteSet(S)
    PROVE  /\ SetToSeq(S) \in Seq(S)
           /\ \A x \in S : \E i \in 1..Len(SetToSeq(S)) : SetToSeq(S)[i] = x
           /\ \A i, j \in 1..Len(SetToSeq(S)) : SetToSeq(S)[i] = SetToSeq(S)[j] => i = j
<1> DEFINE n == Cardinality(S)
           f == SetToSeq(S)
<1>1. n \in Nat
  BY FS_CardinalityType
<1>2. \E g \in [1..n -> S] : IsInjective(g)
  <2>1. Bijection(1..n, S) # {}
    BY FS_CardinalityType DEF ExistsBijection
  <2> QED BY <2>1 DEF Bijection, Injection
<1>3. f \in [1..n -> S] /\ IsInjective(f)
  BY <1>2 DEF SetToSeq
<1> HIDE DEF f
<1>4. f \in Seq(S) /\ Len(f) = n
  BY <1>1, <1>3
<1>5. f \in Injection(1..n, S)
  BY <1>3 DEF Injection
<1>6. Cardinality(1..n) = n
  BY <1>1, FS_Interval
<1>7. f \in Surjection(1..n, S)
  BY <1>5, <1>6, FS_Injection
<1>8. \A x \in S : \E i \in 1..n : f[i] = x
  BY <1>7 DEF Surjection
<1>9. \A i, j \in 1..n : f[i] = f[j] => i = j
  BY <1>3 DEF IsInjective
<1> QED BY <1>4, <1>8, <1>9 DEF f

LEMMA AppendCalls ==
    ASSUME NEW s \in Seq(DesktopCalls), NEW do \in {"notify", "close"},
           NEW K \in SUBSET AttentionKeys, IsFiniteSet(K)
    PROVE  LET t == s \o CallsOf(do, K) IN
           /\ t \in Seq(DesktopCalls)
           /\ \A k \in K : LastIs(t, k, do)
           /\ \A k \in AttentionKeys \ K : /\ Silent(t, k) <=> Silent(s, k)
                                           /\ \A d : LastIs(s, k, d) => LastIs(t, k, d)
<1> DEFINE C == {[do |-> do, key |-> k] : k \in K}
           c == CallsOf(do, K)
           t == s \o c
<1>1. IsFiniteSet(C)
  <2> DEFINE g == [k \in K |-> [do |-> do, key |-> k]]
  <2>1. g \in Surjection(K, C)
    BY DEF Surjection
  <2> QED BY <2>1, FS_Surjection
<1>2. /\ c \in Seq(C)
      /\ \A x \in C : \E i \in 1..Len(c) : c[i] = x
      /\ \A i, j \in 1..Len(c) : c[i] = c[j] => i = j
  BY <1>1, SetInOrder DEF CallsOf
<1>3. C \subseteq DesktopCalls
  BY DEF DesktopCalls
<1>4. c \in Seq(DesktopCalls) /\ \A i \in 1..Len(c) : c[i].key \in K /\ c[i] = [do |-> do, key |-> c[i].key]
  <2>1. \A i \in 1..Len(c) : c[i] \in C
    BY <1>2, ElementOfSeq
  <2>2. c \in Seq(DesktopCalls)
    BY <1>2, <1>3, SeqMonotonic
  <2> HIDE DEF c
  <2> QED BY <2>1, <2>2
<1>5. \A k \in K : \E i \in 1..Len(c) : c[i] = [do |-> do, key |-> k]
  BY <1>2
<1>6. \A i, j \in 1..Len(c) : c[i].key = c[j].key => i = j
  BY <1>2, <1>4
<1> HIDE DEF C, c
<1>7. /\ t \in Seq(DesktopCalls) /\ Len(t) = Len(s) + Len(c) /\ Len(s) \in Nat /\ Len(c) \in Nat
      /\ \A i \in 1..Len(s) : t[i] = s[i]
      /\ \A i \in 1..Len(c) : t[Len(s) + i] = c[i]
  BY <1>4
<1> HIDE DEF t
<1>8. \A i \in 1..Len(t) : i \in 1..Len(s) \/ \E j \in 1..Len(c) : i = Len(s) + j
  <2> SUFFICES ASSUME NEW i \in 1..Len(t), i \notin 1..Len(s) PROVE \E j \in 1..Len(c) : i = Len(s) + j
    OBVIOUS
  <2>1. i - Len(s) \in 1..Len(c) /\ i = Len(s) + (i - Len(s))
    BY <1>7
  <2> QED BY <2>1
<1>9. ASSUME NEW k \in K PROVE LastIs(t, k, do)
  <2>1. PICK i \in 1..Len(c) : c[i] = [do |-> do, key |-> k]
    BY <1>5
  <2>2. Len(s) + i \in 1..Len(t) /\ t[Len(s) + i] = [do |-> do, key |-> k]
    BY <1>7, <2>1
  <2>3. ASSUME NEW j \in 1..Len(t), j > Len(s) + i PROVE t[j].key # k
    <3> DEFINE l == Len(s)
    <3>0. j \notin 1..l
      <4>1. l \in Nat /\ j > l + i
        BY <1>7, <2>3
      <4> HIDE DEF l
      <4> QED BY <4>1
    <3>1. PICK m \in 1..Len(c) : j = Len(s) + m
      BY <1>8, <3>0
    <3>2. m # i /\ t[j] = c[m]
      BY <1>7, <2>3, <3>1
    <3> QED BY <1>6, <2>1, <3>2
  <2> QED BY <2>2, <2>3 DEF LastIs
<1>10. ASSUME NEW k \in AttentionKeys \ K PROVE Silent(t, k) <=> Silent(s, k)
  <2>1. \A i \in 1..Len(s) : i \in 1..Len(t)
    BY <1>7
  <2>2. \A j \in 1..Len(c) : c[j].key # k
    BY <1>4, <1>10
  <2> QED BY <1>7, <1>8, <2>1, <2>2 DEF Silent
<1>11. ASSUME NEW k \in AttentionKeys \ K, NEW d, LastIs(s, k, d) PROVE LastIs(t, k, d)
  <2>1. PICK i \in 1..Len(s) : s[i] = [do |-> d, key |-> k] /\ \A j \in 1..Len(s) : j > i => s[j].key # k
    BY <1>11 DEF LastIs
  <2>2. i \in 1..Len(t) /\ t[i] = [do |-> d, key |-> k]
    BY <1>7, <2>1
  <2>3. \A j \in 1..Len(c) : c[j].key # k
    BY <1>4, <1>11
  <2>4. ASSUME NEW j \in 1..Len(t), j > i PROVE t[j].key # k
    BY <1>7, <1>8, <2>1, <2>3, <2>4
  <2> QED BY <2>2, <2>4 DEF LastIs
<1> QED BY <1>7, <1>9, <1>10, <1>11 DEF t, c

\* The first call is made.
LEMMA FirstCall ==
    ASSUME NEW s \in Seq(DesktopCalls), s # <<>>
    PROVE  /\ Tail(s) \in Seq(DesktopCalls) /\ Head(s) \in DesktopCalls /\ ~Silent(s, Head(s).key)
           /\ \A k \in AttentionKeys : /\ k # Head(s).key => (Silent(Tail(s), k) <=> Silent(s, k))
                                       /\ \A d : LastIs(s, k, d) =>
                                            \/ LastIs(Tail(s), k, d)
                                            \/ Silent(Tail(s), k) /\ Head(s) = [do |-> d, key |-> k]
<1> DEFINE t == Tail(s)
<1>1. /\ t \in Seq(DesktopCalls) /\ Len(s) \in Nat \ {0} /\ Len(t) = Len(s) - 1
      /\ \A i \in 1..Len(t) : t[i] = s[i + 1]
      /\ Head(s) = s[1] /\ s[1] \in DesktopCalls
  <2>1. Len(s) \in Nat \ {0}
    BY EmptySeq
  <2> QED BY <2>1, HeadTailProperties
<1> HIDE DEF t
<1>2. \A i \in 1..Len(s) : i = 1 \/ \E j \in 1..Len(t) : i = j + 1
  <2> SUFFICES ASSUME NEW i \in 1..Len(s), i # 1 PROVE \E j \in 1..Len(t) : i = j + 1
    OBVIOUS
  <2>1. i - 1 \in 1..Len(t) /\ i = (i - 1) + 1
    BY <1>1
  <2> QED BY <2>1
<1>3. \A j \in 1..Len(t) : j + 1 \in 1..Len(s)
  BY <1>1
<1>4. ~Silent(s, Head(s).key)
  <2>1. 1 \in 1..Len(s)
    BY <1>1
  <2> QED BY <1>1, <2>1 DEF Silent
<1>5. ASSUME NEW k, k # Head(s).key PROVE Silent(t, k) <=> Silent(s, k)
  BY <1>1, <1>2, <1>3, <1>5 DEF Silent
<1>6. ASSUME NEW k, NEW d, LastIs(s, k, d)
      PROVE  LastIs(t, k, d) \/ (Silent(t, k) /\ Head(s) = [do |-> d, key |-> k])
  <2>1. PICK i \in 1..Len(s) : s[i] = [do |-> d, key |-> k] /\ \A j \in 1..Len(s) : j > i => s[j].key # k
    BY <1>6 DEF LastIs
  <2>2. CASE i = 1
    <3>1. \A j \in 1..Len(t) : j + 1 > i
      BY <2>2
    <3> QED BY <1>1, <1>3, <2>1, <2>2, <3>1 DEF Silent
  <2>3. CASE i # 1
    <3>1. PICK m \in 1..Len(t) : i = m + 1
      BY <1>2, <2>3
    <3>2. \A j \in 1..Len(t) : j > m => j + 1 > i
      BY <3>1
    <3>3. t[m] = [do |-> d, key |-> k] /\ \A j \in 1..Len(t) : j > m => t[j].key # k
      BY <1>1, <1>3, <2>1, <3>1, <3>2
    <3> QED BY <3>3 DEF LastIs
  <2> QED BY <2>2, <2>3
<1> QED BY <1>1, <1>4, <1>5, <1>6 DEF t

-----------------------------------------------------------------------------
(* The screen and the frames.                                              *)

LEMMA AttentionInitially == AttentionInit => AttentionInv
<1> SUFFICES ASSUME AttentionInit PROVE AttentionInv
  OBVIOUS
<1>1. /\ screen.missed = {} /\ \A a \in Asks : screen.asks[a] = NoAsk
      /\ attention.missed = {} /\ attention.titled = {} /\ \A a \in Asks : ~attention.known[a].open
      /\ calls = <<>> /\ desktop = {} /\ nextId = 1 /\ \A k \in AttentionKeys : ids[k] = 0
  BY DEF AttentionInit, NotKnown, NoTitle
<1>2. AttentionTypes
  BY DEF AttentionInit, AttentionTypes, ScreenAsks, KnownAsks, NoAsk, NotKnown, NoTitle
<1>3. FrameIsTrue
  BY <1>1 DEF FrameIsTrue, Foreground, NoAsk
<1>4. CallsLead
  BY <1>1 DEF CallsLead, Silent, Signalled
<1>5. IdsAreOwn
  BY <1>1 DEF IdsAreOwn
<1> QED BY <1>2, <1>3, <1>4, <1>5 DEF AttentionInv

\* Nothing but the screen or the clock changes.
LEMMA ScreenKeeps ==
    ASSUME AttentionInv, ~drawn',
           screen' \in [asks : [Asks -> ScreenAsks], missed : SUBSET Asks, up : BOOLEAN],
           UNCHANGED <<attention, calls, ids, desktop, nextId, slipped>>
    PROVE  AttentionInv'
<1>1. AttentionTypes'
  BY DEF AttentionInv, AttentionTypes
<1>2. FrameIsTrue'
  BY DEF FrameIsTrue
<1>3. CallsLead'
  BY DEF AttentionInv, CallsLead, Signalled, Wish
<1>4. IdsAreOwn'
  BY DEF AttentionInv, IdsAreOwn
<1> QED BY <1>1, <1>2, <1>3, <1>4 DEF AttentionInv

LEMMA ScreenStepKeeps ==
    ASSUME AttentionInv,
           \/ \E a \in Asks : StepMissed(a) \/ \E x \in ScreenAsks : AskChanges(a, x)
           \/ CloseTui \/ TimePasses
    PROVE  AttentionInv'
<1>1. screen \in [asks : [Asks -> ScreenAsks], missed : SUBSET Asks, up : BOOLEAN]
  BY DEF AttentionInv, AttentionTypes
<1>2. ASSUME NEW a \in Asks, StepMissed(a) PROVE AttentionInv'
  <2> DEFINE missed == IF a \in screen.missed THEN screen.missed \ {a} ELSE screen.missed \union {a}
  <2>1. missed \in SUBSET Asks
    BY <1>1
  <2>2. screen' = [screen EXCEPT !.missed = missed]
    BY <1>2 DEF StepMissed
  <2> HIDE DEF missed
  <2>3. screen' \in [asks : [Asks -> ScreenAsks], missed : SUBSET Asks, up : BOOLEAN]
    BY <1>1, <2>1, <2>2
  <2> QED BY <1>2, <2>3, ScreenKeeps DEF StepMissed, ScreenChange
<1>3. ASSUME NEW a \in Asks, NEW x \in ScreenAsks, AskChanges(a, x) PROVE AttentionInv'
  <2>1. screen' \in [asks : [Asks -> ScreenAsks], missed : SUBSET Asks, up : BOOLEAN]
    BY <1>1, <1>3 DEF AskChanges
  <2> QED BY <1>3, <2>1, ScreenKeeps DEF AskChanges, ScreenChange
<1>4. CASE CloseTui
  <2>1. screen' \in [asks : [Asks -> ScreenAsks], missed : SUBSET Asks, up : BOOLEAN]
    BY <1>4 DEF CloseTui, NoAsk, ScreenAsks
  <2> QED BY <1>4, <2>1, ScreenKeeps DEF CloseTui, ScreenChange
<1>5. CASE TimePasses
  BY <1>1, <1>5, ScreenKeeps DEF TimePasses
<1> QED BY <1>2, <1>3, <1>4, <1>5

LEMMA KnownAfterIs ==
    ASSUME AttentionTypes, NEW a \in Asks
    PROVE  /\ KnownAfter(a) \in KnownAsks
           /\ KnownAfter(a).open => IsOpen(a)
           /\ screen.asks[a].at \in {"flash", "screen"} => KnownAfter(a).open
           /\ KnownAfter(a).open /\ ~attention.known[a].open => a \in NotifiedAsks
           /\ attention.known[a].open /\ IsOpen(a) => KnownAfter(a).open
           /\ a \in NotifiedAsks => KnownAfter(a).open
<1>1. attention.known[a] \in KnownAsks /\ screen.asks[a] \in ScreenAsks
  BY DEF AttentionTypes
<1>2. attention.known[a].open \in BOOLEAN /\ attention.known[a].reminded \in BOOLEAN
      /\ screen.asks[a].deadline \in Nat
  BY <1>1 DEF KnownAsks, ScreenAsks
<1>3. KnownAfter(a) \in KnownAsks
  <2>1. ASSUME NEW d PROVE Near(d) \in BOOLEAN
    BY DEF Near
  <2>2. NotKnown \in KnownAsks
    BY DEF NotKnown, KnownAsks
  <2> QED BY <1>2, <2>1, <2>2 DEF KnownAfter, KnownAsks
<1>4. KnownAfter(a).open <=>
        IsOpen(a) /\ (attention.known[a].open \/ screen.asks[a].at # "bar")
  BY <1>2 DEF KnownAfter, NotKnown
<1>5. IsOpen(a) <=> screen.asks[a].at # "gone"
  BY DEF IsOpen
<1> QED BY <1>2, <1>3, <1>4, <1>5 DEF NotifiedAsks

LEMMA DrawFrameKeeps == ASSUME AttentionInv, DrawFrame PROVE AttentionInv'
<1> DEFINE after == [a \in Asks |-> KnownAfter(a)]
           closed == {a \in Asks : attention.known[a].open /\ ~IsOpen(a)}
           come == screen.missed \ attention.missed
           gone == attention.missed \ screen.missed
           titled == {a \in Foreground : after[a].open}
           K1 == {AskKey(a) : a \in NotifiedAsks}
           K2 == {AskKey(a) : a \in closed}
           K3 == {MissedKey(a) : a \in come}
           K4 == {MissedKey(a) : a \in gone}
           c1 == calls \o CallsOf("notify", K1)
           c2 == c1 \o CallsOf("close", K2)
           c3 == c2 \o CallsOf("notify", K3)
           c4 == c3 \o CallsOf("close", K4)
<1>1. /\ drawn' /\ UNCHANGED <<screen, ids, desktop, nextId, slipped>>
      /\ attention' = [known |-> after, missed |-> screen.missed, titled |-> titled]
      /\ calls' = c4
  BY DEF DrawFrame
<1>2. AttentionTypes /\ CallsLead /\ IdsAreOwn /\ calls \in Seq(DesktopCalls)
      /\ screen.missed \in SUBSET Asks /\ attention.missed \in SUBSET Asks
  BY DEF AttentionInv, AttentionTypes
<1>3. /\ attention'.known = after /\ attention'.missed = screen.missed /\ attention'.titled = titled
      /\ attention' \in [known : [Asks -> KnownAsks], titled : SUBSET Asks, missed : SUBSET Asks]
  <2>1. after \in [Asks -> KnownAsks] /\ titled \in SUBSET Asks
    BY <1>2, KnownAfterIs DEF Foreground
  <2> HIDE DEF after, titled
  <2> QED BY <1>1, <1>2, <2>1
<1>4. FrameIsTrue'
  <2>1. titled = Foreground
    BY <1>2, KnownAfterIs DEF Foreground
  <2>2. Foreground' = Foreground
    BY <1>1 DEF Foreground
  <2>3. \A a \in Asks : /\ screen.asks[a].at \in {"flash", "screen"} => after[a].open
                        /\ after[a].open => IsOpen(a)
    BY <1>2, KnownAfterIs
  <2> HIDE DEF after, titled
  <2> QED BY <1>1, <1>3, <2>1, <2>2, <2>3 DEF FrameIsTrue, IsOpen
<1>5. /\ K1 \in SUBSET AttentionKeys /\ K2 \in SUBSET AttentionKeys
      /\ K3 \in SUBSET AttentionKeys /\ K4 \in SUBSET AttentionKeys
  BY <1>2, KeysApart DEF NotifiedAsks
<1>6. IsFiniteSet(K1) /\ IsFiniteSet(K2) /\ IsFiniteSet(K3) /\ IsFiniteSet(K4)
  <2>1. ASSUME NEW A \in SUBSET Asks PROVE IsFiniteSet({AskKey(a) : a \in A}) /\ IsFiniteSet({MissedKey(a) : a \in A})
    <3>1. IsFiniteSet(A)
      BY AsksAssumption, FS_Subset
    <3>2. [a \in A |-> AskKey(a)] \in Surjection(A, {AskKey(a) : a \in A})
      BY DEF Surjection
    <3>3. [a \in A |-> MissedKey(a)] \in Surjection(A, {MissedKey(a) : a \in A})
      BY DEF Surjection
    <3> QED BY <3>1, <3>2, <3>3, FS_Surjection
  <2>2. NotifiedAsks \in SUBSET Asks /\ closed \in SUBSET Asks /\ come \in SUBSET Asks /\ gone \in SUBSET Asks
    BY <1>2 DEF NotifiedAsks
  <2> HIDE DEF closed, come, gone
  <2> QED BY <2>1, <2>2
<1>7. \A a \in Asks : (AskKey(a) \in K1 <=> a \in NotifiedAsks) /\ (AskKey(a) \in K2 <=> a \in closed)
                      /\ AskKey(a) \notin K3 \cup K4
  BY <1>2, KeysApart DEF NotifiedAsks
<1>8. \A a \in Asks : (MissedKey(a) \in K3 <=> a \in come) /\ (MissedKey(a) \in K4 <=> a \in gone)
                      /\ MissedKey(a) \notin K1 \cup K2
  BY <1>2, KeysApart DEF NotifiedAsks
<1> HIDE DEF K1, K2, K3, K4
<1>9. c1 \in Seq(DesktopCalls) /\ c2 \in Seq(DesktopCalls) /\ c3 \in Seq(DesktopCalls) /\ c4 \in Seq(DesktopCalls)
  BY <1>2, <1>5, <1>6, AppendCalls
<1>10. /\ \A k \in K1 : LastIs(c1, k, "notify")
       /\ \A k \in AttentionKeys \ K1 : (Silent(c1, k) <=> Silent(calls, k)) /\ \A d : LastIs(calls, k, d) => LastIs(c1, k, d)
  BY <1>2, <1>5, <1>6, AppendCalls
<1> HIDE DEF c1
<1>11. /\ \A k \in K2 : LastIs(c2, k, "close")
       /\ \A k \in AttentionKeys \ K2 : (Silent(c2, k) <=> Silent(c1, k)) /\ \A d : LastIs(c1, k, d) => LastIs(c2, k, d)
  BY <1>5, <1>6, <1>9, AppendCalls
<1> HIDE DEF c2
<1>12. /\ \A k \in K3 : LastIs(c3, k, "notify")
       /\ \A k \in AttentionKeys \ K3 : (Silent(c3, k) <=> Silent(c2, k)) /\ \A d : LastIs(c2, k, d) => LastIs(c3, k, d)
  BY <1>5, <1>6, <1>9, AppendCalls
<1> HIDE DEF c3
<1>13. /\ \A k \in K4 : LastIs(c4, k, "close")
       /\ \A k \in AttentionKeys \ K4 : (Silent(c4, k) <=> Silent(c3, k)) /\ \A d : LastIs(c3, k, d) => LastIs(c4, k, d)
  BY <1>5, <1>6, <1>9, AppendCalls
<1> HIDE DEF c4
<1>14. /\ \A a \in Asks : Signalled(AskKey(a)) <=> attention.known[a].open
       /\ \A a \in Asks : Signalled(AskKey(a))' <=> KnownAfter(a).open
       /\ \A a \in Asks : Signalled(MissedKey(a)) <=> a \in attention.missed
       /\ \A a \in Asks : Signalled(MissedKey(a))' <=> a \in screen.missed
  <2>1. \A a \in Asks : attention'.known[a].open <=> KnownAfter(a).open
    BY <1>3
  <2> QED BY <1>2, <1>3, <2>1, KeysApart DEF Signalled
<1>15. \A k \in AttentionKeys : \A d : LastIs(c4, k, d) => ~Silent(c4, k)
  BY DEF LastIs, Silent
<1>16. ASSUME NEW k \in AttentionKeys
       PROVE  \/ /\ Silent(c4, k) <=> Silent(calls, k)
                 /\ \A d : LastIs(calls, k, d) => LastIs(c4, k, d)
                 /\ Signalled(k)' <=> Signalled(k)
              \/ LastIs(c4, k, IF Signalled(k)' THEN "notify" ELSE "close")
  <2>1. PICK a \in Asks : k = AskKey(a) \/ k = MissedKey(a)
    BY KeysApart
  <2>2. CASE k = AskKey(a)
    <3>1. a \in NotifiedAsks => KnownAfter(a).open /\ a \notin closed
      BY <1>2, KnownAfterIs
    <3>2. a \in closed => ~KnownAfter(a).open
      BY <1>2, KnownAfterIs
    <3>3. a \notin NotifiedAsks /\ a \notin closed => (KnownAfter(a).open <=> attention.known[a].open)
      BY <1>2, KnownAfterIs
    <3> HIDE DEF closed
    <3>4. k \notin K3 /\ k \notin K4 /\ (k \in K1 <=> a \in NotifiedAsks) /\ (k \in K2 <=> a \in closed)
      BY <1>7, <2>2
    <3>5. (Signalled(k) <=> attention.known[a].open) /\ (Signalled(k)' <=> KnownAfter(a).open)
      BY <1>14, <2>2
    <3> QED BY <1>10, <1>11, <1>12, <1>13, <3>1, <3>2, <3>3, <3>4, <3>5
  <2>3. CASE k = MissedKey(a)
    <3>1. k \notin K1 /\ k \notin K2 /\ (k \in K3 <=> a \in come) /\ (k \in K4 <=> a \in gone)
      BY <1>8, <2>3
    <3>2. (Signalled(k) <=> a \in attention.missed) /\ (Signalled(k)' <=> a \in screen.missed)
      BY <1>14, <2>3
    <3> QED BY <1>10, <1>11, <1>12, <1>13, <3>1, <3>2
  <2> QED BY <2>1, <2>2, <2>3
<1>17. CallsLead'
  <2> SUFFICES ASSUME NEW k \in AttentionKeys \ slipped
               PROVE  /\ Silent(c4, k) => IF Signalled(k)' THEN \E n \in desktop : n.key = k
                                          ELSE \A n \in desktop : n.key = k => n.dismissed
                      /\ Silent(c4, k) \/ LastIs(c4, k, IF Signalled(k)' THEN "notify" ELSE "close")
    BY <1>1 DEF CallsLead, Wish
  <2> QED BY <1>2, <1>15, <1>16 DEF CallsLead, Wish
<1>18. AttentionTypes' /\ IdsAreOwn'
  BY <1>1, <1>2, <1>3, <1>9 DEF AttentionTypes, IdsAreOwn
<1> QED BY <1>4, <1>17, <1>18 DEF AttentionInv

-----------------------------------------------------------------------------
(* The thread and the daemon.                                              *)

\* The thread or the daemon moves on; what was signalled stays.
LEMMA BusMoves ==
    ASSUME AttentionInv, UNCHANGED <<screen, attention, drawn>>,
           calls' \in Seq(DesktopCalls), ids' \in [AttentionKeys -> Nat],
           desktop' \in SUBSET Notifications, nextId' \in Nat \ {0},
           \A k \in AttentionKeys \ slipped' :
              /\ Silent(calls', k) => IF Signalled(k) THEN \E n \in desktop' : n.key = k
                                      ELSE \A n \in desktop' : n.key = k => n.dismissed
              /\ Silent(calls', k) \/ LastIs(calls', k, Wish(k)),
           IdsAreOwn'
    PROVE  AttentionInv'
<1>1. AttentionTypes'
  BY DEF AttentionInv, AttentionTypes
<1>2. FrameIsTrue'
  BY DEF AttentionInv, FrameIsTrue, Foreground, IsOpen
<1>3. CallsLead'
  <2>1. \A k \in AttentionKeys : (Signalled(k)' <=> Signalled(k)) /\ Wish(k)' = Wish(k)
    BY DEF Signalled, Wish
  <2> QED BY <2>1 DEF CallsLead
<1> QED BY <1>1, <1>2, <1>3 DEF AttentionInv

\* What the daemon shows for a call replaces only what has its key.
LEMMA ShowsIt ==
    ASSUME AttentionInv, calls # <<>>, NEW id, id = NewOrReplaced(ids[Call.key])
    PROVE  /\ id \in Nat \ {0} /\ id <= nextId
           /\ ShowAs(id) \in SUBSET Notifications
           /\ \E n \in ShowAs(id) : n.key = Call.key
           /\ \A n, m \in ShowAs(id) : n.id = m.id => n = m
           /\ \A n \in ShowAs(id) : n.id = id => n.key = Call.key
           /\ \A n \in ShowAs(id) : n.id # id => n \in desktop
           /\ \A n \in desktop : n.key # Call.key => n \in ShowAs(id)
           /\ id = nextId \/ id = ids[Call.key]
           /\ id = nextId => \A n \in desktop : n.id = ids[Call.key] => n.dismissed
<1>1. calls \in Seq(DesktopCalls) /\ desktop \in SUBSET Notifications /\ nextId \in Nat \ {0}
      /\ ids \in [AttentionKeys -> Nat] /\ IdsAreOwn
  BY DEF AttentionInv, AttentionTypes
<1>2. Call.key \in AttentionKeys
  BY <1>1, FirstCall DEF Call, DesktopCalls
<1>3. \A n \in desktop : n.id \in Nat \ {0} /\ n.key \in AttentionKeys /\ n.dismissed \in BOOLEAN
  BY <1>1 DEF Notifications
<1> DEFINE key == Call.key
           old == ids[key]
           new == [id |-> id, key |-> key, dismissed |-> FALSE]
<1>4. old \in Nat /\ old < nextId /\ \A n \in desktop : n.id = old => n.key = key
  BY <1>1, <1>2 DEF IdsAreOwn
<1>5. \/ id = old /\ \E n \in desktop : n.id = old /\ ~n.dismissed
      \/ id = nextId /\ \A n \in desktop : n.id = old => n.dismissed
  BY DEF NewOrReplaced
<1>6. ShowAs(id) = {n \in desktop : n.id # id} \union {new}
  BY DEF ShowAs
<1> HIDE DEF key, old
<1>7. id \in Nat \ {0} /\ id <= nextId /\ (id = nextId <=> id # old)
  BY <1>1, <1>3, <1>4, <1>5
<1>8. new \in Notifications /\ new.id = id /\ new.key = key /\ ~new.dismissed
  BY <1>2, <1>7 DEF Notifications, key
<1> HIDE DEF new
<1>9. \A n \in desktop : n.id = id => n.key = key
  <2>1. \A n \in desktop : n.id # nextId
    BY <1>1, <1>3 DEF IdsAreOwn
  <2> QED BY <1>4, <1>5, <2>1
<1>10. /\ ShowAs(id) \in SUBSET Notifications /\ \E n \in ShowAs(id) : n.key = key
       /\ \A n, m \in ShowAs(id) : n.id = m.id => n = m
       /\ \A n \in ShowAs(id) : n.id = id => n.key = key
       /\ \A n \in ShowAs(id) : n.id # id => n \in desktop
       /\ \A n \in desktop : n.key # key => n \in ShowAs(id)
  BY <1>1, <1>6, <1>8, <1>9 DEF IdsAreOwn
<1> QED BY <1>5, <1>7, <1>10 DEF key, old

LEMMA NotifyKeeps == ASSUME AttentionInv, Notify PROVE AttentionInv'
<1> DEFINE key == Call.key
           id == NewOrReplaced(ids[key])
<1>1. /\ calls # <<>> /\ Call.do = "notify" /\ desktop' = ShowAs(id)
      /\ ids' = [ids EXCEPT ![key] = id] /\ nextId' = (IF id = nextId THEN nextId + 1 ELSE nextId)
      /\ calls' = Tail(calls) /\ UNCHANGED <<screen, attention, drawn, slipped>>
  BY DEF Notify
<1>2. calls \in Seq(DesktopCalls) /\ desktop \in SUBSET Notifications /\ nextId \in Nat \ {0}
      /\ ids \in [AttentionKeys -> Nat] /\ IdsAreOwn /\ CallsLead
  BY DEF AttentionInv, AttentionTypes
<1>3. /\ calls' \in Seq(DesktopCalls) /\ key \in AttentionKeys /\ ~Silent(calls, key)
      /\ \A k \in AttentionKeys : /\ k # key => (Silent(calls', k) <=> Silent(calls, k))
                                  /\ \A d : LastIs(calls, k, d) =>
                                       \/ LastIs(calls', k, d)
                                       \/ Silent(calls', k) /\ Call = [do |-> d, key |-> k]
  BY <1>1, <1>2, FirstCall DEF Call, DesktopCalls
<1>4. /\ id \in Nat \ {0} /\ id <= nextId /\ desktop' \in SUBSET Notifications
      /\ \E n \in desktop' : n.key = key
      /\ \A n, m \in desktop' : n.id = m.id => n = m
      /\ \A n \in desktop' : n.id = id => n.key = key
      /\ \A n \in desktop' : n.id # id => n \in desktop
      /\ \A n \in desktop : n.key # key => n \in desktop'
      /\ id = nextId \/ id = ids[key]
      /\ id = nextId => \A n \in desktop : n.id = ids[key] => n.dismissed
  BY <1>1, ShowsIt
<1> HIDE DEF key, id
<1>5. /\ nextId' \in Nat \ {0} /\ id < nextId' /\ \A m \in Nat : m < nextId => m < nextId'
  <2>1. id < nextId \/ id = nextId
    BY <1>2, <1>4
  <2> QED BY <1>1, <1>2, <1>4, <2>1
<1>6. ids' \in [AttentionKeys -> Nat] /\ ids'[key] = id /\ \A k \in AttentionKeys : k # key => ids'[k] = ids[k]
  BY <1>1, <1>2, <1>3, <1>4
<1>7. IdsAreOwn'
  <2>1. \A n \in desktop' : n.id < nextId' /\ n.id \in Nat
    BY <1>2, <1>4, <1>5 DEF IdsAreOwn, Notifications
  <2>2. ASSUME NEW k \in AttentionKeys
        PROVE  ids'[k] < nextId' /\ \A n \in desktop' : n.id = ids'[k] => n.key = k
    <3>1. CASE k = key
      BY <1>4, <1>5, <1>6, <3>1
    <3>2. CASE k # key
      <4>1. ids'[k] = ids[k] /\ ids[k] \in Nat /\ ids[k] < nextId
        BY <1>2, <1>6, <3>2 DEF IdsAreOwn
      <4>2. \A n \in desktop : n.id = ids[k] => n.key = k
        BY <1>2 DEF IdsAreOwn
      <4>3. id # ids[k]
        <5>1. CASE id = nextId
          BY <1>2, <4>1, <5>1
        <5>2. CASE id # nextId
          <6>1. id = ids[key] /\ \E n \in desktop : n.id = id /\ ~n.dismissed
            BY <1>4, <5>2 DEF id, NewOrReplaced, key
          <6> QED BY <1>2, <1>3, <3>2, <4>2, <6>1 DEF IdsAreOwn
        <5> QED BY <5>1, <5>2
      <4> QED BY <1>4, <1>5, <4>1, <4>2, <4>3
    <3> QED BY <3>1, <3>2
  <2>3. ASSUME NEW k \in AttentionKeys \ slipped', NEW n \in desktop', n.key = k, ~n.dismissed
        PROVE  n.id = ids'[k]
    <3>1. CASE n.id = id
      BY <1>4, <1>6, <2>3, <3>1
    <3>2. CASE n.id # id
      <4>1. n \in desktop /\ n.id = ids[k]
        BY <1>1, <1>2, <1>4, <2>3, <3>2 DEF IdsAreOwn
      <4>2. k # key
        BY <1>4, <2>3, <3>2, <4>1
      <4> QED BY <1>6, <4>1, <4>2
    <3> QED BY <3>1, <3>2
  <2> QED BY <1>4, <2>1, <2>2, <2>3 DEF IdsAreOwn
<1>8. ASSUME NEW k \in AttentionKeys \ slipped'
      PROVE  /\ Silent(calls', k) => IF Signalled(k) THEN \E n \in desktop' : n.key = k
                                     ELSE \A n \in desktop' : n.key = k => n.dismissed
             /\ Silent(calls', k) \/ LastIs(calls', k, Wish(k))
  <2>1. k \in AttentionKeys \ slipped
    BY <1>1, <1>8
  <2>2. CASE k = key
    <3>1. LastIs(calls, k, Wish(k))
      BY <1>2, <1>3, <2>1, <2>2 DEF CallsLead
    <3>2. LastIs(calls', k, Wish(k)) \/ (Silent(calls', k) /\ Wish(k) = "notify")
      BY <1>1, <1>3, <3>1
    <3>3. LastIs(calls', k, Wish(k)) => ~Silent(calls', k)
      BY DEF LastIs, Silent
    <3>4. Wish(k) = "notify" => Signalled(k)
      BY DEF Wish
    <3> QED BY <1>4, <2>2, <3>2, <3>3, <3>4
  <2>3. CASE k # key
    <3>1. Silent(calls', k) <=> Silent(calls, k)
      BY <1>3, <2>1, <2>3
    <3>2. Silent(calls', k) \/ LastIs(calls', k, Wish(k))
      BY <1>2, <1>3, <2>1, <3>1 DEF CallsLead
    <3>3. \A n \in desktop' : n.key = k => n \in desktop
      BY <1>4, <2>3
    <3> QED BY <1>2, <1>4, <2>1, <2>3, <3>1, <3>2, <3>3 DEF CallsLead
  <2> QED BY <2>2, <2>3
<1> QED BY <1>1, <1>3, <1>4, <1>5, <1>6, <1>7, <1>8, BusMoves

\* The other calls and ids stay as they were, that of the first one's key apart.
LEMMA CloseKeeps == ASSUME AttentionInv, Close \/ CloseFails PROVE AttentionInv'
<1> DEFINE key == Call.key
<1>1. /\ calls # <<>> /\ Call.do = "close" /\ ids' = [ids EXCEPT ![key] = 0]
      /\ calls' = Tail(calls) /\ UNCHANGED <<screen, attention, nextId, drawn>>
      /\ \/ desktop' = {n \in desktop : n.id # ids[key]} /\ slipped' = slipped
         \/ desktop' \in {desktop, {n \in desktop : n.id # ids[key]}} /\ slipped' = slipped \union {key}
  BY DEF Close, CloseFails
<1>2. calls \in Seq(DesktopCalls) /\ desktop \in SUBSET Notifications /\ nextId \in Nat \ {0}
      /\ ids \in [AttentionKeys -> Nat] /\ IdsAreOwn /\ CallsLead
  BY DEF AttentionInv, AttentionTypes
<1>3. /\ calls' \in Seq(DesktopCalls) /\ key \in AttentionKeys /\ ~Silent(calls, key)
      /\ \A k \in AttentionKeys : /\ k # key => (Silent(calls', k) <=> Silent(calls, k))
                                  /\ \A d : LastIs(calls, k, d) =>
                                       \/ LastIs(calls', k, d)
                                       \/ Silent(calls', k) /\ Call = [do |-> d, key |-> k]
  BY <1>1, <1>2, FirstCall DEF Call, DesktopCalls
<1>4. /\ desktop' \subseteq desktop /\ slipped \subseteq slipped'
      /\ \A n \in desktop : n.key # key => n \in desktop'
      /\ key \notin slipped' => \A n \in desktop' : n.key = key => n.dismissed
  <2>1. \A n \in desktop : n.id = ids[key] => n.key = key
    BY <1>2, <1>3 DEF IdsAreOwn
  <2>2. key \notin slipped => \A n \in desktop : n.key = key /\ ~n.dismissed => n.id = ids[key]
    BY <1>2, <1>3 DEF IdsAreOwn
  <2>3. \A n \in desktop : n.dismissed \in BOOLEAN
    BY <1>2 DEF Notifications
  <2> HIDE DEF key
  <2> QED BY <1>1, <2>1, <2>2, <2>3
<1> HIDE DEF key
<1>5. ids' \in [AttentionKeys -> Nat] /\ ids'[key] = 0 /\ \A k \in AttentionKeys : k # key => ids'[k] = ids[k]
  BY <1>1, <1>2, <1>3
<1>6. IdsAreOwn'
  <2>1. \A n \in desktop : n.id # 0
    BY <1>2 DEF Notifications
  <2>2. 0 < nextId
    BY <1>2
  <2>3. \A k \in AttentionKeys : ids'[k] < nextId /\ \A n \in desktop' : n.id = ids'[k] => n.key = k
    BY <1>2, <1>4, <1>5, <2>1, <2>2 DEF IdsAreOwn
  <2>4. \A k \in AttentionKeys \ slipped' : \A n \in desktop' : n.key = k /\ ~n.dismissed => n.id = ids'[k]
    BY <1>2, <1>4, <1>5 DEF IdsAreOwn
  <2> QED BY <1>1, <1>2, <1>4, <2>3, <2>4 DEF IdsAreOwn
<1>7. ASSUME NEW k \in AttentionKeys \ slipped'
      PROVE  /\ Silent(calls', k) => IF Signalled(k) THEN \E n \in desktop' : n.key = k
                                     ELSE \A n \in desktop' : n.key = k => n.dismissed
             /\ Silent(calls', k) \/ LastIs(calls', k, Wish(k))
  <2>1. k \in AttentionKeys \ slipped
    BY <1>4, <1>7
  <2>2. CASE k = key
    <3>1. LastIs(calls, k, Wish(k))
      BY <1>2, <1>3, <2>1, <2>2 DEF CallsLead
    <3>2. LastIs(calls', k, Wish(k)) \/ (Silent(calls', k) /\ Wish(k) = "close")
      BY <1>1, <1>3, <3>1
    <3>3. LastIs(calls', k, Wish(k)) => ~Silent(calls', k)
      BY DEF LastIs, Silent
    <3>4. Wish(k) = "close" => ~Signalled(k)
      BY DEF Wish
    <3> QED BY <1>4, <1>7, <2>2, <3>2, <3>3, <3>4
  <2>3. CASE k # key
    <3>1. Silent(calls', k) <=> Silent(calls, k)
      BY <1>3, <2>1, <2>3
    <3>2. Silent(calls', k) \/ LastIs(calls', k, Wish(k))
      BY <1>2, <1>3, <2>1, <3>1 DEF CallsLead
    <3> QED BY <1>2, <1>4, <2>1, <2>3, <3>1, <3>2 DEF CallsLead
  <2> QED BY <2>2, <2>3
<1>8. desktop' \in SUBSET Notifications /\ nextId' \in Nat \ {0}
  BY <1>1, <1>2, <1>4
<1> QED BY <1>1, <1>3, <1>5, <1>6, <1>7, <1>8, BusMoves

LEMMA NotifyFailsKeeps ==
    ASSUME AttentionInv, NEW shown \in BOOLEAN, NotifyFails(shown) \/ BusGone PROVE AttentionInv'
<1> DEFINE key == Call.key
           id == NewOrReplaced(ids[key])
<1>1. /\ calls # <<>> /\ calls' \in {calls, Tail(calls)} /\ slipped' = slipped \union {key}
      /\ UNCHANGED <<screen, attention, ids, drawn>>
      /\ \/ desktop' = desktop /\ nextId' = nextId
         \/ desktop' = ShowAs(id) /\ nextId' = IF id = nextId THEN nextId + 1 ELSE nextId
  BY DEF NotifyFails, BusGone
<1>2. calls \in Seq(DesktopCalls) /\ desktop \in SUBSET Notifications /\ nextId \in Nat \ {0}
      /\ ids \in [AttentionKeys -> Nat] /\ IdsAreOwn /\ CallsLead
  BY DEF AttentionInv, AttentionTypes
<1>3. /\ calls' \in Seq(DesktopCalls) /\ key \in AttentionKeys
      /\ \A k \in AttentionKeys : k # key =>
            /\ Silent(calls', k) <=> Silent(calls, k)
            /\ \A d : LastIs(calls, k, d) => LastIs(calls', k, d)
  <2>1. /\ Tail(calls) \in Seq(DesktopCalls) /\ key \in AttentionKeys
        /\ \A k \in AttentionKeys : k # key =>
            /\ Silent(Tail(calls), k) <=> Silent(calls, k)
            /\ \A d : LastIs(calls, k, d) => LastIs(Tail(calls), k, d)
    <3>1. Call \in DesktopCalls /\ Tail(calls) \in Seq(DesktopCalls)
          /\ \A k \in AttentionKeys : /\ k # key => (Silent(Tail(calls), k) <=> Silent(calls, k))
                                      /\ \A d : LastIs(calls, k, d) =>
                                           \/ LastIs(Tail(calls), k, d)
                                           \/ Silent(Tail(calls), k) /\ Call = [do |-> d, key |-> k]
      BY <1>1, <1>2, FirstCall DEF Call
    <3>2. key \in AttentionKeys /\ \A k, d : Call = [do |-> d, key |-> k] => k = key
      BY <3>1 DEF DesktopCalls
    <3> QED BY <3>1, <3>2
  <2> QED BY <1>1, <1>2, <2>1
<1>4. /\ id \in Nat \ {0} /\ id <= nextId /\ ShowAs(id) \in SUBSET Notifications
      /\ \A n, m \in ShowAs(id) : n.id = m.id => n = m
      /\ \A n \in ShowAs(id) : n.id = id => n.key = key
      /\ \A n \in ShowAs(id) : n.id # id => n \in desktop
      /\ \A n \in desktop : n.key # key => n \in ShowAs(id)
      /\ id = nextId \/ id = ids[key]
  BY <1>1, ShowsIt
<1> HIDE DEF key, id
<1>5. /\ nextId' \in Nat \ {0} /\ nextId <= nextId'
      /\ desktop' \in SUBSET Notifications
      /\ \A n, m \in desktop' : n.id = m.id => n = m
      /\ \A n \in desktop' : n \in desktop \/ (n.key = key /\ n.id = id /\ id < nextId')
      /\ \A n \in desktop : n.key # key => n \in desktop'
  <2>1. nextId' \in Nat \ {0} /\ nextId <= nextId'
    BY <1>1, <1>2
  <2>2. desktop' = ShowAs(id) /\ nextId' = (IF id = nextId THEN nextId + 1 ELSE nextId) => id < nextId'
    BY <1>2, <1>4
  <2> QED BY <1>1, <1>2, <1>4, <2>1, <2>2 DEF IdsAreOwn
<1>6. IdsAreOwn'
  <2>1. \A n \in desktop' : n.id < nextId'
    <3>1. \A n \in desktop : n.id \in Nat /\ n.id < nextId
      BY <1>2 DEF IdsAreOwn, Notifications
    <3> QED BY <1>2, <1>5, <3>1
  <2>2. ASSUME NEW k \in AttentionKeys
        PROVE  ids[k] < nextId' /\ \A n \in desktop' : n.id = ids[k] => n.key = k
    <3>1. ids[k] \in Nat /\ ids[k] < nextId /\ \A n \in desktop : n.id = ids[k] => n.key = k
      BY <1>2 DEF IdsAreOwn
    <3>2. ids[k] < nextId'
      BY <1>2, <1>5, <3>1
    <3>3. ASSUME k # key, NEW n \in desktop', n.id = ids[k], n \notin desktop PROVE FALSE
      <4>1. n.id = id /\ id = ids[k]
        BY <1>5, <3>3
      <4>2. id # nextId
        BY <1>2, <3>1, <4>1
      <4>3. \E m \in desktop : m.id = ids[key]
        BY <1>4, <4>2 DEF id, key, NewOrReplaced
      <4> QED BY <1>2, <1>3, <1>4, <3>1, <3>3, <4>1, <4>2, <4>3 DEF IdsAreOwn
    <3> QED BY <1>5, <3>1, <3>2, <3>3
  <2>3. \A k \in AttentionKeys \ slipped' : \A n \in desktop' : n.key = k /\ ~n.dismissed => n.id = ids[k]
    BY <1>1, <1>2, <1>5 DEF IdsAreOwn
  <2> QED BY <1>1, <1>5, <2>1, <2>2, <2>3 DEF IdsAreOwn
<1>7. ASSUME NEW k \in AttentionKeys \ slipped'
      PROVE  /\ Silent(calls', k) => IF Signalled(k) THEN \E n \in desktop' : n.key = k
                                     ELSE \A n \in desktop' : n.key = k => n.dismissed
             /\ Silent(calls', k) \/ LastIs(calls', k, Wish(k))
  <2>1. k \in AttentionKeys \ slipped /\ k # key
    BY <1>1, <1>7
  <2>2. \A n \in desktop' : n.key = k => n \in desktop
    BY <1>5, <2>1
  <2> QED BY <1>2, <1>3, <1>5, <2>1, <2>2 DEF CallsLead
<1>8. ids' \in [AttentionKeys -> Nat]
  BY <1>1, <1>2
<1> QED BY <1>1, <1>3, <1>5, <1>6, <1>7, <1>8, BusMoves

LEMMA ExitTuiKeeps == ASSUME AttentionInv, ExitTui PROVE AttentionInv'
<1>1. /\ calls' = <<>> /\ slipped' = slipped \union {calls[i].key : i \in DOMAIN calls}
      /\ UNCHANGED <<screen, attention, ids, desktop, nextId, drawn>>
  BY DEF ExitTui
<1>2. calls \in Seq(DesktopCalls) /\ desktop \in SUBSET Notifications /\ nextId \in Nat \ {0}
      /\ ids \in [AttentionKeys -> Nat] /\ IdsAreOwn /\ CallsLead
  BY DEF AttentionInv, AttentionTypes
<1>3. \A k \in AttentionKeys \ slipped' : k \in AttentionKeys \ slipped /\ Silent(calls, k)
  <2>1. DOMAIN calls = 1..Len(calls)
    BY <1>2
  <2> QED BY <1>1, <2>1 DEF Silent
<1>4. IdsAreOwn'
  BY <1>1, <1>2, <1>3 DEF IdsAreOwn
<1>5. calls' \in Seq(DesktopCalls) /\ \A k : Silent(calls', k)
  BY <1>1 DEF Silent
<1>6. \A k \in AttentionKeys \ slipped' : IF Signalled(k) THEN \E n \in desktop' : n.key = k
                                          ELSE \A n \in desktop' : n.key = k => n.dismissed
  BY <1>1, <1>2, <1>3 DEF CallsLead
<1> QED BY <1>1, <1>2, <1>4, <1>5, <1>6, BusMoves

LEMMA DismissKeeps == ASSUME AttentionInv, NEW n \in desktop, Dismiss(n) PROVE AttentionInv'
<1> DEFINE x == [n EXCEPT !.dismissed = TRUE]
<1>1. desktop' = (desktop \ {n}) \union {x} /\ UNCHANGED <<screen, attention, calls, ids, nextId, drawn, slipped>>
  BY DEF Dismiss
<1>2. calls \in Seq(DesktopCalls) /\ desktop \in SUBSET Notifications /\ nextId \in Nat \ {0}
      /\ ids \in [AttentionKeys -> Nat] /\ IdsAreOwn /\ CallsLead
  BY DEF AttentionInv, AttentionTypes
<1>3. x \in Notifications /\ x.id = n.id /\ x.key = n.key /\ x.dismissed
  BY <1>2 DEF Notifications
<1> HIDE DEF x
<1>4. desktop' \in SUBSET Notifications
  BY <1>1, <1>2, <1>3
<1>5. IdsAreOwn'
  <2>1. \A m \in desktop' : m = x \/ (m \in desktop /\ m # n)
    BY <1>1
  <2>2. \A m, o \in desktop' : m.id = o.id => m = o
    BY <1>2, <1>3, <2>1 DEF IdsAreOwn
  <2> QED BY <1>1, <1>2, <1>3, <2>1, <2>2 DEF IdsAreOwn
<1>6. \A k \in AttentionKeys \ slipped' :
        /\ Silent(calls', k) => IF Signalled(k) THEN \E m \in desktop' : m.key = k
                                ELSE \A m \in desktop' : m.key = k => m.dismissed
        /\ Silent(calls', k) \/ LastIs(calls', k, Wish(k))
  BY <1>1, <1>2, <1>3 DEF CallsLead
<1> QED BY <1>1, <1>2, <1>4, <1>5, <1>6, BusMoves

LEMMA AttentionStep == ASSUME AttentionInv, [AttentionNext]_attentionVars PROVE AttentionInv'
<1>1. CASE UNCHANGED attentionVars
  <2>1. UNCHANGED <<screen, attention, calls, ids, desktop, nextId, drawn, slipped>>
    BY <1>1 DEF attentionVars
  <2>2. AttentionTypes' /\ IdsAreOwn'
    BY <2>1 DEF AttentionInv, AttentionTypes, IdsAreOwn
  <2> QED BY <2>1, <2>2, BusMoves DEF AttentionInv, AttentionTypes, CallsLead
<1>2. ASSUME NEW a \in Asks, \/ StepMissed(a) \/ AskChanges(a, NoAsk)
                             \/ \E at \in {"bar", "flash", "screen"}, d \in Deadlines :
                                   AskChanges(a, [at |-> at, deadline |-> d])
      PROVE  AttentionInv'
  <2>1. NoAsk \in ScreenAsks
    BY DEF NoAsk, ScreenAsks
  <2>2. \A at \in {"bar", "flash", "screen"}, d \in Deadlines : [at |-> at, deadline |-> d] \in ScreenAsks
    BY AttentionBounds DEF ScreenAsks
  <2> QED BY <1>2, <2>1, <2>2, ScreenStepKeeps
<1>3. CASE CloseTui \/ TimePasses
  BY <1>3, ScreenStepKeeps
<1>4. CASE DrawFrame \/ Notify \/ Close \/ CloseFails \/ BusGone \/ ExitTui
  BY <1>4, DrawFrameKeeps, NotifyKeeps, CloseKeeps, NotifyFailsKeeps, ExitTuiKeeps
<1>5. ASSUME NEW shown \in BOOLEAN, NotifyFails(shown) PROVE AttentionInv'
  BY <1>5, NotifyFailsKeeps
<1>6. ASSUME NEW n \in desktop, Dismiss(n) PROVE AttentionInv'
  BY <1>6, DismissKeeps
<1> QED BY <1>1, <1>2, <1>3, <1>4, <1>5, <1>6 DEF AttentionNext

(***************************************************************************)
(* Attention::update and the thread of desktop_notify.rs: however many     *)
(* requests come and go while calls wait or fail, the title and the        *)
(* desktop call for what waits, once each, and for nothing else.           *)
(***************************************************************************)
THEOREM AttentionCalls == AttentionSpec => []CallsForOperator
<1>1. ASSUME AttentionInv PROVE CallsForOperator
  <2> SUFFICES ASSUME drawn PROVE CallsForOperator
    BY DEF CallsForOperator
  <2>1. FrameIsTrue /\ CallsLead /\ IdsAreOwn /\ desktop \in SUBSET Notifications
        /\ attention.missed \in SUBSET Asks
    BY <1>1 DEF AttentionInv, AttentionTypes
  <2>2. attention.titled = Foreground
    BY <2>1 DEF FrameIsTrue
  <2>3. ASSUME calls = <<>>, NEW k \in AttentionKeys \ slipped
        PROVE  LET shown == {n \in desktop : n.key = k /\ ~n.dismissed}
                   wanted == IF k[1] = "ask" THEN screen.asks[k[2]].at \in {"flash", "screen"} ELSE k[2] \in screen.missed
                   allowed == IF k[1] = "ask" THEN IsOpen(k[2]) ELSE k[2] \in screen.missed
               IN  /\ Cardinality(shown) <= IF allowed THEN 1 ELSE 0
                   /\ wanted => \E n \in desktop : n.key = k
    <3> DEFINE shown == {n \in desktop : n.key = k /\ ~n.dismissed}
               wanted == IF k[1] = "ask" THEN screen.asks[k[2]].at \in {"flash", "screen"} ELSE k[2] \in screen.missed
               allowed == IF k[1] = "ask" THEN IsOpen(k[2]) ELSE k[2] \in screen.missed
    <3>1. Silent(calls, k)
      BY <2>3 DEF Silent
    <3>2. (wanted => Signalled(k)) /\ (Signalled(k) => allowed)
      <4>1. PICK a \in Asks : k = AskKey(a) \/ k = MissedKey(a)
        BY KeysApart
      <4>2. CASE k = AskKey(a)
        <5>1. k[1] = "ask" /\ k[2] = a /\ (Signalled(k) <=> attention.known[a].open)
          BY <2>1, <4>2, KeysApart DEF Signalled
        <5> QED BY <2>1, <5>1 DEF FrameIsTrue
      <4>3. CASE k = MissedKey(a)
        <5>1. k[1] # "ask" /\ k[2] = a /\ (Signalled(k) <=> a \in attention.missed)
          BY <2>1, <4>3, KeysApart DEF Signalled
        <5> QED BY <2>1, <5>1 DEF FrameIsTrue
      <4> QED BY <4>1, <4>2, <4>3
    <3>3. wanted => \E n \in desktop : n.key = k
      BY <2>1, <3>1, <3>2 DEF CallsLead
    <3>4. shown = {} \/ \E n : shown = {n}
      <4>1. \A n, m \in shown : n = m
        BY <2>1, <2>3 DEF IdsAreOwn
      <4> HIDE DEF shown
      <4> QED BY <4>1
    <3>5. ~allowed => shown = {}
      BY <2>1, <3>1, <3>2 DEF CallsLead
    <3> HIDE DEF shown, wanted, allowed
    <3>6. Cardinality(shown) <= IF allowed THEN 1 ELSE 0
      <4>1. shown = {} => Cardinality(shown) = 0
        BY FS_EmptySet
      <4>2. (\E n : shown = {n}) => Cardinality(shown) = 1
        BY FS_Singleton
      <4> QED BY <3>4, <3>5, <4>1, <4>2
    <3> QED BY <3>3, <3>6 DEF shown, wanted, allowed
  <2> QED BY <2>2, <2>3 DEF CallsForOperator
<1>2. AttentionInv /\ [AttentionNext]_attentionVars => AttentionInv'
  BY AttentionStep
<1> QED BY <1>1, <1>2, AttentionInitially, PTL DEF AttentionSpec

-----------------------------------------------------------------------------
(* The inductive invariant.                                                *)

Phases == {"new", "begun", "serving", "over"} \union Exits
AskStates == {"new", "numbered", "ready", "open", "yes", "no", "ending", "over"}
Steps == [n : Int, label : Labels \union {"starting"}, repeatable : BOOLEAN, failure : BOOLEAN, warning : BOOLEAN]

DialogsTypeOK ==
    /\ table \in [Procs -> Steps] /\ phase \in [Procs -> Phases]
    /\ unsent \in SUBSET [thread : Requests \union {"report"}, message : StepMessages]
    /\ link \in {"off", "pushed", "on"} /\ held \in Seq(Messages) /\ stream \in Seq(Messages)
    /\ ask \in [Requests -> AskStates] /\ number \in [Requests -> Nat]

\* The table and the threads of serve().
TableInv ==
    \A p \in Procs : /\ p \in Live => phase[p] \in {"begun", "serving"} /\ table[p].n \in Nat
                     /\ phase[p] = "begun" => table[p] = Starting

\* An end is announced after the procedure.
EndsOver(ms, ph) == \A i \in 1..Len(ms) : ms[i].type = "ended" => ph[ms[i].proc] = "over"

\* A message tells of step n or a later one of p.
Tells(ms, p, n) == \E j \in 1..Len(ms) : ms[j].type = "step" /\ ms[j].proc = p /\ ms[j].n >= n
ToTell(xs, p, n) == \E x \in xs : x.message.proc = p /\ x.message.n >= n

\* What runs is not taken for ended, and its step is known or on its way.
KnowledgeInv ==
    /\ EndsOver(stream, phase) /\ EndsOver(held, phase)
    /\ \A p \in Running \ ui.misled : ~ui.proc[p].ended
    /\ link = "on" => \A p \in Live \ ui.misled :
          \/ Knows(ui, p, table[p].n) \/ phase[p] = "begun"
          \/ Tells(stream, p, table[p].n) \/ ToTell(unsent, p, table[p].n)

\* A claim may be before the operator until it is approved or resolved.
OpenClaims == {d \in Deployments : ask[d] \in {"open", "no"}}
UiInv == Good(ui) /\ Settled(ui) /\ InHand(ui, OpenClaims)

\* The prompts among ms that are still asked; whether ms tells of a loss.
AskedIn(ms) == {q \in Prompts : \E j \in 1..Len(ms) : StillAsked(ms, j) /\ ms[j].req = q}
LostIn(ms) == \E j \in 1..Len(ms) : IsLost(ms, j)

\* Where a prompt is: on its way it is open; the TUI asks nothing of a session
\* that it knows to be gone, and nothing twice.
AskingInv ==
    /\ \A q \in FinishedIn(stream) : ask[q] = "over"
    /\ FinishedIn(held) = {} /\ ~LostIn(held)
    /\ link # "pushed" => held = <<>>
    /\ link # "on" => AskedIn(stream) = {}
    /\ \A q \in AskedIn(stream) \union AskedIn(held) : ask[q] = "open"
    /\ ui.lost => NoPrompts(ui)
    /\ link = "on" => Regained(stream, Len(stream), ui.lost)
    /\ ~LostIn(stream) => \A id \in Dialogs, q \in Prompts : HasPrompt(ui, id, q) =>
          link = "on" /\ ask[q] \in {"open", "yes", "no", "over"} /\ q \notin AskedIn(stream)

DialogsInv == DialogsTypeOK /\ TableInv /\ KnowledgeInv /\ UiInv /\ AskingInv

-----------------------------------------------------------------------------
(* What becomes of messages that more are added to.                        *)

LEMMA Joins ==
    ASSUME NEW a \in Seq(Messages), NEW b \in Seq(Messages), NEW c, c = a \o b
    PROVE  /\ c \in Seq(Messages) /\ Len(a) \in Nat /\ Len(b) \in Nat /\ Len(c) = Len(a) + Len(b)
           /\ \A i \in 1..Len(a) : c[i] = a[i] /\ i \in 1..Len(c)
           /\ \A i \in 1..Len(b) : c[Len(a) + i] = b[i] /\ Len(a) + i \in 1..Len(c)
           /\ \A k \in 1..Len(c) : k \in 1..Len(a) \/ (k - Len(a) \in 1..Len(b) /\ c[k] = b[k - Len(a)])
  BY ConcatProperties

\* Of two sequences of messages read one after the other.
Joined(a, b, c) ==
    /\ \A ph : EndsOver(a, ph) /\ EndsOver(b, ph) => EndsOver(c, ph)
    /\ \A p, n : Tells(a, p, n) \/ Tells(b, p, n) => Tells(c, p, n)
    /\ AskedIn(c) \subseteq AskedIn(a) \union AskedIn(b)
    /\ FinishedIn(c) \subseteq FinishedIn(a) \union FinishedIn(b)
    /\ LostIn(c) <=> LostIn(a) \/ LostIn(b)
    /\ \A lost : Regained(a, Len(a), lost) /\ ~LostIn(b) => Regained(c, Len(c), lost)

LEMMA MessagesJoined ==
    ASSUME NEW a \in Seq(Messages), NEW b \in Seq(Messages), NEW c, c = a \o b
    PROVE  Joined(a, b, c)
<1> DEFINE n == Len(a)
           m == Len(b)
           k == Len(c)
<1>1. /\ n \in Nat /\ m \in Nat /\ k = n + m
      /\ \A i \in 1..n : c[i] = a[i] /\ i \in 1..k
      /\ \A i \in 1..m : c[n + i] = b[i] /\ n + i \in 1..k
      /\ \A j \in 1..k : j \in 1..n \/ (j - n \in 1..m /\ c[j] = b[j - n])
  BY Joins
<1>2. k = Len(c) /\ n = Len(a) /\ m = Len(b)
  OBVIOUS
<1> HIDE DEF n, m, k
<1>a. n \in Nat /\ m \in Nat /\ k = n + m
  BY <1>1
<1>3. ASSUME NEW ph, EndsOver(a, ph), EndsOver(b, ph) PROVE EndsOver(c, ph)
  BY <1>1, <1>2, <1>3 DEF EndsOver
<1>4. ASSUME NEW p, NEW x, Tells(a, p, x) \/ Tells(b, p, x) PROVE Tells(c, p, x)
  BY <1>1, <1>2, <1>4, SMTT(30) DEF Tells
<1>5. ASSUME NEW q \in AskedIn(c) PROVE q \in AskedIn(a) \union AskedIn(b)
  <2>1. PICK j \in 1..k : StillAsked(c, j) /\ c[j].req = q
    BY <1>2 DEF AskedIn
  <2>2. CASE j \in 1..n
    <3>1. c[j] = a[j] /\ a[j].type = "prompt"
      BY <1>1, <2>1, <2>2 DEF StillAsked
    <3>2. ASSUME NEW i \in (j + 1)..n PROVE c[i] = a[i] /\ i \in (j + 1)..k
      <4>1. i \in 1..n /\ i \in (j + 1)..k
        BY <1>a, <2>2, <3>2
      <4> QED BY <1>1, <4>1
    <3>3. StillAsked(a, j)
      BY <1>2, <2>1, <3>1, <3>2 DEF StillAsked
    <3> QED BY <1>2, <2>1, <2>2, <3>1, <3>3 DEF AskedIn
  <2>3. CASE j - n \in 1..m /\ c[j] = b[j - n]
    <3> DEFINE i == j - n
    <3>1. i \in 1..m /\ c[j] = b[i] /\ b[i].type = "prompt" /\ b[i].req = q /\ j = n + i
      BY <1>1, <2>1, <2>3 DEF StillAsked
    <3>2. ASSUME NEW h \in (i + 1)..m PROVE c[n + h] = b[h] /\ n + h \in (j + 1)..k
      <4>1. h \in 1..m /\ n + h \in (j + 1)..k
        BY <1>a, <3>1, <3>2
      <4> QED BY <1>1, <4>1
    <3> HIDE DEF i
    <3>3. StillAsked(b, i)
      BY <1>2, <2>1, <3>1, <3>2 DEF StillAsked
    <3> QED BY <1>2, <3>1, <3>3 DEF AskedIn
  <2> QED BY <1>1, <2>2, <2>3
<1>6. ASSUME NEW q \in FinishedIn(c) PROVE q \in FinishedIn(a) \union FinishedIn(b)
  BY <1>1, <1>2 DEF FinishedIn
<1>7. LostIn(c) <=> LostIn(a) \/ LostIn(b)
  <2>1. ASSUME LostIn(c) PROVE LostIn(a) \/ LostIn(b)
    <3>1. PICK j \in 1..k : IsLost(c, j)
      BY <1>2, <2>1 DEF LostIn
    <3> QED BY <1>1, <1>2, <3>1 DEF LostIn, IsLost
  <2>2. ASSUME LostIn(a) PROVE LostIn(c)
    <3>1. PICK j \in 1..n : IsLost(a, j)
      BY <1>2, <2>2 DEF LostIn
    <3> QED BY <1>1, <1>2, <3>1 DEF LostIn, IsLost
  <2>3. ASSUME LostIn(b) PROVE LostIn(c)
    <3>1. PICK j \in 1..m : IsLost(b, j)
      BY <1>2, <2>3 DEF LostIn
    <3>2. c[n + j] = b[j] /\ n + j \in 1..k
      BY <1>1, <3>1
    <3> QED BY <1>2, <3>1, <3>2 DEF LostIn, IsLost
  <2> QED BY <2>1, <2>2, <2>3
<1>8. ASSUME NEW lost, Regained(a, Len(a), lost), ~LostIn(b) PROVE Regained(c, Len(c), lost)
  <2>1. \A j \in 1..k : j \in 1..n \/ ~IsLost(c, j)
    BY <1>1, <1>2, <1>8 DEF LostIn, IsLost
  <2>2. CASE \E j \in 1..n : a[j].type = "listed" /\ \A h \in (j + 1)..n : ~IsLost(a, h)
    <3>1. PICK j \in 1..n : a[j].type = "listed" /\ \A h \in (j + 1)..n : ~IsLost(a, h)
      BY <2>2
    <3>2. ASSUME NEW h \in (j + 1)..k PROVE ~IsLost(c, h)
      <4>1. h \in 1..k
        BY <1>1, <3>1
      <4>2. CASE h \in 1..n
        <5>1. h \in (j + 1)..n
          BY <1>a, <3>2, <4>2
        <5>2. c[h] = a[h]
          BY <1>1, <4>2
        <5> QED BY <3>1, <5>1, <5>2 DEF IsLost
      <4>3. CASE h \notin 1..n
        BY <2>1, <4>1, <4>3
      <4> QED BY <4>2, <4>3
    <3> QED BY <1>1, <1>2, <3>1, <3>2 DEF Regained
  <2>3. CASE ~lost /\ \A h \in 1..n : ~IsLost(a, h)
    BY <1>1, <1>2, <2>1, <2>3 DEF Regained, IsLost
  <2> QED BY <1>2, <1>8, <2>2, <2>3 DEF Regained
<1> QED BY <1>3, <1>4, <1>5, <1>6, <1>7, <1>8 DEF Joined

\* One more message m.
Lengthened(ms, ns, m) ==
    /\ ns \in Seq(Messages) /\ Joined(ms, <<m>>, ns)
    /\ \A ph : (m.type = "ended" => ph[m.proc] = "over") => EndsOver(<<m>>, ph)
    /\ m.type = "step" => Tells(ns, m.proc, m.n)
    /\ m.type = "lost" => AskedIn(ns) = {} /\ LostIn(ns)
    /\ m.type = "withdrawn" => m.req \notin AskedIn(ns)
    /\ m.type = "prompt" => AskedIn(<<m>>) \subseteq {m.req}
    /\ m.type # "prompt" => AskedIn(<<m>>) = {}
    /\ m.type = "finished" => FinishedIn(<<m>>) \subseteq {m.req}
    /\ m.type # "finished" => FinishedIn(<<m>>) = {}
    /\ m.type # "lost" => ~LostIn(<<m>>)

LEMMA MessageAdded ==
    ASSUME NEW ms \in Seq(Messages), NEW m \in Messages, NEW ns, ns = Append(ms, m)
    PROVE  Lengthened(ms, ns, m)
<1> DEFINE b == <<m>>
<1>1. b \in Seq(Messages) /\ Len(b) = 1 /\ b[1] = m /\ ns = ms \o b
  BY AppendProperties, ConcatProperties
<1>2. ns \in Seq(Messages) /\ Joined(ms, b, ns)
  <2> HIDE DEF b
  <2> QED BY <1>1, Joins, MessagesJoined
<1> DEFINE n == Len(ms)
           k == Len(ns)
<1>3. n \in Nat /\ k = n + 1 /\ ns[k] = m /\ k = Len(ns) /\ \A i \in 1..n : ns[i] = ms[i]
  BY AppendProperties
<1> HIDE DEF b, n, k
<1>4. m.type = "step" => Tells(ns, m.proc, m.n)
  <2>1. m.type = "step" => m.n \in Nat
    BY MessageTypes DEF StepMessages
  <2>2. k \in 1..Len(ns) /\ (m.type = "step" => m.n >= m.n)
    BY <1>3, <2>1
  <2> QED BY <1>3, <2>2 DEF Tells
<1>5. m.type = "lost" => AskedIn(ns) = {} /\ LostIn(ns)
  <2> SUFFICES ASSUME m.type = "lost" PROVE AskedIn(ns) = {} /\ LostIn(ns)
    OBVIOUS
  <2>1. LostIn(ns)
    BY <1>3 DEF LostIn, IsLost
  <2>2. ASSUME NEW j \in 1..Len(ns), StillAsked(ns, j) PROVE FALSE
    <3>1. j # k
      BY <1>3, <2>2 DEF StillAsked
    <3>2. k \in (j + 1)..Len(ns)
      BY <1>3, <3>1
    <3> QED BY <1>3, <2>2, <3>2 DEF StillAsked
  <2> QED BY <2>1, <2>2 DEF AskedIn
<1>6. m.type = "withdrawn" => m.req \notin AskedIn(ns)
  <2> SUFFICES ASSUME m.type = "withdrawn", NEW j \in 1..Len(ns), StillAsked(ns, j), ns[j].req = m.req PROVE FALSE
    BY DEF AskedIn
  <2>1. j # k
    BY <1>3 DEF StillAsked
  <2>2. k \in (j + 1)..Len(ns)
    BY <1>3, <2>1
  <2> QED BY <1>3, <2>2 DEF StillAsked
<1>7. \A ph : (m.type = "ended" => ph[m.proc] = "over") => EndsOver(b, ph)
  BY <1>1 DEF EndsOver
<1>8. /\ m.type = "prompt" => AskedIn(b) \subseteq {m.req}
      /\ m.type # "prompt" => AskedIn(b) = {}
  BY <1>1 DEF AskedIn, StillAsked
<1>9. /\ m.type = "finished" => FinishedIn(b) \subseteq {m.req}
      /\ m.type # "finished" => FinishedIn(b) = {}
      /\ m.type # "lost" => ~LostIn(b)
  BY <1>1 DEF FinishedIn, LostIn, IsLost
<1> QED BY <1>2, <1>4, <1>5, <1>6, <1>7, <1>8, <1>9 DEF Lengthened, b

LEMMA NoMessages ==
    /\ <<>> \in Seq(Messages) /\ AskedIn(<<>>) = {} /\ FinishedIn(<<>>) = {} /\ ~LostIn(<<>>)
    /\ \A ph : EndsOver(<<>>, ph) 
    /\ \A lost : ~lost => Regained(<<>>, Len(<<>>), lost)
  BY DEF AskedIn, FinishedIn, LostIn, EndsOver, Regained

\* SetToSeq lists every element of a finite set.
LEMMA SetToSeqIs ==
    ASSUME NEW S, IsFiniteSet(S)
    PROVE  SetToSeq(S) \in Seq(S) /\ \A x \in S : \E i \in 1..Len(SetToSeq(S)) : SetToSeq(S)[i] = x
<1> DEFINE n == Cardinality(S)
           s == SetToSeq(S)
<1>1. n \in Nat /\ ExistsBijection(1..n, S)
  BY FS_CardinalityType
<1>2. \E f \in [1..n -> S] : IsInjective(f)
  BY <1>1 DEF ExistsBijection, Bijection, Injection
<1>3. s \in [1..n -> S] /\ IsInjective(s)
  <2>1. s = CHOOSE f \in [1..n -> S] : IsInjective(f)
    BY DEF SetToSeq
  <2> HIDE DEF s, n
  <2> QED BY <1>2, <2>1
<1> HIDE DEF s
<1>4. s \in Injection(1..n, S)
  BY <1>3 DEF Injection
<1>5. IsFiniteSet(1..n) /\ Cardinality(1..n) = n
  <2> HIDE DEF n
  <2> QED BY <1>1, FS_Interval
<1>6. s \in Surjection(1..n, S)
  <2>1. Cardinality(1..n) = Cardinality(S)
    BY <1>5
  <2> HIDE DEF n
  <2> QED BY <1>4, <2>1, FS_Injection
<1>7. \A x \in S : \E i \in 1..n : s[i] = x
  BY <1>6 DEF Surjection
<1>8. s \in Seq(S) /\ Len(s) = n
  <2> HIDE DEF n
  <2> QED BY <1>1, <1>3
<1> QED BY <1>7, <1>8 DEF s

\* The snapshot has the step of every live procedure, and the list.
LEMMA SnapshotIs ==
    ASSUME DialogsTypeOK, TableInv,
           NEW s, s = SetToSeq({StepOf(p, table[p]) : p \in Live}),
           NEW l, l = [type |-> "listed", live |-> Live]
    PROVE  /\ s \in Seq(StepMessages) /\ l \in Messages
           /\ \A p \in Live : \E i \in 1..Len(s) : s[i] = StepOf(p, table[p])
<1> DEFINE f == [p \in Live |-> StepOf(p, table[p])]
           S == {StepOf(p, table[p]) : p \in Live}
<1>1. IsFiniteSet(Live) /\ Live \in SUBSET Procs
  BY ProcedureNames, FS_Subset DEF Live
<1>2. f \in Surjection(Live, S)
  BY DEF Surjection
<1>3. IsFiniteSet(S)
  <2> HIDE DEF f, S
  <2> QED BY <1>1, <1>2, FS_Surjection
<1>4. S \subseteq StepMessages
  <2> SUFFICES ASSUME NEW p \in Live PROVE StepOf(p, table[p]) \in StepMessages
    OBVIOUS
  <2>1. p \in Procs /\ table[p] \in Steps /\ table[p].n \in Nat
    BY <1>1 DEF DialogsTypeOK, TableInv
  <2> QED BY <2>1 DEF StepOf, StepMessages, Steps
<1>5. s \in Seq(S) /\ \A x \in S : \E i \in 1..Len(s) : s[i] = x
  <2>1. s = SetToSeq(S)
    OBVIOUS
  <2> HIDE DEF S
  <2> QED BY <1>3, <2>1, SetToSeqIs
<1>6. s \in Seq(StepMessages)
  <2> HIDE DEF S
  <2> QED BY <1>4, <1>5
<1>7. \A p \in Live : \E i \in 1..Len(s) : s[i] = StepOf(p, table[p])
  BY <1>5
<1>8. l \in Messages
  BY <1>1 DEF Messages, ListMessages
<1> QED BY <1>6, <1>7, <1>8

-----------------------------------------------------------------------------
(* The invariant, conjunct by conjunct.                                    *)

\* What FailureIsSeen says of a step.
FailureStep ==
    \A id \in Procs : (ui.proc[id].between = "bad" /\ ui'.proc[id].between # "bad")
          => \/ OnScreen(ui, id) \/ ApprovalOf(ui, id)
             \/ ui'.proc[id].prompts # <<>> \/ HasPending(ui', id) \/ ApprovalOf(ui', id)

\* The backend's answer to a prompt that the TUI has.
Answered(q) == /\ ask[q] = "open" /\ ask'[q] \in {"yes", "no"} /\ ~LostIn(stream)
               /\ \E id \in Dialogs : HasPrompt(ui, id, q)

\* No message comes or goes.
LEMMA AskingQuiet ==
    ASSUME AskingInv, UNCHANGED <<stream, held, link>>,
           \A q \in Prompts : ask'[q] = ask[q] \/ ask[q] \in {"new", "numbered", "ready"} \/ Answered(q),
           ui'.lost = ui.lost, NoPromptMore(ui, ui'), ui' \in Uis
    PROVE  AskingInv'
<1>1. \A q \in FinishedIn(stream') : ask'[q] = "over"
  <2> SUFFICES ASSUME NEW q \in FinishedIn(stream) PROVE ask'[q] = "over"
    OBVIOUS
  <2>1. q \in Prompts /\ ask[q] = "over"
    BY DEF AskingInv, FinishedIn
  <2> QED BY <2>1 DEF Answered
<1>2. \A q \in AskedIn(stream') \union AskedIn(held') : ask'[q] = "open"
  <2> SUFFICES ASSUME NEW q \in AskedIn(stream) \union AskedIn(held) PROVE ask'[q] = "open"
    OBVIOUS
  <2>1. q \in Prompts /\ ask[q] = "open"
    BY DEF AskingInv, AskedIn
  <2>2. CASE Answered(q)
    <3>1. link = "on" /\ q \notin AskedIn(stream)
      BY <2>1, <2>2 DEF AskingInv, Answered
    <3>2. AskedIn(held) = {}
      BY <3>1, NoMessages DEF AskingInv
    <3> QED BY <3>1, <3>2
  <2> QED BY <2>1, <2>2
<1>3. ui'.lost => NoPrompts(ui')
  <2>1. ui.lost => NoPrompts(ui)
    BY DEF AskingInv
  <2> SUFFICES ASSUME ui'.lost, NEW id \in Dialogs PROVE ui'.proc[id].prompts = <<>>
    BY DEF NoPrompts
  <2>2. ui'.proc[id].prompts \in Seq(Prompts)
    BY FieldTypes, RecordTypes
  <2>3. \A q \in Prompts : ~HasPrompt(ui', id, q)
    <3>1. ui.proc[id].prompts = <<>>
      BY <2>1 DEF NoPrompts
    <3> QED BY <3>1 DEF NoPromptMore, HasPrompt
  <2> DEFINE s == ui'.proc[id].prompts
  <2>4. \A i \in 1..Len(s) : FALSE
    BY <2>2, <2>3 DEF HasPrompt
  <2> HIDE DEF s
  <2> QED BY <2>2, <2>4 DEF s
<1>4. ~LostIn(stream') => \A id \in Dialogs, q \in Prompts : HasPrompt(ui', id, q) =>
          link' = "on" /\ ask'[q] \in {"open", "yes", "no", "over"} /\ q \notin AskedIn(stream')
  <2> SUFFICES ASSUME ~LostIn(stream), NEW id \in Dialogs, NEW q \in Prompts, HasPrompt(ui', id, q)
               PROVE  link = "on" /\ ask'[q] \in {"open", "yes", "no", "over"} /\ q \notin AskedIn(stream)
    OBVIOUS
  <2>1. HasPrompt(ui, id, q)
    BY DEF NoPromptMore
  <2>2. link = "on" /\ ask[q] \in {"open", "yes", "no", "over"} /\ q \notin AskedIn(stream)
    BY <2>1 DEF AskingInv
  <2> QED BY <2>2 DEF Answered
<1> QED BY <1>1, <1>2, <1>3, <1>4 DEF AskingInv

LEMMA InHandMore ==
    ASSUME NEW u, NEW D, NEW E, InHand(u, D), D \subseteq E
    PROVE  InHand(u, E)
  BY DEF InHand

\* What is known stays known through what is calm.
LEMMA KnowledgeCalm ==
    ASSUME TableInv, KnowledgeInv, UNCHANGED <<table, phase, unsent, link, held, stream>>,
           ui \in Uis, ui' \in Uis, Calm(ui, ui')
    PROVE  KnowledgeInv'
<1>1. ui.misled \subseteq ui'.misled /\ \A p \in Running : p \notin ui'.misled => RecordCalm(ui.proc[p], ui'.proc[p])
  BY DEF Calm
<1>2. \A p \in Running : ui.proc[p].step \in Nat /\ ui'.proc[p].step \in Nat
  BY RunningIsProc, FieldTypes, RecordTypes
<1>3. Running' = Running /\ Live' = Live
  BY DEF Running, Live
<1>4. \A p \in Running \ ui'.misled : ~ui'.proc[p].ended
  BY <1>1 DEF KnowledgeInv, RecordCalm
<1>5. link = "on" => \A p \in Live \ ui'.misled :
          \/ Knows(ui', p, table[p].n) \/ phase[p] = "begun"
          \/ Tells(stream, p, table[p].n) \/ ToTell(unsent, p, table[p].n)
  <2> SUFFICES ASSUME link = "on", NEW p \in Live, p \notin ui'.misled
               PROVE  \/ Knows(ui', p, table[p].n) \/ phase[p] = "begun"
                      \/ Tells(stream, p, table[p].n) \/ ToTell(unsent, p, table[p].n)
    OBVIOUS
  <2>1. p \in Running /\ p \in Procs /\ table[p].n \in Nat
    BY DEF TableInv, Running, Live
  <2>2. RecordCalm(ui.proc[p], ui'.proc[p]) /\ ~ui.proc[p].ended /\ p \notin ui.misled
    BY <1>1, <2>1 DEF KnowledgeInv
  <2>3. Knows(ui, p, table[p].n) => Knows(ui', p, table[p].n)
    BY <1>2, <2>1, <2>2 DEF Knows, RecordCalm
  <2>4. \/ Knows(ui, p, table[p].n) \/ phase[p] = "begun"
        \/ Tells(stream, p, table[p].n) \/ ToTell(unsent, p, table[p].n)
    BY <2>2 DEF KnowledgeInv
  <2> QED BY <2>3, <2>4
<1> QED BY <1>3, <1>4, <1>5 DEF KnowledgeInv

\* What the operator and the deployment worker do in the TUI.
LEMMA UiStepKeeps ==
    ASSUME DialogsInv, UNCHANGED <<table, phase, unsent, link, held, stream, number>>, Acted(ui, ui'), ask' \in [Requests -> AskStates],
           \A q \in Prompts : ask'[q] = ask[q] \/ Answered(q),
           InHand(ui', {d \in Deployments : ask'[d] \in {"open", "no"}})
    PROVE  DialogsInv' /\ FailureStep
<1>1. ui \in Uis /\ ui' \in Uis /\ Calm(ui, ui') /\ Good(ui') /\ Settled(ui') /\ NoPromptMore(ui, ui') /\ ui'.lost = ui.lost
  BY DEF DialogsInv, UiInv, Acted, Good
<1>2. UNCHANGED <<table, phase, unsent, link, held, stream>>
  OBVIOUS
<1>3. DialogsTypeOK'
  BY <1>2 DEF DialogsInv, DialogsTypeOK
<1>4. TableInv'
  BY <1>2 DEF DialogsInv, TableInv, Live
<1>5. KnowledgeInv'
  BY <1>1, <1>2, KnowledgeCalm DEF DialogsInv
<1>6. UiInv'
  BY <1>1 DEF UiInv, OpenClaims
<1>7. AskingInv'
  BY <1>1, <1>2, AskingQuiet DEF DialogsInv
<1>8. FailureStep
  BY DEF FailureStep, Acted, BadSeen, Called
<1> QED BY <1>3, <1>4, <1>5, <1>6, <1>7, <1>8 DEF DialogsInv

LEMMA ConnectedIs ==
    ASSUME stream \in Seq(Messages), Connected
    PROVE  ~LostIn(stream)
  BY DEF Connected, LostIn, IsLost

\* A prompt that the TUI has is answered, or found answered already.
LEMMA PromptAnswered ==
    ASSUME DialogsInv, NEW r \in Prompts, NEW id \in Dialogs, HasPrompt(ui, id, r), NEW a \in {"yes", "no"},
           ask' = [ask EXCEPT ![r] = IF @ = "open" /\ Connected THEN a ELSE @]
    PROVE  /\ ask' \in [Requests -> AskStates] /\ \A q \in Prompts : ask'[q] = ask[q] \/ Answered(q)
           /\ {d \in Deployments : ask'[d] \in {"open", "no"}} = OpenClaims
<1>1. ask \in [Requests -> AskStates] /\ stream \in Seq(Messages) /\ r \in Requests /\ r \notin Deployments
  BY DEF DialogsInv, DialogsTypeOK, Prompts
<1>2. ask' \in [Requests -> AskStates]
  BY <1>1 DEF AskStates
<1>3. \A d \in Deployments : ask[d] \in {"open", "no"} => ask'[d] = ask[d]
  BY <1>1, ProcedureNames
<1>4. ASSUME NEW q \in Prompts PROVE ask'[q] = ask[q] \/ Answered(q)
  <2>1. CASE q = r /\ ask[r] = "open" /\ Connected
    BY <1>1, <2>1, ConnectedIs DEF Answered
  <2>2. CASE ~(q = r /\ ask[r] = "open" /\ Connected)
    BY <1>1, <2>2 DEF Prompts
  <2> QED BY <2>1, <2>2
<1>5. {d \in Deployments : ask'[d] \in {"open", "no"}} = OpenClaims
  BY <1>3 DEF OpenClaims
<1> QED BY <1>2, <1>4, <1>5

LEMMA AskUnchanged ==
    ASSUME DialogsInv, ask' = ask
    PROVE  /\ ask' \in [Requests -> AskStates] /\ \A q \in Prompts : ask'[q] = ask[q] \/ Answered(q)
           /\ {d \in Deployments : ask'[d] \in {"open", "no"}} = OpenClaims
  BY DEF DialogsInv, DialogsTypeOK, OpenClaims

\* What is drawn is shown.
LEMMA DrawnStep ==
    ASSUME DialogsInv, NEW w, Drawn(ui, w), NEW D \in SUBSET Deployments, InHand(w, D), ui' = ShowPending(w)
    PROVE  Acted(ui, ui') /\ InHand(ui', D)
<1>1. ui \in Uis
  BY DEF DialogsInv, UiInv, Good
<1> QED BY <1>1, ShowAfter

LEMMA ExpirePromptStep ==
    ASSUME DialogsInv, NEW r \in Requests \ Deployments, ExpirePrompt(r)
    PROVE  DialogsInv' /\ FailureStep
<1> DEFINE id == Owner(r)
           w == PromptMissed(ui, r, "timedout")
<1>1. Good(ui) /\ ui \in Uis /\ r \in Prompts /\ id \in Dialogs /\ InHand(ui, OpenClaims) /\ OpenClaims \in SUBSET Deployments
  BY Names DEF DialogsInv, UiInv, Good, Prompts, OpenClaims
<1>2. HasPrompt(ui, id, r)
  <2>1. ui.proc[id].prompts \in Seq(Prompts) /\ r \in Range(ui.proc[id].prompts)
    BY <1>1, FieldTypes, RecordTypes DEF ExpirePrompt
  <2> DEFINE s == ui.proc[id].prompts
  <2>2. \E i \in 1..Len(s) : s[i] = r
    <3> HIDE DEF s
    <3>1. s \in Seq(Prompts) /\ r \in Range(s)
      BY <2>1 DEF s
    <3> QED BY <3>1 DEF Range
  <2> QED BY <2>2 DEF HasPrompt
<1>3. ask' = [ask EXCEPT ![r] = IF @ = "open" /\ Connected THEN "no" ELSE @] /\ UNCHANGED <<tableVars, number>>
      /\ ui' = ShowPending(w)
  BY DEF ExpirePrompt, UiStep
<1>4. Tame(ui, w) /\ NoPromptMore(ui, w)
  <2>1. "timedout" \in Outcomes
    BY DEF Outcomes
  <2> QED BY <1>1, <2>1, PromptMissedTame
<1> HIDE DEF id, w
<1>5. Drawn(ui, w) /\ InHand(w, OpenClaims)
  BY <1>1, <1>4, TameDrawn, InHandSame DEF Tame, SameRest
<1>6. Acted(ui, ui') /\ InHand(ui', OpenClaims)
  BY <1>1, <1>3, <1>5, DrawnStep
<1>7. /\ ask' \in [Requests -> AskStates] /\ \A q \in Prompts : ask'[q] = ask[q] \/ Answered(q)
      /\ {d \in Deployments : ask'[d] \in {"open", "no"}} = OpenClaims
  <2> DEFINE no == "no"
  <2>1. no \in {"yes", "no"} /\ ask' = [ask EXCEPT ![r] = IF @ = "open" /\ Connected THEN no ELSE @]
    BY <1>3
  <2> HIDE DEF no
  <2> QED BY <1>1, <1>2, <2>1, PromptAnswered
<1> QED BY <1>3, <1>6, <1>7, UiStepKeeps DEF tableVars

LEMMA AnswerPromptStep ==
    ASSUME DialogsInv, NEW yes \in BOOLEAN, AnswerPrompt(yes)
    PROVE  DialogsInv' /\ FailureStep
<1> DEFINE id == ui.foreground
           s == ui.proc[id].prompts
           r == Head(s)
           w == TakeShown(ui, yes)
           a == IF yes THEN "yes" ELSE "no"
<1>1. Good(ui) /\ ui \in Uis /\ ShownPrompt(ui) /\ InHand(ui, OpenClaims) /\ OpenClaims \in SUBSET Deployments
  BY DEF DialogsInv, UiInv, Good, OpenClaims, AnswerPrompt
<1>2. id \in Dialogs /\ s # <<>>
  BY <1>1, FieldTypes DEF ShownPrompt
<1>3. s \in Seq(Prompts)
  BY <1>1, <1>2, FieldTypes, RecordTypes
<1>4. r \in Prompts /\ r = s[1] /\ 1 \in 1..Len(s)
  <2> HIDE DEF s
  <2> QED BY <1>2, <1>3
<1>5. HasPrompt(ui, id, r)
  BY <1>4 DEF HasPrompt
<1>6. /\ UNCHANGED <<tableVars, number>> /\ ui' = ShowPending(w)
      /\ ask' = [ask EXCEPT ![r] = IF @ = "open" /\ Connected THEN a ELSE @]
  BY DEF AnswerPrompt, UiStep
<1>7. Drawn(ui, w) /\ SameRest(ui, w) /\ a \in {"yes", "no"}
  BY <1>1, TakeShownKeeps
<1> HIDE DEF id, s, r, w, a
<1>8. InHand(w, OpenClaims)
  BY <1>1, <1>7, InHandSame DEF SameRest
<1>9. Acted(ui, ui') /\ InHand(ui', OpenClaims)
  BY <1>1, <1>6, <1>7, <1>8, DrawnStep
<1>10. /\ ask' \in [Requests -> AskStates] /\ \A q \in Prompts : ask'[q] = ask[q] \/ Answered(q)
       /\ {d \in Deployments : ask'[d] \in {"open", "no"}} = OpenClaims
  BY <1>2, <1>4, <1>5, <1>6, <1>7, PromptAnswered
<1> QED BY <1>6, <1>9, <1>10, UiStepKeeps DEF tableVars

\* What only turns the dialogs over.
LEMMA TurnStep ==
    ASSUME DialogsInv, UNCHANGED <<tableVars, number, ask>>, NEW w, Drawn(ui, w), ui' = ShowPending(w),
           \A D \in SUBSET Deployments : InHand(ui, D) => InHand(w, D)
    PROVE  DialogsInv' /\ FailureStep
<1>1. InHand(ui, OpenClaims) /\ OpenClaims \in SUBSET Deployments
  BY DEF DialogsInv, UiInv, OpenClaims
<1>2. InHand(w, OpenClaims)
  BY <1>1
<1>3. Acted(ui, ui') /\ InHand(ui', OpenClaims)
  BY <1>1, <1>2, DrawnStep
<1> QED BY <1>3, AskUnchanged, UiStepKeeps DEF tableVars

LEMMA MinimiseStep ==
    ASSUME DialogsInv, Minimise
    PROVE  DialogsInv' /\ FailureStep
<1> DEFINE w == MinimiseDialog(ui)
<1>1. Good(ui) /\ number \in [Requests -> Nat]
  BY DEF DialogsInv, UiInv, DialogsTypeOK
<1>2. Turned(ui, w)
  BY <1>1, MinimiseKeeps
<1>3. ui' = ShowPending(w) /\ UNCHANGED <<tableVars, number, ask>>
  BY DEF Minimise, UiStep
<1> HIDE DEF w
<1> QED BY <1>2, <1>3, TurnedDrawn, TurnStep DEF Turned

LEMMA RestoreStep ==
    ASSUME DialogsInv, NEW id \in Dialogs, Restore(id)
    PROVE  DialogsInv' /\ FailureStep
<1> DEFINE w == RestoreDialog(ui, id)
<1>1. Good(ui) /\ Settled(ui) /\ number \in [Requests -> Nat]
  BY DEF DialogsInv, UiInv, DialogsTypeOK
<1>2. Turned(ui, w)
  BY <1>1, RestoreKeeps
<1>3. ui' = ShowPending(w) /\ UNCHANGED <<tableVars, number, ask>>
  BY DEF Restore, UiStep
<1> HIDE DEF w
<1> QED BY <1>2, <1>3, TurnedDrawn, TurnStep DEF Turned

LEMMA RestoreNextStep ==
    ASSUME DialogsInv, RestoreNext
    PROVE  DialogsInv' /\ FailureStep
<1> DEFINE seen == ~ShownPrompt(ui) /\ BetweenShown(ui)
                   /\ ui.proc[ui.foreground].between = "ok" /\ ~Warned(ui.proc[ui.foreground])
           u == IF seen THEN DismissResult(ui) ELSE ui
<1>1. Good(ui) /\ Settled(ui) /\ number \in [Requests -> Nat] /\ ui \in Uis
  BY DEF DialogsInv, UiInv, DialogsTypeOK, Good
<1>2. PICK id \in RestoreCandidates(u) : ui' = ShowPending(RestoreDialog(u, id)) /\ UNCHANGED <<tableVars, number, ask>>
  BY DEF RestoreNext, UiStep
<1>3. id \in Dialogs
  BY <1>2 DEF RestoreCandidates
<1>4. /\ Good(u) /\ Calm(ui, u) /\ BadKept(ui, u) /\ Quieter(ui, u) /\ PromptsKept(ui, u) /\ SameRest(ui, u)
  <2>1. CASE seen
    <3>1. ui.foreground # NoDialog /\ OnScreen(ui, ui.foreground) /\ ui.proc[ui.foreground].between # "bad"
      BY <2>1 DEF BetweenShown
    <3>2. u = DismissResult(ui)
      BY <2>1
    <3> QED BY <1>1, <3>1, <3>2, DismissResultKeeps
  <2>2. CASE ~seen
    <3>1. u = ui
      BY <2>2
    <3> QED BY <1>1, <3>1, FollowsItself DEF Follows, PromptsKept, SameRest
  <2> QED BY <2>1, <2>2
<1> HIDE DEF u
<1> DEFINE w == RestoreDialog(u, id)
<1>5. Settled(u) /\ u \in Uis
  BY <1>1, <1>4, SettledStays DEF Good
<1>6. Turned(u, w)
  BY <1>1, <1>3, <1>4, <1>5, RestoreKeeps
<1>7. ui' = ShowPending(w)
  BY <1>2
<1> HIDE DEF w
<1>8. w \in Uis /\ Drawn(u, w)
  BY <1>6, TurnedDrawn DEF Turned, Untidy
<1>9. NoPromptMore(ui, u) /\ u.lost = ui.lost
  BY <1>4, PromptsButSelf DEF SameRest
<1>10. Drawn(ui, w)
  BY <1>1, <1>4, <1>5, <1>8, <1>9, DrawnThrough
<1>11. \A D \in SUBSET Deployments : InHand(ui, D) => InHand(w, D)
  BY <1>4, <1>6, InHandSame DEF SameRest, Turned
<1> QED BY <1>2, <1>7, <1>10, <1>11, TurnStep

LEMMA AcknowledgeStep ==
    ASSUME DialogsInv, Acknowledge
    PROVE  DialogsInv' /\ FailureStep
<1> DEFINE w == DismissResult(ui)
<1>1. Good(ui) /\ ui.foreground # NoDialog /\ OnScreen(ui, ui.foreground)
  BY DEF DialogsInv, UiInv, Acknowledge, BetweenShown
<1>2. /\ Good(w) /\ Calm(ui, w) /\ SameRest(ui, w) /\ Quieter(ui, w) /\ PromptsKept(ui, w)
      /\ \A p \in Procs : ui.proc[p].between = "bad" => w.proc[p].between = "bad" \/ OnScreen(ui, p)
  BY <1>1, DismissResultKeeps
<1>3. ui' = ShowPending(w) /\ UNCHANGED <<tableVars, number, ask>>
  BY DEF Acknowledge, UiStep
<1> HIDE DEF w
<1>4. Drawn(ui, w)
  BY <1>2, GoodIsUntidy, PromptsButSelf DEF Drawn, BadSeen, SameRest
<1>5. \A D \in SUBSET Deployments : InHand(ui, D) => InHand(w, D)
  BY <1>2, InHandSame DEF SameRest
<1> QED BY <1>3, <1>4, <1>5, TurnStep

LEMMA DialogSteps ==
    ASSUME DialogsInv, OpenDialog \/ CloseDialog \/ CancelCountdown
    PROVE  DialogsInv' /\ FailureStep
<1>1. Good(ui) /\ Settled(ui) /\ ui \in Uis /\ InHand(ui, OpenClaims) /\ OpenClaims \in SUBSET Deployments
  BY DEF DialogsInv, UiInv, OpenClaims, Good
<1>2. CASE OpenDialog
  <2>1. ui.mode = "browse" /\ ui' = [ui EXCEPT !.mode = "dialog"] /\ UNCHANGED <<tableVars, number, ask>>
    BY <1>2 DEF OpenDialog, UiStep
  <2> DEFINE m == "dialog"
  <2>2. ui' = Switched(ui, m) /\ m \in {"browse", "dialog"} /\ m # "browse"
    BY <2>1 DEF Switched
  <2> HIDE DEF m
  <2>3. Turned(ui, ui') /\ Good(ui') /\ ui'.mode = m
    BY <1>1, <2>1, <2>2, SwitchKeeps
  <2>4. Drawn(ui, ui') /\ Settled(ui')
    BY <2>2, <2>3, TurnedDrawn DEF Settled
  <2>5. Acted(ui, ui')
    BY <2>3, <2>4 DEF Acted, Drawn
  <2>6. InHand(ui', OpenClaims)
    BY <1>1, <2>3 DEF Turned
  <2> QED BY <2>1, <2>5, <2>6, AskUnchanged, UiStepKeeps DEF tableVars
<1>3. CASE CloseDialog
  <2> DEFINE m == "browse"
             w == Switched(ui, m)
  <2>1. ui.mode = "dialog" /\ ui' = ShowPending(w) /\ UNCHANGED <<tableVars, number, ask>>
    BY <1>3 DEF CloseDialog, UiStep, Switched
  <2>2. m \in {"browse", "dialog"}
    OBVIOUS
  <2> HIDE DEF m
  <2>3. Turned(ui, w)
    BY <1>1, <2>1, <2>2, SwitchKeeps
  <2> HIDE DEF w
  <2> QED BY <2>1, <2>3, TurnedDrawn, TurnStep DEF Turned
<1>4. CASE CancelCountdown
  <2> DEFINE s == ui.proc[ui.foreground].prompts
             r == Head(s)
  <2>1. ShownPrompt(ui) /\ ui' = [ui EXCEPT !.cancelled = @ \union {r}] /\ UNCHANGED <<tableVars, number, ask>>
    BY <1>4 DEF CancelCountdown, UiStep
  <2>2. s \in Seq(Prompts) /\ s # <<>>
    BY <1>1, <2>1, FieldTypes, RecordTypes DEF ShownPrompt
  <2>3. r \in Requests
    <3> HIDE DEF s
    <3> QED BY <2>2 DEF Prompts
  <2> HIDE DEF r
  <2>4. Acted(ui, ui') /\ \A D \in SUBSET Deployments : InHand(ui, D) => InHand(ui', D)
    BY <1>1, <2>1, <2>3, CancelKeeps
  <2>5. InHand(ui', OpenClaims)
    BY <1>1, <2>4
  <2> QED BY <2>1, <2>4, <2>5, AskUnchanged, UiStepKeeps DEF tableVars
<1> QED BY <1>2, <1>3, <1>4

LEMMA OfferDeploymentStep ==
    ASSUME DialogsInv, NEW d \in Deployments, OfferDeployment(d)
    PROVE  DialogsInv' /\ FailureStep
<1>1. Good(ui) /\ Settled(ui) /\ ui \in Uis /\ InHand(ui, OpenClaims) /\ number \in [Requests -> Nat]
      /\ ask \in [Requests -> AskStates] /\ ui.pending \in Seq(Deployments) /\ d \in Requests
  BY ProcedureNames, FieldTypes DEF DialogsInv, UiInv, DialogsTypeOK, Good
<1>2. /\ ask[d] \in {"ready", "yes"} /\ AtWorker \subseteq {d} /\ ask' = [ask EXCEPT ![d] = "open"]
      /\ UNCHANGED <<tableVars, number>>
      /\ ui' = OfferApproval(IF ask[d] = "yes" THEN ApprovalsClosed(ui) ELSE ui, d)
  BY DEF OfferDeployment, UiStep
<1>3. OpenClaims = {}
  BY <1>2 DEF OpenClaims, AtWorker
<1>4. ui.pending = <<>> /\ ui.mode \notin Deployments
  <2>1. Len(ui.pending) = 0
    <3>1. \A i \in 1..Len(ui.pending) : FALSE
      BY <1>1, <1>3 DEF InHand
    <3>2. Len(ui.pending) \in Nat
      BY <1>1
    <3> QED BY <3>1, <3>2
  <2> QED BY <1>1, <1>3, <2>1 DEF InHand
<1>5. ui' = OfferApproval(ui, d)
  <2>1. ApprovalsClosed(ui) = ui
    BY <1>1, <1>4 DEF ApprovalsClosed, Uis
  <2> QED BY <1>2, <2>1
<1>6. Acted(ui, ui') /\ InHand(ui', {d})
  BY <1>1, <1>4, <1>5, OfferKeeps
<1>7. {e \in Deployments : ask'[e] \in {"open", "no"}} = {d}
  BY <1>1, <1>2, <1>3, ProcedureNames DEF OpenClaims
<1>8. ask' \in [Requests -> AskStates] /\ \A q \in Prompts : ask'[q] = ask[q]
  BY <1>1, <1>2 DEF AskStates, Prompts
<1> QED BY <1>2, <1>6, <1>7, <1>8, UiStepKeeps DEF tableVars

LEMMA AnswerDeploymentStep ==
    ASSUME DialogsInv, NEW d \in Deployments, NEW yes \in BOOLEAN, AnswerDeployment(d, yes)
    PROVE  DialogsInv' /\ FailureStep
<1> DEFINE w == [DeploymentAnswered(ui, d) EXCEPT !.mode = IF yes THEN "browse" ELSE @]
           a == IF yes THEN "yes" ELSE "no"
           D == IF yes THEN {} ELSE {d}
           E == {e \in Deployments : ask'[e] \in {"open", "no"}}
<1>1. Good(ui) /\ ui \in Uis /\ InHand(ui, OpenClaims) /\ number \in [Requests -> Nat]
      /\ ask \in [Requests -> AskStates] /\ d \in Requests
  BY ProcedureNames DEF DialogsInv, UiInv, DialogsTypeOK, Good
<1>2. /\ ui.mode = d /\ UNCHANGED <<tableVars, number>> /\ ui' = ShowPending(w) /\ a \in {"yes", "no"}
      /\ (ask[d] = "open" /\ ask' = [ask EXCEPT ![d] = a]) \/ ask' = ask
  BY DEF AnswerDeployment, UiStep
<1>3. ui.pending = <<>> /\ ask[d] \in {"open", "no"}
  BY <1>1, <1>2 DEF InHand, OpenClaims
<1>4. Drawn(ui, w) /\ InHand(w, D) /\ D \in SUBSET Deployments
  BY <1>1, <1>2, <1>3, AnsweredKeeps
<1>4a. D \subseteq E
  BY <1>1, <1>2, <1>3
<1> HIDE DEF w, a, D
<1>5. Acted(ui, ui') /\ InHand(ui', D)
  BY <1>2, <1>4, DrawnStep
<1>6. InHand(ui', E)
  <2> HIDE DEF E
  <2> QED BY <1>4a, <1>5, InHandMore
<1>7. ask' \in [Requests -> AskStates] /\ \A q \in Prompts : ask'[q] = ask[q]
  BY <1>1, <1>2 DEF AskStates, Prompts
<1> QED BY <1>2, <1>5, <1>6, <1>7, UiStepKeeps DEF tableVars

LEMMA DeploymentDoneStep ==
    ASSUME DialogsInv, NEW d \in Deployments, NEW ok \in BOOLEAN, DeploymentDone(d, ok)
    PROVE  DialogsInv' /\ FailureStep
<1> DEFINE c == Closed(ui, FALSE)
           w == StepFinished(c, d, ok)
<1>1. Good(ui) /\ InHand(ui, OpenClaims) /\ OpenClaims \in SUBSET Deployments
      /\ ask \in [Requests -> AskStates] /\ d \in Requests
  BY ProcedureNames DEF DialogsInv, UiInv, DialogsTypeOK, OpenClaims
<1>2. /\ ask[d] = "ending" /\ ask' = [ask EXCEPT ![d] = "over"] /\ UNCHANGED <<tableVars, number>>
      /\ ui' = ShowPending(w)
  BY DEF DeploymentDone, UiStep, Closed
<1>3. c = Closed(ui, FALSE)
  OBVIOUS
<1> HIDE DEF c
<1>4. Drawn(ui, w) /\ InHand(w, OpenClaims)
  BY <1>1, <1>3, DoneKeeps
<1> HIDE DEF w
<1>5. Acted(ui, ui') /\ InHand(ui', OpenClaims)
  BY <1>1, <1>2, <1>4, DrawnStep
<1>6. {e \in Deployments : ask'[e] \in {"open", "no"}} = OpenClaims
  BY <1>1, <1>2, ProcedureNames DEF OpenClaims
<1>7. ask' \in [Requests -> AskStates] /\ \A q \in Prompts : ask'[q] = ask[q]
  BY <1>1, <1>2 DEF AskStates, Prompts
<1> QED BY <1>2, <1>5, <1>6, <1>7, UiStepKeeps DEF tableVars

LEMMA DeploymentLostStep ==
    ASSUME DialogsInv, NEW d \in Deployments, DeploymentLost(d)
    PROVE  DialogsInv' /\ FailureStep
<1> DEFINE c == Closed(ui, TRUE)
           w == StepFinished(c, d, FALSE)
           D == {e \in Deployments : ask'[e] \in {"open", "no"}}
<1>1. Good(ui) /\ ask \in [Requests -> AskStates] /\ d \in Requests
  BY ProcedureNames DEF DialogsInv, UiInv, DialogsTypeOK
<1>2. /\ ui' = ShowPending(w) /\ UNCHANGED <<table, phase, unsent, link, held, stream, number>>
      /\ \E a \in {"over", "ready"} : ask' = [ask EXCEPT ![d] = a]
  BY DEF DeploymentLost, Closed
<1>3. c = Closed(ui, TRUE)
  OBVIOUS
<1> HIDE DEF c
<1>4. Drawn(ui, w) /\ InHand(w, {})
  BY <1>1, <1>3, DoneKeeps
<1> HIDE DEF w
<1>5. Acted(ui, ui') /\ InHand(ui', {})
  BY <1>2, <1>4, DrawnStep
<1>6. InHand(ui', D)
  BY <1>5, InHandMore
<1>7. ask' \in [Requests -> AskStates] /\ \A q \in Prompts : ask'[q] = ask[q]
  BY <1>1, <1>2 DEF AskStates, Prompts
<1> QED BY <1>2, <1>5, <1>6, <1>7, UiStepKeeps

LEMMA FinishApprovalStep ==
    ASSUME DialogsInv, NEW d \in Deployments, FinishApproval(d)
    PROVE  DialogsInv' /\ FailureStep
<1> DEFINE w == Tidy([ui EXCEPT !.completed = @ \union {d}, !.pending = Without(@, d),
                                !.mode = IF @ = d THEN "browse" ELSE @])
           D == {e \in Deployments : ask'[e] \in {"open", "no"}}
           E == OpenClaims \ {d}
<1>1. Good(ui) /\ InHand(ui, OpenClaims) /\ OpenClaims \in SUBSET Deployments
      /\ ask \in [Requests -> AskStates] /\ d \in Requests
  BY ProcedureNames DEF DialogsInv, UiInv, DialogsTypeOK, OpenClaims
<1>2. /\ ask' = [ask EXCEPT ![d] = "ending"] /\ UNCHANGED <<tableVars, number>>
      /\ ui' = ShowPending(w)
  BY DEF FinishApproval, UiStep
<1>3. Drawn(ui, w) /\ InHand(w, E) /\ E \in SUBSET Deployments
  BY <1>1, FinishKeeps
<1>4. D = E
  BY <1>1, <1>2, ProcedureNames DEF OpenClaims
<1> HIDE DEF w, E
<1>5. Acted(ui, ui') /\ InHand(ui', E)
  BY <1>2, <1>3, DrawnStep
<1>6. InHand(ui', D)
  BY <1>4, <1>5
<1>7. ask' \in [Requests -> AskStates] /\ \A q \in Prompts : ask'[q] = ask[q]
  BY <1>1, <1>2 DEF AskStates, Prompts
<1> QED BY <1>2, <1>5, <1>6, <1>7, UiStepKeeps DEF tableVars

-----------------------------------------------------------------------------
\* One iteration of drive().
LEMMA TickStep ==
    ASSUME DialogsInv, Tick
    PROVE  DialogsInv' /\ FailureStep
<1> DEFINE ms == stream
           v == ui'
<1>1. /\ Good(ui) /\ ui \in Uis /\ Settled(ui) /\ InHand(ui, OpenClaims) /\ OpenClaims \in SUBSET Deployments
      /\ ms \in Seq(Messages) /\ EndsOver(ms, phase) /\ phase \in [Procs -> Phases]
  BY DEF DialogsInv, UiInv, DialogsTypeOK, Good, OpenClaims, KnowledgeInv
<1>2. ui' = Ticked(ui, ms) /\ stream' = <<>> /\ UNCHANGED <<table, phase, unsent, link, held, ask, number>>
  BY DEF Tick, Ticked
<1>3. Readable(ms)
  BY <1>1 DEF Readable, EndsOver, Running
<1>4. Read(ui, v, ms)
  BY <1>1, <1>2, <1>3, TickReads
<1>5. Good(v) /\ v \in Uis /\ Settled(v) /\ Calm(ui, v) /\ InHand(v, OpenClaims)
  BY <1>1, <1>4 DEF Read, Good
<1>6. DialogsTypeOK'
  BY <1>2, NoMessages DEF DialogsInv, DialogsTypeOK
<1>7. TableInv'
  BY <1>2 DEF DialogsInv, TableInv, Live
<1>8. UiInv'
  BY <1>2, <1>5 DEF UiInv, OpenClaims
<1>9. KnowledgeInv'
  <2>1. ui.misled \subseteq v.misled /\ \A p \in Running : p \notin v.misled => RecordCalm(ui.proc[p], v.proc[p])
    BY <1>5 DEF Calm
  <2>2. \A p \in Running : ui.proc[p].step \in Nat /\ v.proc[p].step \in Nat
    BY <1>1, <1>5, RunningIsProc, FieldTypes, RecordTypes
  <2>3. Running' = Running /\ Live' = Live
    BY <1>2 DEF Running, Live
  <2>4. \A p \in Running \ v.misled : ~v.proc[p].ended
    BY <2>1 DEF DialogsInv, KnowledgeInv, RecordCalm
  <2>5. ASSUME link = "on", NEW p \in Live, p \notin v.misled
        PROVE  Knows(v, p, table[p].n) \/ phase[p] = "begun" \/ ToTell(unsent, p, table[p].n)
    <3>1. p \in Running /\ p \in Procs /\ table[p].n \in Nat
      BY DEF DialogsInv, TableInv, Running, Live
    <3>2. RecordCalm(ui.proc[p], v.proc[p]) /\ ~ui.proc[p].ended /\ p \notin ui.misled
      BY <2>1, <2>5, <3>1 DEF DialogsInv, KnowledgeInv
    <3>3. CASE Knows(ui, p, table[p].n)
      BY <2>2, <3>1, <3>2, <3>3 DEF Knows, RecordCalm
    <3>4. CASE Tells(ms, p, table[p].n)
      <4>1. PICK j \in 1..Len(ms) : ms[j].type = "step" /\ ms[j].proc = p /\ ms[j].n >= table[p].n
        BY <3>4 DEF Tells
      <4>2. Knows(v, p, ms[j].n)
        BY <1>4, <2>5, <3>1, <3>2, <4>1 DEF Read
      <4>3. ms[j].n \in Nat
        <5>1. ms[j] \in Messages
          BY <1>1, <4>1
        <5> QED BY <4>1, <5>1, MessageTypes DEF StepMessages
      <4> QED BY <2>2, <3>1, <4>1, <4>2, <4>3 DEF Knows
    <3> QED BY <2>5, <3>2, <3>3, <3>4 DEF DialogsInv, KnowledgeInv
  <2>6. EndsOver(held, phase)
    BY DEF DialogsInv, KnowledgeInv
  <2> QED BY <1>2, <2>3, <2>4, <2>5, <2>6, NoMessages DEF KnowledgeInv
<1>10. AskingInv'
  <2>1. ui.lost => NoPrompts(ui)
    BY DEF DialogsInv, AskingInv
  <2>2. link = "on" => ~v.lost
    BY <1>4 DEF DialogsInv, AskingInv, Read
  <2>3. ASSUME NEW id \in Dialogs, NEW q \in Prompts, HasPrompt(v, id, q)
        PROVE  link = "on" /\ ~v.lost /\ ask[q] \in {"open", "yes", "no", "over"}
    <3>1. \/ q \in AskedIn(ms)
          \/ HasPrompt(ui, id, q) /\ ~v.lost /\ ~LostIn(ms)
      BY <1>4, <2>1, <2>3 DEF Read, AskedIn, LostIn
    <3>2. CASE q \in AskedIn(ms)
      <4>1. link = "on" /\ ask[q] = "open"
        BY <3>2 DEF DialogsInv, AskingInv
      <4> QED BY <2>2, <4>1
    <3>3. CASE HasPrompt(ui, id, q) /\ ~v.lost /\ ~LostIn(ms)
      BY <3>3 DEF DialogsInv, AskingInv
    <3> QED BY <3>1, <3>2, <3>3
  <2>4. v.lost => NoPrompts(v)
    <3> SUFFICES ASSUME v.lost, NEW id \in Dialogs PROVE v.proc[id].prompts = <<>>
      BY DEF NoPrompts
    <3> DEFINE s == v.proc[id].prompts
    <3>1. s \in Seq(Prompts)
      BY <1>5, FieldTypes, RecordTypes
    <3>2. \A i \in 1..Len(s) : FALSE
      BY <2>3, <3>1 DEF HasPrompt
    <3> HIDE DEF s
    <3> QED BY <3>1, <3>2 DEF s
  <2>5. FinishedIn(held) = {} /\ ~LostIn(held) /\ (link # "pushed" => held = <<>>)
        /\ \A q \in AskedIn(held) : ask[q] = "open"
    BY DEF DialogsInv, AskingInv
  <2> QED BY <1>2, <2>2, <2>3, <2>4, <2>5, NoMessages DEF AskingInv
<1>11. FailureStep
  <2>1. \A j \in 1..Len(ms) : StillAsked(ms, j) => ms[j].req \notin FinishedIn(ms)
    <3> SUFFICES ASSUME NEW j \in 1..Len(ms), StillAsked(ms, j), ms[j].req \in FinishedIn(ms) PROVE FALSE
      OBVIOUS
    <3>1. ms[j].req \in AskedIn(ms)
      BY DEF AskedIn, FinishedIn
    <3> QED BY <3>1 DEF DialogsInv, AskingInv
  <2>2. \A p \in Procs : ui.proc[p].between = "bad" => v.proc[p].between = "bad" \/ v.proc[p].prompts # <<>>
    BY <1>4, <2>1 DEF Read
  <2> QED BY <2>2 DEF FailureStep
<1> QED BY <1>6, <1>7, <1>8, <1>9, <1>10, <1>11 DEF DialogsInv

-----------------------------------------------------------------------------
(* The steps of the backend.                                               *)

\* A message that is delivered is added where the session reads it.
Delivered(m) ==
    /\ link = "on" => Lengthened(stream, stream', m) /\ held' = held
    /\ link = "pushed" => Lengthened(held, held', m) /\ stream' = stream
    /\ link = "off" => stream' = stream /\ held' = held
    /\ stream' \in Seq(Messages) /\ held' \in Seq(Messages)

LEMMA DeliverIs ==
    ASSUME DialogsTypeOK, NEW m \in Messages, Deliver(m)
    PROVE  Delivered(m)
<1>1. stream \in Seq(Messages) /\ held \in Seq(Messages) /\ link \in {"off", "pushed", "on"}
  BY DEF DialogsTypeOK
<1>2. CASE link = "on"
  <2>1. stream' = Append(stream, m) /\ held' = held
    BY <1>2 DEF Deliver
  <2>2. Lengthened(stream, stream', m)
    BY <1>1, <2>1, MessageAdded
  <2> QED BY <1>1, <1>2, <2>1, <2>2 DEF Delivered, Lengthened
<1>3. CASE link = "pushed"
  <2>1. held' = Append(held, m) /\ stream' = stream
    BY <1>3 DEF Deliver
  <2>2. Lengthened(held, held', m)
    BY <1>1, <2>1, MessageAdded
  <2> QED BY <1>1, <1>3, <2>1, <2>2 DEF Delivered, Lengthened
<1>4. CASE link = "off"
  BY <1>1, <1>4 DEF Deliver, Delivered
<1> QED BY <1>1, <1>2, <1>3, <1>4

\* The TUI is not touched, and no claim leaves the worker.
LEMMA UiUntouched ==
    ASSUME DialogsInv, ui' = ui, \A d \in Deployments : ask[d] \in {"open", "no"} => ask'[d] = ask[d]
    PROVE  UiInv' /\ FailureStep
<1>1. Good(ui) /\ Settled(ui) /\ InHand(ui, OpenClaims)
  BY DEF DialogsInv, UiInv
<1>2. OpenClaims \subseteq OpenClaims'
  BY DEF OpenClaims
<1> DEFINE D == OpenClaims
           E == OpenClaims'
<1>3. InHand(ui, E)
  <2>1. InHand(ui, D) /\ D \subseteq E
    BY <1>1, <1>2
  <2> HIDE DEF D, E
  <2> QED BY <2>1, InHandMore
<1>4. Good(ui') /\ Settled(ui') /\ InHand(ui', OpenClaims')
  BY <1>1, <1>3
<1> QED BY <1>4 DEF UiInv, FailureStep

LEMMA EndsStayOver ==
    ASSUME NEW ms \in Seq(Messages), NEW f, NEW g, EndsOver(ms, f), \A p \in Procs : f[p] = "over" => g[p] = "over"
    PROVE  EndsOver(ms, g)
<1> SUFFICES ASSUME NEW i \in 1..Len(ms), ms[i].type = "ended" PROVE g[ms[i].proc] = "over"
  BY DEF EndsOver
<1>1. ms[i] \in Messages
  OBVIOUS
<1> QED BY <1>1, MessageTypes DEF EndsOver

\* What a delivered message changes of who is asked.
AskMoves(m) ==
    /\ m.type \in {"step", "ended", "prompt", "withdrawn"}
    /\ m.type = "prompt" => ask[m.req] = "ready" /\ ask'[m.req] = "open"
    /\ \A q \in Prompts :
          \/ ask'[q] = ask[q] \/ ask[q] \in {"new", "numbered"}
          \/ m.type = "prompt" /\ q = m.req
          \/ m.type = "withdrawn" /\ q = m.req /\ ask[q] = "open" /\ ask'[q] = "over"

LEMMA AskingDelivered ==
    ASSUME AskingInv, DialogsTypeOK, NEW m \in Messages, Delivered(m), AskMoves(m), ui' = ui, link' = link
    PROVE  AskingInv'
<1>0. link \in {"off", "pushed", "on"} /\ m.type \notin {"lost", "finished"} /\ (m.type = "prompt" => m.req \in Prompts)
  BY MessageTypes DEF DialogsTypeOK, AskMoves
<1>1. /\ FinishedIn(stream') \subseteq FinishedIn(stream) /\ FinishedIn(held') \subseteq FinishedIn(held)
      /\ LostIn(stream') => LostIn(stream)
      /\ LostIn(stream) => LostIn(stream')
      /\ LostIn(held') => LostIn(held)
  BY <1>0 DEF Delivered, Lengthened, Joined
<1>2. /\ AskedIn(stream') \subseteq AskedIn(stream) \union (IF m.type = "prompt" /\ link = "on" THEN {m.req} ELSE {})
      /\ AskedIn(held') \subseteq AskedIn(held) \union (IF m.type = "prompt" THEN {m.req} ELSE {})
  BY <1>0 DEF Delivered, Lengthened, Joined
<1>3. \A q \in FinishedIn(stream') : ask'[q] = "over"
  <2> SUFFICES ASSUME NEW q \in FinishedIn(stream) PROVE ask'[q] = "over"
    BY <1>1
  <2>1. q \in Prompts /\ ask[q] = "over"
    BY DEF AskingInv, FinishedIn
  <2> QED BY <2>1 DEF AskMoves
<1>4. FinishedIn(held') = {} /\ ~LostIn(held') /\ (link' # "pushed" => held' = <<>>)
  BY <1>0, <1>1 DEF AskingInv, Delivered
<1>5. link' # "on" => AskedIn(stream') = {}
  BY <1>0 DEF AskingInv, Delivered
<1>6. \A q \in AskedIn(stream') \union AskedIn(held') : ask'[q] = "open"
  <2> SUFFICES ASSUME NEW q \in AskedIn(stream') \union AskedIn(held') PROVE ask'[q] = "open"
    OBVIOUS
  <2>1. CASE m.type = "prompt" /\ q = m.req
    BY <2>1 DEF AskMoves
  <2>2. CASE ~(m.type = "prompt" /\ q = m.req)
    <3>1. q \in AskedIn(stream) \union AskedIn(held)
      BY <1>2, <2>2
    <3>2. q \in Prompts /\ ask[q] = "open"
      BY <3>1 DEF AskingInv, AskedIn
    <3>3. ASSUME m.type = "withdrawn", q = m.req PROVE FALSE
      <4>1. CASE link = "on"
        <5>1. q \notin AskedIn(stream') /\ held' = <<>>
          BY <3>3, <4>1 DEF Delivered, Lengthened, AskingInv
        <5> QED BY <5>1, NoMessages
      <4>2. CASE link = "pushed"
        BY <3>3, <4>2 DEF Delivered, Lengthened, AskingInv
      <4>3. CASE link = "off"
        <5>1. AskedIn(stream) = {} /\ held = <<>>
          BY <4>3 DEF AskingInv
        <5> QED BY <3>1, <5>1, NoMessages
      <4> QED BY <1>0, <4>1, <4>2, <4>3
    <3> QED BY <2>2, <3>2, <3>3 DEF AskMoves
  <2> QED BY <2>1, <2>2
<1>7. (ui'.lost => NoPrompts(ui')) /\ (link' = "on" => Regained(stream', Len(stream'), ui'.lost))
  <2>1. ASSUME link = "on" PROVE Regained(stream', Len(stream'), ui.lost)
    <3>1. Regained(stream, Len(stream), ui.lost)
      BY <2>1 DEF AskingInv
    <3>2. Joined(stream, <<m>>, stream') /\ ~LostIn(<<m>>)
      BY <1>0, <2>1 DEF Delivered, Lengthened
    <3> QED BY <3>1, <3>2 DEF Joined
  <2> QED BY <2>1 DEF AskingInv
<1>8. ~LostIn(stream') => \A id \in Dialogs, q \in Prompts : HasPrompt(ui', id, q) =>
          link' = "on" /\ ask'[q] \in {"open", "yes", "no", "over"} /\ q \notin AskedIn(stream')
  <2> SUFFICES ASSUME ~LostIn(stream), NEW id \in Dialogs, NEW q \in Prompts, HasPrompt(ui, id, q)
               PROVE  link = "on" /\ ask'[q] \in {"open", "yes", "no", "over"} /\ q \notin AskedIn(stream')
    BY <1>1
  <2>1. link = "on" /\ ask[q] \in {"open", "yes", "no", "over"} /\ q \notin AskedIn(stream)
    BY DEF AskingInv
  <2>2. ~(m.type = "prompt" /\ q = m.req)
    BY <2>1 DEF AskMoves
  <2>3. q \notin AskedIn(stream')
    BY <1>2, <2>1, <2>2
  <2>4. ask'[q] \in {"open", "yes", "no", "over"}
    BY <2>1, <2>2 DEF AskMoves
  <2> QED BY <2>1, <2>3, <2>4
<1> QED BY <1>3, <1>4, <1>5, <1>6, <1>7, <1>8 DEF AskingInv

\* What was known of what runs stays known, or is told.
LEMMA KnowledgeTold ==
    ASSUME KnowledgeInv, ui' = ui, link' = link, EndsOver(stream', phase'), EndsOver(held', phase'), Running' \subseteq Running,
           link = "on" => \A p \in Live' :
              \/ phase'[p] = "begun" \/ Tells(stream', p, table'[p].n) \/ ToTell(unsent', p, table'[p].n)
              \/ /\ p \in Live /\ phase[p] # "begun" /\ table'[p].n = table[p].n
                 /\ Tells(stream, p, table[p].n) => Tells(stream', p, table[p].n)
                 /\ ToTell(unsent, p, table[p].n) => ToTell(unsent', p, table[p].n) \/ Tells(stream', p, table[p].n)
    PROVE  KnowledgeInv'
<1>1. \A p \in Running' \ ui'.misled : ~ui'.proc[p].ended
  BY DEF KnowledgeInv
<1>2. ASSUME link' = "on", NEW p \in Live', p \notin ui.misled
      PROVE  \/ Knows(ui, p, table'[p].n) \/ phase'[p] = "begun"
             \/ Tells(stream', p, table'[p].n) \/ ToTell(unsent', p, table'[p].n)
  <2>1. CASE \/ phase'[p] = "begun" \/ Tells(stream', p, table'[p].n) \/ ToTell(unsent', p, table'[p].n)
    BY <2>1
  <2>2. CASE /\ p \in Live /\ phase[p] # "begun" /\ table'[p].n = table[p].n
             /\ Tells(stream, p, table[p].n) => Tells(stream', p, table[p].n)
             /\ ToTell(unsent, p, table[p].n) => ToTell(unsent', p, table[p].n) \/ Tells(stream', p, table[p].n)
    <3>1. \/ Knows(ui, p, table[p].n)
          \/ Tells(stream, p, table[p].n) \/ ToTell(unsent, p, table[p].n)
      BY <1>2, <2>2 DEF KnowledgeInv
    <3> QED BY <2>2, <3>1
  <2> QED BY <1>2, <2>1, <2>2
<1> QED BY <1>1, <1>2 DEF KnowledgeInv, Knows

LEMMA NumberStepIs ==
    ASSUME NEW t \in Steps, t.n \in Nat, NEW label \in Labels, NEW repeatable \in BOOLEAN, NEW report,
           NEW s, s = NumberStep(t, label, repeatable, report)
    PROVE  s \in Steps /\ s.n \in Nat
<1> DEFINE repeat == repeatable /\ t.repeatable /\ t.n > 0 /\ t.label = label
           base == IF repeat THEN t ELSE [t EXCEPT !.n = @ + 1, !.failure = FALSE, !.warning = FALSE]
           a == report = "failure" \/ (base.failure /\ report = "warning")
           b == report = "warning" \/ (base.warning /\ report = "failure")
<1>1. base \in Steps /\ base.n \in Nat
  <2> DEFINE m == t.n + 1
             next == [t EXCEPT !.n = m, !.failure = FALSE, !.warning = FALSE]
  <2>1. m \in Nat /\ m \in Int
    OBVIOUS
  <2>2. base = IF repeat THEN t ELSE next
    OBVIOUS
  <2> HIDE DEF m, base, repeat
  <2>3. next \in Steps /\ next.n = m
    BY <2>1 DEF Steps
  <2> QED BY <2>1, <2>2, <2>3
<1>2. s = [base EXCEPT !.label = label, !.repeatable = repeatable, !.failure = a, !.warning = b]
  BY DEF NumberStep
<1>3. a \in BOOLEAN /\ b \in BOOLEAN
  OBVIOUS
<1> HIDE DEF base, a, b
<1> QED BY <1>1, <1>2, <1>3 DEF Steps

LEMMA StartingIs == Starting \in Steps /\ Starting.n = 0 /\ Starting # Ended /\ Ended \in Steps
<1>1. Starting \in Steps /\ Starting.n = 0
  BY DEF Starting, Steps
<1>2. Ended = [Starting EXCEPT !.n = -1]
  BY DEF Ended
<1>3. -1 \in Int /\ -1 # 0
  OBVIOUS
<1>4. Ended \in Steps /\ Ended.n = -1
  BY <1>1, <1>2, <1>3 DEF Steps
<1> QED BY <1>1, <1>3, <1>4

LEMMA EndsStay ==
    ASSUME DialogsInv, UNCHANGED <<stream, held>>, \A p \in Procs : phase[p] = "over" => phase'[p] = "over"
    PROVE  EndsOver(stream', phase') /\ EndsOver(held', phase')
<1> DEFINE g == phase'
<1>1. stream \in Seq(Messages) /\ held \in Seq(Messages) /\ EndsOver(stream, phase) /\ EndsOver(held, phase)
  BY DEF DialogsInv, DialogsTypeOK, KnowledgeInv
<1>2. \A p \in Procs : phase[p] = "over" => g[p] = "over"
  OBVIOUS
<1>3. EndsOver(stream, g) /\ EndsOver(held, g)
  <2> HIDE DEF g
  <2> QED BY <1>1, <1>2, EndsStayOver
<1> QED BY <1>3

LEMMA BeginProcedureStep ==
    ASSUME DialogsInv, NEW p \in Procs, BeginProcedure(p), UNCHANGED <<ask, number, ui>>
    PROVE  DialogsInv' /\ FailureStep
<1>1. /\ table \in [Procs -> Steps] /\ phase \in [Procs -> Phases] /\ phase[p] = "new"
      /\ table' = [table EXCEPT ![p] = Starting] /\ phase' = [phase EXCEPT ![p] = "begun"]
      /\ UNCHANGED <<unsent, link, held, stream>>
  BY DEF DialogsInv, DialogsTypeOK, BeginProcedure
<1>2. /\ table'[p] = Starting /\ phase'[p] = "begun"
      /\ \A x \in Procs : x # p => table'[x] = table[x] /\ phase'[x] = phase[x]
  BY <1>1
<1>3. DialogsTypeOK'
  <2>1. table' \in [Procs -> Steps] /\ phase' \in [Procs -> Phases]
    BY <1>1, StartingIs DEF Phases
  <2> QED BY <1>1, <2>1 DEF DialogsInv, DialogsTypeOK
<1>4. TableInv'
  BY <1>2, StartingIs DEF DialogsInv, TableInv, Live
<1>5. KnowledgeInv'
  <2>1. EndsOver(stream', phase') /\ EndsOver(held', phase')
    BY <1>1, <1>2, EndsStay
  <2>2. Running' \subseteq Running
    BY <1>1, <1>2 DEF Running
  <2>3. ASSUME NEW x \in Live'
        PROVE  phase'[x] = "begun" \/ (x \in Live /\ phase[x] # "begun" /\ table'[x].n = table[x].n)
    BY <1>2 DEF Live
  <2> QED BY <1>1, <2>1, <2>2, <2>3, KnowledgeTold DEF DialogsInv
<1>6. AskingInv'
  BY <1>1 DEF DialogsInv, AskingInv
<1>7. UiInv' /\ FailureStep
  BY UiUntouched
<1> QED BY <1>3, <1>4, <1>5, <1>6, <1>7 DEF DialogsInv

LEMMA RefuseProcedureStep ==
    ASSUME DialogsInv, NEW p \in Procs, RefuseProcedure(p), UNCHANGED <<ask, number, ui>>
    PROVE  DialogsInv' /\ FailureStep
<1>1. /\ phase \in [Procs -> Phases] /\ phase[p] = "new" /\ phase' = [phase EXCEPT ![p] = "over"]
      /\ UNCHANGED <<table, unsent, link, held, stream>>
  BY DEF DialogsInv, DialogsTypeOK, RefuseProcedure
<1>2. phase'[p] = "over" /\ \A x \in Procs : x # p => phase'[x] = phase[x]
  BY <1>1
<1>3. DialogsTypeOK'
  <2>1. phase' \in [Procs -> Phases]
    BY <1>1 DEF Phases
  <2> QED BY <1>1, <2>1 DEF DialogsInv, DialogsTypeOK
<1>4. p \notin Live /\ Live' = Live
  BY <1>1 DEF DialogsInv, TableInv, Live
<1>5. TableInv'
  BY <1>1, <1>2, <1>4 DEF DialogsInv, TableInv, Live
<1>6. KnowledgeInv'
  <2>1. EndsOver(stream', phase') /\ EndsOver(held', phase')
    BY <1>1, <1>2, EndsStay
  <2>2. Running' \subseteq Running
    BY <1>1, <1>2 DEF Running
  <2>3. ASSUME NEW x \in Live'
        PROVE  phase'[x] = "begun" \/ (x \in Live /\ phase[x] # "begun" /\ table'[x].n = table[x].n)
    BY <1>1, <1>2, <1>4 DEF Live
  <2> QED BY <1>1, <2>1, <2>2, <2>3, KnowledgeTold DEF DialogsInv
<1>7. AskingInv'
  BY <1>1 DEF DialogsInv, AskingInv
<1>8. UiInv' /\ FailureStep
  BY UiUntouched
<1> QED BY <1>3, <1>5, <1>6, <1>7, <1>8 DEF DialogsInv

LEMMA EndProcedureStep ==
    ASSUME DialogsInv, NEW p \in Procs, NEW exit \in Exits, EndProcedure(p, exit), UNCHANGED <<ask, number, ui>>
    PROVE  DialogsInv' /\ FailureStep
<1>1. /\ table \in [Procs -> Steps] /\ phase \in [Procs -> Phases] /\ phase[p] = "serving"
      /\ table' = [table EXCEPT ![p] = Ended] /\ phase' = [phase EXCEPT ![p] = exit]
      /\ UNCHANGED <<unsent, link, held, stream>>
  BY DEF DialogsInv, DialogsTypeOK, EndProcedure
<1>2. /\ table'[p] = Ended /\ phase'[p] = exit /\ exit \notin {"new", "begun", "serving"}
      /\ \A x \in Procs : x # p => table'[x] = table[x] /\ phase'[x] = phase[x]
  BY <1>1 DEF Exits
<1>3. DialogsTypeOK'
  <2>1. table' \in [Procs -> Steps] /\ phase' \in [Procs -> Phases]
    BY <1>1, StartingIs DEF Phases
  <2> QED BY <1>1, <2>1 DEF DialogsInv, DialogsTypeOK
<1>4. TableInv'
  BY <1>2 DEF DialogsInv, TableInv, Live
<1>5. KnowledgeInv'
  <2>1. EndsOver(stream', phase') /\ EndsOver(held', phase')
    BY <1>1, <1>2, EndsStay
  <2>2. Running' \subseteq Running
    BY <1>1, <1>2 DEF Running
  <2>3. ASSUME NEW x \in Live'
        PROVE  phase'[x] = "begun" \/ (x \in Live /\ phase[x] # "begun" /\ table'[x].n = table[x].n)
    BY <1>2 DEF Live
  <2> QED BY <1>1, <2>1, <2>2, <2>3, KnowledgeTold DEF DialogsInv
<1>6. AskingInv'
  BY <1>1 DEF DialogsInv, AskingInv
<1>7. UiInv' /\ FailureStep
  BY UiUntouched
<1> QED BY <1>3, <1>4, <1>5, <1>6, <1>7 DEF DialogsInv

LEMMA DeliveredTells ==
    ASSUME DialogsInv, NEW m \in Messages, Delivered(m), \A p \in Procs : phase[p] = "over" => phase'[p] = "over",
           m.type = "ended" => phase'[m.proc] = "over"
    PROVE  /\ EndsOver(stream', phase') /\ EndsOver(held', phase')
           /\ \A p, n : Tells(stream, p, n) => Tells(stream', p, n)
           /\ link = "on" /\ m.type = "step" => Tells(stream', m.proc, m.n)
<1> DEFINE g == phase'
           ss == stream'
           hh == held'
<1>1. /\ stream \in Seq(Messages) /\ held \in Seq(Messages) /\ EndsOver(stream, phase) /\ EndsOver(held, phase)
      /\ link \in {"off", "pushed", "on"}
  BY DEF DialogsInv, DialogsTypeOK, KnowledgeInv
<1>2. /\ \A p \in Procs : phase[p] = "over" => g[p] = "over"
      /\ m.type = "ended" => g[m.proc] = "over"
      /\ link = "on" => Lengthened(stream, ss, m) /\ hh = held
      /\ link = "pushed" => Lengthened(held, hh, m) /\ ss = stream
      /\ link = "off" => ss = stream /\ hh = held
  BY DEF Delivered
<1> HIDE DEF g, ss, hh
<1>3. EndsOver(stream, g) /\ EndsOver(held, g)
  BY <1>1, <1>2, EndsStayOver
<1>4. /\ Lengthened(stream, ss, m) => EndsOver(ss, g) /\ \A p, n : Tells(stream, p, n) => Tells(ss, p, n)
      /\ Lengthened(held, hh, m) => EndsOver(hh, g)
  BY <1>2, <1>3 DEF Lengthened, Joined
<1>5. EndsOver(ss, g) /\ EndsOver(hh, g) /\ \A p, n : Tells(stream, p, n) => Tells(ss, p, n)
  BY <1>1, <1>2, <1>3, <1>4
<1>6. link = "on" /\ m.type = "step" => Tells(ss, m.proc, m.n)
  BY <1>2 DEF Lengthened
<1> QED BY <1>5, <1>6 DEF g, ss, hh

LEMMA AnnounceBeginStep ==
    ASSUME DialogsInv, NEW p \in Procs, AnnounceBegin(p), UNCHANGED <<ask, number, ui>>
    PROVE  DialogsInv' /\ FailureStep
<1> DEFINE m == StepOf(p, Starting)
<1>1. /\ phase \in [Procs -> Phases] /\ phase[p] = "begun" /\ phase' = [phase EXCEPT ![p] = "serving"]
      /\ Deliver(m) /\ UNCHANGED <<table, unsent, link>>
  BY DEF DialogsInv, DialogsTypeOK, AnnounceBegin
<1>2. phase'[p] = "serving" /\ \A x \in Procs : x # p => phase'[x] = phase[x]
  BY <1>1
<1>3. m \in Messages /\ m.type = "step" /\ m.proc = p /\ m.n = 0
  BY DEF StepOf, Starting, Messages, StepMessages
<1> HIDE DEF m
<1>4. Delivered(m)
  BY <1>1, <1>3, DeliverIs DEF DialogsInv
<1>5. DialogsTypeOK'
  <2>1. phase' \in [Procs -> Phases]
    BY <1>1 DEF Phases
  <2> QED BY <1>1, <1>4, <2>1 DEF DialogsInv, DialogsTypeOK, Delivered
<1>6. table[p] = Starting /\ Live' = Live
  BY <1>1 DEF DialogsInv, TableInv, Live
<1>7. TableInv'
  BY <1>1, <1>2, <1>6 DEF DialogsInv, TableInv, Live
<1>8. KnowledgeInv'
  <2>1. /\ EndsOver(stream', phase') /\ EndsOver(held', phase')
        /\ \A x, n : Tells(stream, x, n) => Tells(stream', x, n)
        /\ link = "on" => Tells(stream', p, 0)
    BY <1>1, <1>2, <1>3, <1>4, DeliveredTells
  <2>2. Running' \subseteq Running
    BY <1>1, <1>2 DEF Running
  <2>3. ASSUME link = "on", NEW x \in Live'
        PROVE  \/ phase'[x] = "begun" \/ Tells(stream', x, table'[x].n)
               \/ (x \in Live /\ phase[x] # "begun" /\ table'[x].n = table[x].n)
    <3>1. CASE x = p
      BY <1>1, <1>6, <2>1, <2>3, <3>1, StartingIs
    <3>2. CASE x # p
      BY <1>1, <1>2, <3>2 DEF Live
    <3> QED BY <3>1, <3>2
  <2> QED BY <1>1, <2>1, <2>2, <2>3, KnowledgeTold DEF DialogsInv
<1>9. AskingInv'
  <2>1. AskMoves(m)
    BY <1>3 DEF AskMoves
  <2> QED BY <1>1, <1>3, <1>4, <2>1, AskingDelivered DEF DialogsInv
<1>10. UiInv' /\ FailureStep
  BY UiUntouched
<1> QED BY <1>5, <1>7, <1>8, <1>9, <1>10 DEF DialogsInv

LEMMA AnnounceEndStep ==
    ASSUME DialogsInv, NEW p \in Procs, AnnounceEnd(p), UNCHANGED <<ask, number, ui>>
    PROVE  DialogsInv' /\ FailureStep
<1> DEFINE m == EndOf(p, phase[p])
<1>1. /\ phase \in [Procs -> Phases] /\ phase[p] \in Exits /\ phase' = [phase EXCEPT ![p] = "over"]
      /\ Deliver(m) /\ UNCHANGED <<table, unsent, link>>
  BY DEF DialogsInv, DialogsTypeOK, AnnounceEnd
<1>2. phase'[p] = "over" /\ \A x \in Procs : x # p => phase'[x] = phase[x]
  BY <1>1
<1>3. m \in Messages /\ m.type = "ended" /\ m.proc = p
  BY <1>1 DEF EndOf, Messages, EndMessages
<1> HIDE DEF m
<1>4. Delivered(m)
  BY <1>1, <1>3, DeliverIs DEF DialogsInv
<1>5. DialogsTypeOK'
  <2>1. phase' \in [Procs -> Phases]
    BY <1>1 DEF Phases
  <2> QED BY <1>1, <1>4, <2>1 DEF DialogsInv, DialogsTypeOK, Delivered
<1>6. p \notin Live /\ Live' = Live
  BY <1>1 DEF DialogsInv, TableInv, Live, Exits
<1>7. TableInv'
  BY <1>1, <1>2, <1>6 DEF DialogsInv, TableInv, Live
<1>8. KnowledgeInv'
  <2>1. /\ EndsOver(stream', phase') /\ EndsOver(held', phase')
        /\ \A x, n : Tells(stream, x, n) => Tells(stream', x, n)
    BY <1>1, <1>2, <1>3, <1>4, DeliveredTells
  <2>2. Running' \subseteq Running
    BY <1>1, <1>2 DEF Running
  <2>3. ASSUME NEW x \in Live'
        PROVE  phase'[x] = "begun" \/ (x \in Live /\ phase[x] # "begun" /\ table'[x].n = table[x].n)
    BY <1>1, <1>2, <1>6 DEF Live
  <2> QED BY <1>1, <2>1, <2>2, <2>3, KnowledgeTold DEF DialogsInv
<1>9. AskingInv'
  <2>1. AskMoves(m)
    BY <1>3 DEF AskMoves
  <2> QED BY <1>1, <1>3, <1>4, <2>1, AskingDelivered DEF DialogsInv
<1>10. UiInv' /\ FailureStep
  BY UiUntouched
<1> QED BY <1>5, <1>7, <1>8, <1>9, <1>10 DEF DialogsInv

\* What is announced, of those that are numbered.
LEMMA AnnounceStep ==
    ASSUME DialogsInv, NEW x \in unsent, Announce(x), UNCHANGED <<number, ui>>, ask' \in [Requests -> AskStates],
           \A q \in Requests : ask'[q] = ask[q] \/ (ask[q] = "numbered" /\ ask'[q] = "ready")
    PROVE  DialogsInv' /\ FailureStep
<1> DEFINE m == x.message
<1>1. m \in StepMessages /\ Deliver(m) /\ unsent' = unsent \ {x} /\ UNCHANGED <<table, phase, link>>
  BY DEF DialogsInv, DialogsTypeOK, Announce
<1>2. m \in Messages /\ m.type = "step" /\ m.n \in Nat
  BY <1>1 DEF Messages, StepMessages
<1> HIDE DEF m
<1>3. Delivered(m)
  BY <1>1, <1>2, DeliverIs DEF DialogsInv
<1>4. DialogsTypeOK'
  BY <1>1, <1>3 DEF DialogsInv, DialogsTypeOK, Delivered
<1>5. TableInv' /\ Live' = Live
  BY <1>1 DEF DialogsInv, TableInv, Live
<1>6. KnowledgeInv'
  <2>1. /\ EndsOver(stream', phase') /\ EndsOver(held', phase')
        /\ \A p, n : Tells(stream, p, n) => Tells(stream', p, n)
        /\ link = "on" => Tells(stream', m.proc, m.n)
    BY <1>1, <1>2, <1>3, DeliveredTells
  <2>2. Running' = Running
    BY <1>1 DEF Running
  <2>3. ASSUME link = "on", NEW p \in Live', ToTell(unsent, p, table[p].n)
        PROVE  ToTell(unsent', p, table[p].n) \/ Tells(stream', p, table[p].n)
    <3>1. PICK y \in unsent : y.message.proc = p /\ y.message.n >= table[p].n
      BY <2>3 DEF ToTell
    <3>2. CASE y = x
      <4>1. m.proc = p /\ m.n >= table[p].n /\ table[p].n \in Nat
        BY <1>5, <3>1, <3>2 DEF m, DialogsInv, TableInv, Live
      <4>2. PICK j \in 1..Len(stream') : stream'[j].type = "step" /\ stream'[j].proc = m.proc /\ stream'[j].n >= m.n
        BY <2>1, <2>3 DEF Tells
      <4>3. stream'[j].n \in Nat
        <5>1. stream' \in Seq(Messages)
          BY <1>3 DEF Delivered
        <5>2. stream'[j] \in Messages
          BY <4>2, <5>1
        <5> QED BY <4>2, <5>2, MessageTypes DEF StepMessages
      <4>4. stream'[j].n >= table[p].n
        BY <1>2, <4>1, <4>2, <4>3
      <4> QED BY <4>1, <4>2, <4>4 DEF Tells
    <3>3. CASE y # x
      BY <1>1, <3>1, <3>3 DEF ToTell
    <3> QED BY <3>2, <3>3
  <2> QED BY <1>1, <1>5, <2>1, <2>2, <2>3, KnowledgeTold DEF DialogsInv
<1>7. AskingInv'
  <2>1. AskMoves(m)
    BY <1>2 DEF AskMoves, Prompts
  <2> QED BY <1>1, <1>2, <1>3, <2>1, AskingDelivered DEF DialogsInv
<1>8. UiInv' /\ FailureStep
  <2>1. \A d \in Deployments : ask[d] \in {"open", "no"} => ask'[d] = ask[d]
    BY ProcedureNames
  <2> QED BY <2>1, UiUntouched
<1> QED BY <1>4, <1>5, <1>6, <1>7, <1>8 DEF DialogsInv

LEMMA NumberIs ==
    ASSUME DialogsInv, NEW p \in Procs, NEW label \in Labels, NEW repeatable \in BOOLEAN, NEW report,
           NEW thread \in Requests \union {"report"}, Number(p, label, repeatable, report, thread)
    PROVE  /\ table' \in [Procs -> Steps] /\ table'[p].n \in Nat /\ p \in Live /\ phase[p] = "serving"
           /\ \A x \in Procs : x # p => table'[x] = table[x]
           /\ unsent \subseteq unsent' /\ unsent' \in SUBSET [thread : Requests \union {"report"}, message : StepMessages]
           /\ ToTell(unsent', p, table'[p].n)
<1> DEFINE t == NumberStep(table[p], label, repeatable, report)
           m == StepOf(p, t)
           x == [thread |-> thread, message |-> m]
<1>1. /\ p \in Live /\ phase[p] = "serving" /\ table' = [table EXCEPT ![p] = t] /\ unsent' = unsent \union {x}
      /\ table \in [Procs -> Steps] /\ table[p].n \in Nat
      /\ unsent \in SUBSET [thread : Requests \union {"report"}, message : StepMessages]
  BY DEF DialogsInv, DialogsTypeOK, TableInv, Number
<1>2. t \in Steps /\ t.n \in Nat
  <2>1. t = NumberStep(table[p], label, repeatable, report)
    OBVIOUS
  <2> HIDE DEF t
  <2> QED BY <1>1, <2>1, NumberStepIs
<1> HIDE DEF t
<1>3. m \in StepMessages /\ m.proc = p /\ m.n = t.n
  BY <1>2 DEF StepOf, StepMessages, Steps
<1> HIDE DEF m
<1>4. x \in [thread : Requests \union {"report"}, message : StepMessages] /\ x.message = m
  BY <1>3
<1> HIDE DEF x
<1>5. table'[p] = t /\ table' \in [Procs -> Steps] /\ \A y \in Procs : y # p => table'[y] = table[y]
  BY <1>1, <1>2
<1>6. t.n >= t.n
  BY <1>2
<1>7. ToTell(unsent', p, table'[p].n)
  BY <1>1, <1>3, <1>4, <1>5, <1>6 DEF ToTell
<1> QED BY <1>1, <1>2, <1>4, <1>5, <1>7

\* A step is numbered, by a report or by a request.
LEMMA NumberedStep ==
    ASSUME DialogsInv, NEW p \in Procs, NEW label \in Labels, NEW repeatable \in BOOLEAN, NEW report,
           NEW thread \in Requests \union {"report"}, Number(p, label, repeatable, report, thread),
           UNCHANGED <<phase, link, held, stream, ui>>, number' \in [Requests -> Nat], ask' \in [Requests -> AskStates],
           \A q \in Requests : ask'[q] = ask[q] \/ ask[q] = "new"
    PROVE  DialogsInv' /\ FailureStep
<1>1. /\ table' \in [Procs -> Steps] /\ table'[p].n \in Nat /\ p \in Live /\ phase[p] = "serving"
      /\ \A x \in Procs : x # p => table'[x] = table[x]
      /\ unsent \subseteq unsent' /\ unsent' \in SUBSET [thread : Requests \union {"report"}, message : StepMessages]
      /\ ToTell(unsent', p, table'[p].n)
  BY NumberIs
<1>2. DialogsTypeOK'
  BY <1>1 DEF DialogsInv, DialogsTypeOK
<1>3. TableInv'
  BY <1>1 DEF DialogsInv, TableInv, Live
<1>4. KnowledgeInv'
  <2>1. EndsOver(stream', phase') /\ EndsOver(held', phase') /\ Running' = Running
    BY EndsStay DEF Running
  <2>2. ASSUME NEW x \in Live'
        PROVE  \/ phase'[x] = "begun" \/ ToTell(unsent', x, table'[x].n)
               \/ /\ x \in Live /\ phase[x] # "begun" /\ table'[x].n = table[x].n
                  /\ ToTell(unsent, x, table[x].n) => ToTell(unsent', x, table[x].n)
    <3>1. CASE x = p
      BY <1>1, <3>1
    <3>2. CASE x # p
      <4>1. x \in Live /\ table'[x] = table[x]
        BY <1>1, <3>2 DEF Live
      <4>2. ToTell(unsent, x, table[x].n) => ToTell(unsent', x, table[x].n)
        BY <1>1 DEF ToTell
      <4> QED BY <4>1, <4>2
    <3> QED BY <3>1, <3>2
  <2> QED BY <2>1, <2>2, KnowledgeTold DEF DialogsInv
<1>5. ui \in Uis /\ NoPromptMore(ui, ui') /\ \A q \in Prompts : ask'[q] = ask[q] \/ ask[q] = "new"
  BY DEF DialogsInv, UiInv, Good, NoPromptMore, Prompts
<1>6. AskingInv'
  BY <1>5, AskingQuiet DEF DialogsInv
<1>7. UiInv' /\ FailureStep
  <2>1. \A d \in Deployments : ask[d] \in {"open", "no"} => ask'[d] = ask[d]
    BY ProcedureNames
  <2> QED BY <2>1, UiUntouched
<1> QED BY <1>2, <1>3, <1>4, <1>6, <1>7 DEF DialogsInv

LEMMA ReportStepStep ==
    ASSUME DialogsInv, NEW p \in Procs, NEW label \in Labels, NEW kind \in {"failure", "warning"},
           ReportStep(p, label, kind), UNCHANGED <<ask, number, ui>>
    PROVE  DialogsInv' /\ FailureStep
<1> DEFINE yes == TRUE
           thread == "report"
<1>1. Number(p, label, yes, kind, thread) /\ UNCHANGED <<phase, link, held, stream>>
  BY DEF ReportStep
<1>2. yes \in BOOLEAN /\ thread \in Requests \union {"report"}
  OBVIOUS
<1>3. ask' \in [Requests -> AskStates] /\ number' \in [Requests -> Nat]
  BY DEF DialogsInv, DialogsTypeOK
<1> HIDE DEF yes, thread
<1> QED BY <1>1, <1>2, <1>3, NumberedStep

LEMMA RequestStepStep ==
    ASSUME DialogsInv, NEW r \in Requests, RequestStep(r)
    PROVE  DialogsInv' /\ FailureStep
<1> DEFINE p == Home(r)
           none == "none"
           x == table'[p].n
<1>1. /\ p \in Procs /\ ask[r] = "new" /\ ask' = [ask EXCEPT ![r] = "numbered"] /\ number' = [number EXCEPT ![r] = x]
      /\ UNCHANGED <<phase, link, held, stream, ui>> /\ ask \in [Requests -> AskStates] /\ number \in [Requests -> Nat]
  BY ProcedureNames DEF RequestStep, DialogsInv, DialogsTypeOK
<1>2. PICK label \in Labels, repeatable \in BOOLEAN : Number(p, label, repeatable, none, r)
  BY DEF RequestStep
<1>3. r \in Requests \union {"report"}
  OBVIOUS
<1> HIDE DEF p, none
<1>4. x \in Nat
  BY <1>1, <1>2, <1>3, NumberIs
<1> HIDE DEF x
<1>5. number' \in [Requests -> Nat]
  BY <1>1, <1>4
<1>6. ask' \in [Requests -> AskStates] /\ \A q \in Requests : ask'[q] = ask[q] \/ ask[q] = "new"
  BY <1>1 DEF AskStates
<1> QED BY <1>1, <1>2, <1>3, <1>5, <1>6, NumberedStep

\* Nothing but the announcements to come, a request's state or its number changes.
LEMMA AsideStep ==
    ASSUME DialogsInv, UNCHANGED <<table, phase, link, held, stream, ui>>, unsent \subseteq unsent',
           unsent' \in SUBSET [thread : Requests \union {"report"}, message : StepMessages],
           number' \in [Requests -> Nat], ask' \in [Requests -> AskStates],
           \A q \in Requests : ask'[q] = ask[q] \/ ask[q] = "new" \/ (ask[q] = "ready" /\ ask'[q] = "over")
    PROVE  DialogsInv' /\ FailureStep
<1>1. DialogsTypeOK' /\ TableInv'
  BY DEF DialogsInv, DialogsTypeOK, TableInv, Live
<1>2. KnowledgeInv'
  <2>1. EndsOver(stream', phase') /\ EndsOver(held', phase') /\ Running' = Running /\ Live' = Live
    BY EndsStay DEF Running, Live
  <2>2. ASSUME NEW x \in Live' PROVE ToTell(unsent, x, table[x].n) => ToTell(unsent', x, table[x].n)
    BY DEF ToTell
  <2> QED BY <2>1, <2>2, KnowledgeTold DEF DialogsInv
<1>3. ui \in Uis /\ NoPromptMore(ui, ui') /\ \A q \in Prompts : ask'[q] = ask[q] \/ ask[q] \in {"new", "ready"}
  BY DEF DialogsInv, UiInv, Good, NoPromptMore, Prompts
<1>4. AskingInv'
  BY <1>3, AskingQuiet DEF DialogsInv
<1>5. UiInv' /\ FailureStep
  <2>1. \A d \in Deployments : ask[d] \in {"open", "no"} => ask'[d] = ask[d]
    BY ProcedureNames
  <2> QED BY <2>1, UiUntouched
<1> QED BY <1>1, <1>2, <1>4, <1>5 DEF DialogsInv

LEMMA ReportProgressStep ==
    ASSUME DialogsInv, NEW p \in Procs, ReportProgress(p), UNCHANGED <<ask, number, ui>>
    PROVE  DialogsInv' /\ FailureStep
<1> DEFINE m == StepOf(p, table[p])
           x == [thread |-> "report", message |-> m]
<1>1. /\ p \in Live /\ unsent' = unsent \union {x} /\ UNCHANGED <<table, phase, link, held, stream>>
      /\ unsent \in SUBSET [thread : Requests \union {"report"}, message : StepMessages]
      /\ ask' \in [Requests -> AskStates] /\ number' \in [Requests -> Nat]
  BY DEF DialogsInv, DialogsTypeOK, ReportProgress
<1>2. table[p] \in Steps /\ table[p].n \in Nat
  BY <1>1 DEF DialogsInv, DialogsTypeOK, TableInv
<1>3. m \in StepMessages
  BY <1>2 DEF StepOf, StepMessages, Steps
<1> HIDE DEF m
<1>4. x \in [thread : Requests \union {"report"}, message : StepMessages]
  BY <1>3
<1> HIDE DEF x
<1> QED BY <1>1, <1>4, AsideStep

LEMMA RequestSteps ==
    ASSUME DialogsInv, NEW r \in Requests, RequestAlone(r) \/ RequestConfirmation(r)
    PROVE  DialogsInv' /\ FailureStep
<1>1. /\ ask[r] = "new" /\ ask' = [ask EXCEPT ![r] = "ready"] /\ UNCHANGED <<table, phase, unsent, link, held, stream, ui>>
      /\ unsent \in SUBSET [thread : Requests \union {"report"}, message : StepMessages]
      /\ ask \in [Requests -> AskStates] /\ number \in [Requests -> Nat]
  BY DEF DialogsInv, DialogsTypeOK, RequestAlone, RequestConfirmation, tableVars
<1>2. number' \in [Requests -> Nat]
  <2>1. CASE RequestAlone(r)
    BY <1>1, <2>1 DEF RequestAlone
  <2>2. CASE RequestConfirmation(r)
    <3> DEFINE x == table[Home(r)].n
    <3>1. x \in Nat /\ number' = [number EXCEPT ![r] = x]
      BY <2>2 DEF RequestConfirmation, DialogsInv, TableInv, Live
    <3> HIDE DEF x
    <3> QED BY <1>1, <3>1
  <2> QED BY <2>1, <2>2
<1>3. ask' \in [Requests -> AskStates] /\ \A q \in Requests : ask'[q] = ask[q] \/ ask[q] = "new"
  BY <1>1 DEF AskStates
<1>4. unsent \subseteq unsent' /\ unsent' \in SUBSET [thread : Requests \union {"report"}, message : StepMessages]
  BY <1>1
<1> QED BY <1>1, <1>2, <1>3, <1>4, AsideStep

LEMMA AnnounceRequestStep ==
    ASSUME DialogsInv, NEW r \in Requests, AnnounceRequest(r)
    PROVE  DialogsInv' /\ FailureStep
<1>1. /\ ask[r] = "numbered" /\ ask' = [ask EXCEPT ![r] = "ready"] /\ UNCHANGED <<number, ui>> /\ ask \in [Requests -> AskStates]
  BY DEF DialogsInv, DialogsTypeOK, AnnounceRequest
<1>2. PICK x \in unsent : Announce(x)
  BY DEF AnnounceRequest
<1>3. ask' \in [Requests -> AskStates] /\ \A q \in Requests : ask'[q] = ask[q] \/ (ask[q] = "numbered" /\ ask'[q] = "ready")
  BY <1>1 DEF AskStates
<1> QED BY <1>1, <1>2, <1>3, AnnounceStep

LEMMA PushSessionStep ==
    ASSUME DialogsInv, PushSession, UNCHANGED <<ask, number, ui>>
    PROVE  DialogsInv' /\ FailureStep
<1>1. link = "off" /\ link' = "pushed" /\ UNCHANGED <<table, phase, unsent, held, stream>>
  BY DEF PushSession
<1>2. DialogsTypeOK' /\ TableInv'
  BY <1>1 DEF DialogsInv, DialogsTypeOK, TableInv, Live
<1>3. KnowledgeInv'
  <2>1. Running' = Running
    BY <1>1 DEF Running
  <2> QED BY <1>1, <2>1 DEF DialogsInv, KnowledgeInv
<1>4. AskingInv'
  BY <1>1 DEF DialogsInv, AskingInv
<1>5. UiInv' /\ FailureStep
  BY UiUntouched
<1> QED BY <1>2, <1>3, <1>4, <1>5 DEF DialogsInv

\* What the session is sent: the steps of the snapshot, the list, what was held.
LEMMA SnapshotSent ==
    ASSUME DialogsInv, SnapshotSession
    PROVE  /\ stream' \in Seq(Messages) /\ EndsOver(stream', phase)
           /\ \A p \in Live : Tells(stream', p, table[p].n)
           /\ FinishedIn(stream') \subseteq FinishedIn(stream) /\ AskedIn(stream') \subseteq AskedIn(held)
           /\ LostIn(stream) => LostIn(stream')
           /\ \A lost : Regained(stream', Len(stream'), lost)
<1> DEFINE steps == SetToSeq({StepOf(p, table[p]) : p \in Live})
           l == [type |-> "listed", live |-> Live]
           a == stream \o steps
           b == Append(a, l)
           c == b \o held
<1>0. /\ stream \in Seq(Messages) /\ held \in Seq(Messages) /\ link = "pushed"
      /\ EndsOver(stream, phase) /\ EndsOver(held, phase)
      /\ FinishedIn(held) = {} /\ ~LostIn(held) /\ AskedIn(stream) = {}
  BY DEF DialogsInv, DialogsTypeOK, KnowledgeInv, AskingInv, SnapshotSession
<1>1. /\ steps \in Seq(StepMessages) /\ l \in Messages
      /\ \A p \in Live : \E i \in 1..Len(steps) : steps[i] = StepOf(p, table[p])
  BY SnapshotIs DEF DialogsInv
<1>2. l.type = "listed"
  OBVIOUS
<1>3. stream' = stream \o steps \o <<l>> \o held
  BY DEF SnapshotSession
<1> HIDE DEF steps, l
<1>4. steps \in Seq(Messages) /\ \A i \in 1..Len(steps) : steps[i] \in StepMessages
  BY <1>1 DEF Messages
<1>5. /\ FinishedIn(steps) = {} /\ AskedIn(steps) = {} /\ ~LostIn(steps) /\ EndsOver(steps, phase)
  <2>1. \A i \in 1..Len(steps) : steps[i].type = "step"
    BY <1>4 DEF StepMessages
  <2> QED BY <2>1 DEF FinishedIn, AskedIn, StillAsked, LostIn, IsLost, EndsOver
<1>6. ASSUME NEW p \in Live PROVE Tells(steps, p, table[p].n)
  <2>1. PICK i \in 1..Len(steps) : steps[i] = StepOf(p, table[p])
    BY <1>1
  <2>2. table[p].n \in Nat
    BY DEF DialogsInv, TableInv, Live
  <2>3. steps[i].type = "step" /\ steps[i].proc = p /\ steps[i].n >= table[p].n
    BY <2>1, <2>2 DEF StepOf
  <2> QED BY <2>3 DEF Tells
<1>7. a \in Seq(Messages) /\ Joined(stream, steps, a)
  <2>1. a = stream \o steps
    OBVIOUS
  <2> HIDE DEF a
  <2> QED BY <1>0, <1>4, <2>1, Joins, MessagesJoined
<1>8. stream' = c
  <2> HIDE DEF a
  <2>1. b = a \o <<l>>
    BY <1>1, <1>7
  <2>2. stream' = a \o <<l>> \o held
    BY <1>3 DEF a
  <2> QED BY <2>1, <2>2
<1> HIDE DEF a
<1>9. Lengthened(a, b, l) /\ b \in Seq(Messages) /\ b[Len(b)] = l /\ Len(b) \in Nat /\ Len(b) > 0
  <2>1. b \in Seq(Messages) /\ b[Len(b)] = l /\ Len(b) = Len(a) + 1 /\ Len(a) \in Nat
    BY <1>1, <1>7, AppendProperties
  <2>2. b = Append(a, l)
    OBVIOUS
  <2> HIDE DEF b
  <2>3. Lengthened(a, b, l)
    BY <1>1, <1>7, <2>2, MessageAdded
  <2> QED BY <2>1, <2>3
<1> HIDE DEF b
<1>10. c \in Seq(Messages) /\ Joined(b, held, c)
  <2>1. c = b \o held
    OBVIOUS
  <2> HIDE DEF c
  <2> QED BY <1>0, <1>9, <2>1, Joins, MessagesJoined
<1> HIDE DEF c
<1>11. /\ Joined(a, <<l>>, b) /\ EndsOver(<<l>>, phase) /\ AskedIn(<<l>>) = {} /\ FinishedIn(<<l>>) = {}
  BY <1>2, <1>9 DEF Lengthened
<1>12. EndsOver(c, phase)
  BY <1>0, <1>5, <1>7, <1>10, <1>11 DEF Joined
<1>13. \A p \in Live : Tells(c, p, table[p].n)
  BY <1>6, <1>7, <1>10, <1>11 DEF Joined
<1>14. FinishedIn(c) \subseteq FinishedIn(stream) /\ AskedIn(c) \subseteq AskedIn(held)
  BY <1>0, <1>5, <1>7, <1>10, <1>11 DEF Joined
<1>15. LostIn(stream) => LostIn(c)
  BY <1>7, <1>10, <1>11 DEF Joined
<1>16. ASSUME NEW lost PROVE Regained(c, Len(c), lost)
  <2> DEFINE n == Len(b)
  <2>1. n \in 1..n /\ b[n].type = "listed" /\ \A k \in (n + 1)..n : ~IsLost(b, k)
    BY <1>2, <1>9
  <2>2. Regained(b, n, lost)
    <3> HIDE DEF n
    <3> QED BY <2>1 DEF Regained
  <2> QED BY <1>0, <1>10, <2>2 DEF Joined
<1> QED BY <1>8, <1>10, <1>12, <1>13, <1>14, <1>15, <1>16

LEMMA SnapshotSessionStep ==
    ASSUME DialogsInv, SnapshotSession, UNCHANGED <<ask, number, ui>>
    PROVE  DialogsInv' /\ FailureStep
<1>1. link = "pushed" /\ link' = "on" /\ held' = <<>> /\ UNCHANGED <<table, phase, unsent>>
  BY DEF SnapshotSession
<1>2. /\ stream' \in Seq(Messages) /\ EndsOver(stream', phase)
      /\ \A p \in Live : Tells(stream', p, table[p].n)
      /\ FinishedIn(stream') \subseteq FinishedIn(stream) /\ AskedIn(stream') \subseteq AskedIn(held)
      /\ LostIn(stream) => LostIn(stream')
      /\ \A lost : Regained(stream', Len(stream'), lost)
  BY SnapshotSent
<1>3. DialogsTypeOK' /\ TableInv'
  BY <1>1, <1>2, NoMessages DEF DialogsInv, DialogsTypeOK, TableInv, Live
<1>4. KnowledgeInv'
  <2>1. Running' = Running /\ Live' = Live
    BY <1>1 DEF Running, Live
  <2> QED BY <1>1, <1>2, <2>1, NoMessages DEF DialogsInv, KnowledgeInv
<1>5. AskingInv'
  <2>1. AskedIn(stream) = {} /\ \A q \in AskedIn(stream') : ask[q] = "open"
    BY <1>1, <1>2 DEF DialogsInv, AskingInv
  <2>2. ~LostIn(stream') => \A id \in Dialogs, q \in Prompts : ~HasPrompt(ui, id, q)
    BY <1>1, <1>2 DEF DialogsInv, AskingInv
  <2>3. AskedIn(held') = {} /\ FinishedIn(held') = {} /\ ~LostIn(held')
    BY <1>1, NoMessages
  <2>4. (ui.lost => NoPrompts(ui)) /\ \A q \in FinishedIn(stream') : ask[q] = "over"
    BY <1>2 DEF DialogsInv, AskingInv
  <2> QED BY <1>1, <1>2, <2>1, <2>2, <2>3, <2>4 DEF AskingInv
<1>6. UiInv' /\ FailureStep
  BY UiUntouched
<1> QED BY <1>3, <1>4, <1>5, <1>6 DEF DialogsInv

\* A message about a request that changes nothing of the table.
LEMMA RequestMessageStep ==
    ASSUME DialogsInv, NEW m \in Messages, Deliver(m), m.type \in {"prompt", "withdrawn"}, AskMoves(m),
           UNCHANGED <<table, phase, unsent, link, number, ui>>, ask' \in [Requests -> AskStates],
           \A d \in Deployments : ask[d] \in {"open", "no"} => ask'[d] = ask[d]
    PROVE  DialogsInv' /\ FailureStep
<1>1. Delivered(m)
  BY DeliverIs DEF DialogsInv
<1>2. DialogsTypeOK' /\ TableInv'
  BY <1>1 DEF DialogsInv, DialogsTypeOK, TableInv, Live, Delivered
<1>3. KnowledgeInv'
  <2>1. /\ EndsOver(stream', phase') /\ EndsOver(held', phase')
        /\ \A x, n : Tells(stream, x, n) => Tells(stream', x, n)
    BY <1>1, DeliveredTells
  <2>2. Running' = Running /\ Live' = Live
    BY DEF Running, Live
  <2> QED BY <2>1, <2>2, KnowledgeTold DEF DialogsInv
<1>4. AskingInv'
  BY <1>1, AskingDelivered DEF DialogsInv
<1>5. UiInv' /\ FailureStep
  BY UiUntouched
<1> QED BY <1>2, <1>3, <1>4, <1>5 DEF DialogsInv

LEMMA SendPromptStep ==
    ASSUME DialogsInv, NEW r \in Requests \ Deployments, SendPrompt(r)
    PROVE  DialogsInv' /\ FailureStep
<1> DEFINE m == [type |-> "prompt", req |-> r, n |-> number[r]]
<1>1. /\ ask[r] = "ready" /\ Deliver(m) /\ ask' = [ask EXCEPT ![r] = "open"] /\ UNCHANGED <<table, phase, unsent, link, number, ui>>
      /\ ask \in [Requests -> AskStates] /\ number[r] \in Nat /\ r \in Prompts
  BY DEF SendPrompt, DialogsInv, DialogsTypeOK, Prompts
<1>2. m \in Messages /\ m.type = "prompt" /\ m.req = r
  BY <1>1 DEF Messages, PromptMessages
<1> HIDE DEF m
<1>3. ask' \in [Requests -> AskStates] /\ \A q \in Requests : q # r => ask'[q] = ask[q]
  BY <1>1 DEF AskStates
<1>4. AskMoves(m)
  BY <1>1, <1>2, <1>3 DEF AskMoves, Prompts
<1>5. \A d \in Deployments : ask[d] \in {"open", "no"} => ask'[d] = ask[d]
  BY <1>3, ProcedureNames
<1> QED BY <1>1, <1>2, <1>3, <1>4, <1>5, RequestMessageStep

LEMMA LeaveRequestStep ==
    ASSUME DialogsInv, NEW r \in Requests \ Deployments, LeaveRequest(r)
    PROVE  DialogsInv' /\ FailureStep
<1>1. /\ ask[r] \in {"ready", "open"} /\ ask' = [ask EXCEPT ![r] = "over"] /\ UNCHANGED <<table, phase, unsent, link, number, ui>>
      /\ ask \in [Requests -> AskStates] /\ number \in [Requests -> Nat] /\ r \in Prompts
      /\ unsent \in SUBSET [thread : Requests \union {"report"}, message : StepMessages]
  BY DEF LeaveRequest, DialogsInv, DialogsTypeOK, Prompts
<1>2. ask' \in [Requests -> AskStates] /\ ask'[r] = "over" /\ \A q \in Requests : q # r => ask'[q] = ask[q]
  BY <1>1 DEF AskStates
<1>3. CASE ask[r] = "open"
  <2> DEFINE m == [type |-> "withdrawn", req |-> r]
  <2>1. Deliver(m)
    BY <1>3 DEF LeaveRequest
  <2>2. m \in Messages /\ m.type = "withdrawn" /\ m.req = r
    BY <1>1 DEF Messages, WithdrawnMessages
  <2> HIDE DEF m
  <2>3. AskMoves(m)
    BY <1>2, <1>3, <2>2 DEF AskMoves, Prompts
  <2>4. \A d \in Deployments : ask[d] \in {"open", "no"} => ask'[d] = ask[d]
    BY <1>2, ProcedureNames
  <2> QED BY <1>1, <1>2, <2>1, <2>2, <2>3, <2>4, RequestMessageStep
<1>4. CASE ask[r] = "ready"
  <2>1. UNCHANGED <<stream, held>>
    BY <1>4 DEF LeaveRequest
  <2>2. \A q \in Requests : ask'[q] = ask[q] \/ (ask[q] = "ready" /\ ask'[q] = "over")
    BY <1>2, <1>4
  <2>3. unsent \subseteq unsent' /\ unsent' \in SUBSET [thread : Requests \union {"report"}, message : StepMessages]
        /\ number' \in [Requests -> Nat]
    BY <1>1
  <2> QED BY <1>1, <1>2, <2>1, <2>2, <2>3, AsideStep
<1> QED BY <1>1, <1>3, <1>4

LEMMA LoseLinkStep ==
    ASSUME DialogsInv, LoseLink
    PROVE  DialogsInv' /\ FailureStep
<1> DEFINE m == [type |-> "lost"]
<1>1. /\ link = "on" /\ link' = "off" /\ held' = <<>> /\ stream' = Append(stream, m) /\ UNCHANGED <<table, phase, unsent, number, ui>>
      /\ ask' = [r \in Requests |-> IF ask[r] = "open" /\ r \notin Deployments THEN "ready" ELSE ask[r]]
      /\ ask \in [Requests -> AskStates] /\ stream \in Seq(Messages)
  BY DEF LoseLink, DialogsInv, DialogsTypeOK
<1>2. m \in Messages /\ m.type = "lost"
  BY DEF Messages, LostMessages
<1> HIDE DEF m
<1>3. Lengthened(stream, stream', m)
  BY <1>1, <1>2, MessageAdded
<1>4. stream' \in Seq(Messages) /\ AskedIn(stream') = {} /\ LostIn(stream') /\ FinishedIn(stream') \subseteq FinishedIn(stream)
  BY <1>2, <1>3 DEF Lengthened, Joined
<1>5. ask' \in [Requests -> AskStates]
  BY <1>1 DEF AskStates
<1>6. DialogsTypeOK' /\ TableInv'
  BY <1>1, <1>4, <1>5, NoMessages DEF DialogsInv, DialogsTypeOK, TableInv, Live
<1>7. KnowledgeInv'
  <2>1. Running' = Running
    BY <1>1 DEF Running
  <2>2. EndsOver(stream', phase)
    BY <1>2, <1>3 DEF Lengthened, Joined, DialogsInv, KnowledgeInv
  <2> QED BY <1>1, <2>1, <2>2, NoMessages DEF DialogsInv, KnowledgeInv
<1>8. AskingInv'
  <2>1. \A q \in FinishedIn(stream') : ask'[q] = "over"
    BY <1>1, <1>4 DEF DialogsInv, AskingInv, FinishedIn, Prompts
  <2> QED BY <1>1, <1>4, <2>1, NoMessages DEF DialogsInv, AskingInv
<1>9. UiInv' /\ FailureStep
  <2>1. \A d \in Deployments : ask[d] \in {"open", "no"} => ask'[d] = ask[d]
    BY <1>1, ProcedureNames
  <2> QED BY <1>1, <2>1, UiUntouched
<1> QED BY <1>6, <1>7, <1>8, <1>9 DEF DialogsInv

LEMMA FinishStep ==
    ASSUME DialogsInv, NEW r \in Requests \ Deployments, NEW ok \in BOOLEAN, Finish(r, ok)
    PROVE  DialogsInv' /\ FailureStep
<1> DEFINE m == [type |-> "finished", req |-> r, ok |-> ok]
<1>1. /\ ask[r] \in {"yes", "no"} /\ ask' = [ask EXCEPT ![r] = "over"] /\ stream' = Append(stream, m)
      /\ UNCHANGED <<table, phase, unsent, link, held, number, ui>>
      /\ ask \in [Requests -> AskStates] /\ stream \in Seq(Messages) /\ r \in Prompts
  BY DEF Finish, DialogsInv, DialogsTypeOK, Prompts
<1>2. m \in Messages /\ m.type = "finished" /\ m.req = r
  BY <1>1 DEF Messages, FinishedMessages
<1> HIDE DEF m
<1>3. Lengthened(stream, stream', m)
  BY <1>1, <1>2, MessageAdded
<1>4. /\ stream' \in Seq(Messages) /\ AskedIn(stream') \subseteq AskedIn(stream) /\ (LostIn(stream) => LostIn(stream'))
      /\ FinishedIn(stream') \subseteq FinishedIn(stream) \union {r}
  BY <1>2, <1>3 DEF Lengthened, Joined
<1>5. /\ EndsOver(stream', phase) \/ ~EndsOver(stream, phase)
      /\ \A p, n : Tells(stream, p, n) => Tells(stream', p, n)
      /\ \A lost : Regained(stream, Len(stream), lost) => Regained(stream', Len(stream'), lost)
  BY <1>2, <1>3 DEF Lengthened, Joined
<1>6. ask' \in [Requests -> AskStates] /\ ask'[r] = "over" /\ \A q \in Requests : q # r => ask'[q] = ask[q]
  BY <1>1 DEF AskStates
<1>7. DialogsTypeOK' /\ TableInv'
  BY <1>1, <1>4, <1>6 DEF DialogsInv, DialogsTypeOK, TableInv, Live
<1>8. KnowledgeInv'
  <2>1. Running' = Running /\ Live' = Live
    BY <1>1 DEF Running, Live
  <2>2. EndsOver(stream', phase') /\ EndsOver(held', phase')
    BY <1>1, <1>5 DEF DialogsInv, KnowledgeInv
  <2> QED BY <1>1, <1>5, <2>1, <2>2, KnowledgeTold DEF DialogsInv
<1>9. AskingInv'
  <2>1. \A q \in FinishedIn(stream') : ask'[q] = "over"
    BY <1>4, <1>6 DEF DialogsInv, AskingInv, FinishedIn, Prompts
  <2>2. ASSUME NEW q \in AskedIn(stream') \union AskedIn(held) PROVE ask'[q] = "open"
    <3>1. q \in Requests /\ ask[q] = "open"
      BY <1>4 DEF DialogsInv, AskingInv, AskedIn, Prompts
    <3> QED BY <1>1, <1>6, <3>1
  <2>3. ASSUME ~LostIn(stream'), NEW id \in Dialogs, NEW q \in Prompts, HasPrompt(ui, id, q)
        PROVE  link = "on" /\ ask'[q] \in {"open", "yes", "no", "over"} /\ q \notin AskedIn(stream')
    <3>1. link = "on" /\ ask[q] \in {"open", "yes", "no", "over"} /\ q \notin AskedIn(stream)
      BY <1>4, <2>3 DEF DialogsInv, AskingInv
    <3> QED BY <1>4, <1>6, <3>1 DEF Prompts
  <2>4. /\ FinishedIn(held) = {} /\ ~LostIn(held) /\ (link # "pushed" => held = <<>>)
        /\ (link # "on" => AskedIn(stream') = {}) /\ (ui.lost => NoPrompts(ui))
        /\ (link = "on" => Regained(stream', Len(stream'), ui.lost))
    BY <1>4, <1>5 DEF DialogsInv, AskingInv
  <2> QED BY <1>1, <2>1, <2>2, <2>3, <2>4 DEF AskingInv
<1>10. UiInv' /\ FailureStep
  <2>1. \A d \in Deployments : ask[d] \in {"open", "no"} => ask'[d] = ask[d]
    BY <1>6, ProcedureNames
  <2> QED BY <1>1, <2>1, UiUntouched
<1> QED BY <1>7, <1>8, <1>9, <1>10 DEF DialogsInv

LEMMA DialogsInit ==
    ASSUME ProcedureInit
    PROVE  DialogsInv
<1>1. /\ table = [p \in Procs |-> Ended] /\ phase \in [Procs -> {"new", "over"}]
      /\ unsent = {} /\ link = "off" /\ held = <<>> /\ stream = <<>>
      /\ ask \in [Requests -> {"new", "over"}] /\ number = [r \in Requests |-> 0]
  BY DEF ProcedureInit, TableInit
<1>2. ui = [proc |-> [id \in Dialogs |-> NewProcedure], foreground |-> NoDialog, mode |-> "browse",
             pending |-> <<>>, completed |-> {}, cancelled |-> {}, lost |-> FALSE, misled |-> {}]
  BY DEF ProcedureInit
<1>3. /\ \A id \in Dialogs : ui.proc[id] = NewProcedure
      /\ ui.foreground = NoDialog /\ ui.mode = "browse" /\ ui.pending = <<>> /\ ui.lost = FALSE /\ ui.misled = {}
  BY <1>2
<1>4. ui \in Uis
  <2>1. [id \in Dialogs |-> NewProcedure] \in [Dialogs -> DialogRecords]
    BY NewRecord
  <2>2. "browse" \in Modes /\ <<>> \in Seq(Deployments)
    BY DEF Modes
  <2> QED BY <1>2, <2>1, <2>2 DEF Uis
<1>5. DialogsTypeOK
  <2>1. Ended \in Steps
    BY StartingIs
  <2> QED BY <1>1, <2>1, NoMessages DEF DialogsTypeOK, Phases, AskStates
<1>6. Live = {}
  BY <1>1 DEF Live
<1>7. TableInv
  BY <1>1, <1>6 DEF TableInv
<1>8. KnowledgeInv
  BY <1>1, <1>3, <1>6, NoMessages, RunningIsProc DEF KnowledgeInv, NewProcedure
<1>9. UiInv
  <2>1. ASSUME NEW id \in Dialogs PROVE DialogOK(ui, id) /\ ~HasPending(ui, id)
    <3>1. ui.proc[id] = NewProcedure /\ ui.foreground # id
      BY <1>3, Names
    <3>2. ~HasPending(ui, id) /\ ~ApprovalOf(ui, id)
      BY <1>3, Names DEF HasPending, ApprovalOf
    <3>3. ~Called(ui, id) /\ (ui.foreground = id) = FALSE
      BY <3>1, <3>2 DEF Called
    <3>4. DialogOK(ui, id)
      BY <3>1, <3>3, NewRecord DEF DialogOK, Sound, Pressing
    <3> QED BY <3>2, <3>4
  <2> QED BY <1>3, <1>4, <2>1, Names DEF UiInv, Good, Settled, InHand
<1>10. AskingInv
  <2>1. NoPrompts(ui) /\ \A id \in Dialogs, q \in Prompts : ~HasPrompt(ui, id, q)
    BY <1>3 DEF NoPrompts, HasPrompt, NewProcedure
  <2> QED BY <1>1, <1>3, <2>1, NoMessages DEF AskingInv
<1> QED BY <1>5, <1>7, <1>8, <1>9, <1>10 DEF DialogsInv

\* Every step keeps the invariant and shows failures before they go.
LEMMA DialogsStep ==
    ASSUME DialogsInv, ProcedureNext
    PROVE  DialogsInv' /\ FailureStep
<1>1. CASE TableStep
  <2>0. UNCHANGED <<ask, number, ui>>
    BY <1>1 DEF TableStep
  <2>1. ASSUME NEW p \in Procs, BeginProcedure(p) \/ AnnounceBegin(p) \/ RefuseProcedure(p)
                                \/ AnnounceEnd(p) \/ ReportProgress(p)
        PROVE  DialogsInv' /\ FailureStep
    BY <2>0, <2>1, BeginProcedureStep, AnnounceBeginStep, RefuseProcedureStep, AnnounceEndStep, ReportProgressStep
  <2>2. ASSUME NEW p \in Procs, NEW exit \in Exits, EndProcedure(p, exit) PROVE DialogsInv' /\ FailureStep
    BY <2>0, <2>2, EndProcedureStep
  <2>3. ASSUME NEW p \in Procs, NEW label \in Labels, NEW kind \in {"failure", "warning"}, ReportStep(p, label, kind)
        PROVE  DialogsInv' /\ FailureStep
    BY <2>0, <2>3, ReportStepStep
  <2>4. ASSUME NEW x \in unsent, Announce(x) PROVE DialogsInv' /\ FailureStep
    <3>1. ask' \in [Requests -> AskStates] /\ \A q \in Requests : ask'[q] = ask[q]
      BY <2>0 DEF DialogsInv, DialogsTypeOK
    <3> QED BY <2>0, <2>4, <3>1, AnnounceStep
  <2>5. CASE PushSession \/ SnapshotSession
    BY <2>0, <2>5, PushSessionStep, SnapshotSessionStep
  <2> QED BY <1>1, <2>1, <2>2, <2>3, <2>4, <2>5 DEF TableStep
<1>2. CASE LoseLink \/ Tick
  BY <1>2, LoseLinkStep, TickStep
<1>3. CASE OperatorStep
  <2>1. ASSUME NEW yes \in BOOLEAN, AnswerPrompt(yes) PROVE DialogsInv' /\ FailureStep
    BY <2>1, AnswerPromptStep
  <2>2. CASE CancelCountdown \/ Minimise \/ RestoreNext \/ Acknowledge \/ OpenDialog \/ CloseDialog
    BY <2>2, DialogSteps, MinimiseStep, RestoreNextStep, AcknowledgeStep
  <2>3. ASSUME NEW id \in Dialogs, Restore(id) PROVE DialogsInv' /\ FailureStep
    BY <2>3, RestoreStep
  <2>4. ASSUME NEW d \in Deployments, NEW yes \in BOOLEAN, AnswerDeployment(d, yes) PROVE DialogsInv' /\ FailureStep
    BY <2>4, AnswerDeploymentStep
  <2> QED BY <1>3, <2>1, <2>2, <2>3, <2>4 DEF OperatorStep
<1>4. ASSUME NEW r \in Requests, RequestAlone(r) \/ RequestStep(r) \/ RequestConfirmation(r) \/ AnnounceRequest(r)
      PROVE  DialogsInv' /\ FailureStep
  BY <1>4, RequestSteps, RequestStepStep, AnnounceRequestStep
<1>5. ASSUME NEW r \in Requests \ Deployments, SendPrompt(r) \/ LeaveRequest(r) \/ ExpirePrompt(r)
      PROVE  DialogsInv' /\ FailureStep
  BY <1>5, SendPromptStep, LeaveRequestStep, ExpirePromptStep
<1>6. ASSUME NEW r \in Requests \ Deployments, NEW ok \in BOOLEAN, Finish(r, ok) PROVE DialogsInv' /\ FailureStep
  BY <1>6, FinishStep
<1>7. ASSUME NEW d \in Deployments, OfferDeployment(d) \/ FinishApproval(d) \/ DeploymentLost(d)
      PROVE  DialogsInv' /\ FailureStep
  BY <1>7, OfferDeploymentStep, FinishApprovalStep, DeploymentLostStep
<1>8. ASSUME NEW d \in Deployments, NEW ok \in BOOLEAN, DeploymentDone(d, ok)
      PROVE  DialogsInv' /\ FailureStep
  BY <1>8, DeploymentDoneStep
<1> QED BY <1>1, <1>2, <1>3, <1>4, <1>5, <1>6, <1>7, <1>8 DEF ProcedureNext

LEMMA DialogsStutter ==
    ASSUME DialogsInv, UNCHANGED procedureVars
    PROVE  DialogsInv'
<1>1. UNCHANGED <<table, phase, unsent, link, held, stream, ask, number, ui>>
  BY DEF procedureVars, tableVars
<1>2. DialogsTypeOK' /\ TableInv'
  BY <1>1 DEF DialogsInv, DialogsTypeOK, TableInv, Live
<1>3. Running' = Running /\ Live' = Live /\ OpenClaims' = OpenClaims
  BY <1>1 DEF Running, Live, OpenClaims
<1>4. KnowledgeInv'
  BY <1>1, <1>3 DEF DialogsInv, KnowledgeInv
<1>5. UiInv'
  BY <1>1, <1>3 DEF DialogsInv, UiInv
<1>6. AskingInv'
  BY <1>1 DEF DialogsInv, AskingInv
<1> QED BY <1>2, <1>4, <1>5, <1>6 DEF DialogsInv

\* The invariant holds: every dialog that presses for an answer is located, what
\* runs is known or on its way, and prompts are asked once and of a live session
\* (model/procedures.rs, ui/drive.rs, backend/procedures.rs, backend/secrets.rs).
THEOREM DialogsInvariant == ProcedureSpec => []DialogsInv
<1>1. ProcedureInit => DialogsInv
  BY DialogsInit
<1>2. DialogsInv /\ [ProcedureNext]_procedureVars => DialogsInv'
  BY DialogsStep, DialogsStutter
<1> QED BY <1>1, <1>2, PTL DEF ProcedureSpec

\* Whatever waits for the operator is on screen, in the open approval, flashing or
\* set aside, for any procedures, requests and interleaving of them
\* (model/procedures.rs: arrive, record_step, procedure_ended, tidy_procedures).
THEOREM WaitingIsSeen == ProcedureSpec => []NothingWaitsUnseen
<1>1. DialogsInv => NothingWaitsUnseen
  <2> SUFFICES ASSUME DialogsInv PROVE NothingWaitsUnseen
    OBVIOUS
  <2>1. ui \in Uis /\ \A id \in Dialogs : DialogOK(ui, id)
    BY DEF DialogsInv, UiInv, Good
  <2>2. ui.foreground # NoDialog => ui.foreground \in Listed /\ ~ui.proc[ui.foreground].minimised
    <3>1. ui.foreground # NoDialog => ui.foreground \in Dialogs
      BY <2>1, FieldTypes
    <3> QED BY <2>1, <3>1 DEF DialogOK, Sound, Listed
  <2>3. ASSUME NEW id \in Listed, Waiting(ui, id), ~EarlyWarning(ui.proc[id])
        PROVE  \/ OnScreen(ui, id) \/ ApprovalOf(ui, id)
               \/ ui.proc[id].minimised /\ (ui.proc[id].flashing \/ ui.proc[id].aside)
    <3>1. id \in Dialogs /\ DialogOK(ui, id)
      BY <2>1 DEF Listed
    <3>2. Pressing(ui.proc[id], Called(ui, id))
      BY <2>3 DEF Waiting, NeedsAck, EarlyWarning, Pressing, Called
    <3>3. Located(ui.proc[id], ui.foreground = id)
      BY <3>1, <3>2 DEF DialogOK
    <3> QED BY <3>3 DEF Located, OnScreen
  <2> QED BY <2>2, <2>3 DEF NothingWaitsUnseen
<1> QED BY <1>1, DialogsInvariant, PTL

\* Once all that was announced is read, an attached TUI has every running
\* procedure at its current step or a later one, whatever the order of the
\* announcements (backend/procedures.rs: next_step; backend/secrets.rs: attach).
THEOREM StepsAreKnown == ProcedureSpec => []LatestStepKnown
<1>1. DialogsInv => LatestStepKnown
  <2> SUFFICES ASSUME DialogsInv, link = "on", stream = <<>>, unsent = {},
                      \A p \in Procs : phase[p] \in {"new", "serving", "over"}, NEW p \in Live \ ui.misled
               PROVE  ui.proc[p].here /\ ui.proc[p].step >= table[p].n
    BY DEF LatestStepKnown
  <2>1. p \in Procs /\ phase[p] # "begun"
    BY DEF Live
  <2>2. ~Tells(stream, p, table[p].n) /\ ~ToTell(unsent, p, table[p].n)
    BY DEF Tells, ToTell
  <2>3. Knows(ui, p, table[p].n)
    BY <2>1, <2>2 DEF DialogsInv, KnowledgeInv
  <2> QED BY <2>3 DEF Knows
<1> QED BY <1>1, DialogsInvariant, PTL

\* No step but the operator's own or a new question takes a failed result away
\* (model/procedures.rs: procedure_ended, record_step, tidy_procedures).
THEOREM FailuresAreSeen == ProcedureSpec => FailureIsSeen
<1>1. DialogsInv /\ [ProcedureNext]_procedureVars => [FailureStep]_procedureVars
  BY DialogsStep
<1>2. ProcedureSpec => [][FailureStep]_procedureVars
  BY <1>1, DialogsInvariant, PTL DEF ProcedureSpec
<1> QED BY <1>2 DEF FailureIsSeen, FailureStep
==============================================================================
