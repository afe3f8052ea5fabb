-------------------------- MODULE BackendFilesProofs -------------------------
EXTENDS StoreFeed, GitCommits, TLAPS

(***************************************************************************)
(* The store's and the feed's promises, for any secrets, threads, profiles *)
(* and limits.  The store's rest on one fact, that a thread which writes   *)
(* holds the lock, so that the document it read is still the document; the *)
(* feed's on another, that whatever the TUI does not show yet is still to  *)
(* be announced to it or to be listed by it.                               *)
(***************************************************************************)

StoreSpec == StoreInit /\ [][StoreNext]_storeVars

Events == {"none", "secret", "info", "profiles", "approval"}
Records == [v : Nat, ref : Nat, pub : Nat, for : Nat]
Documents == [secrets : [Paths -> Records], info : Nat, generated : Nat, quarantine : SUBSET Nat,
              registry : Seq(Nat)]
Requests == [pc : {"idle", "writing", "renamed", "answering"},
             op : Operations \union {"none", "save", "delete", "submit"},
             path : Paths \union {Nobody}, expected : Nat, previous : Nat, copy : Documents \union {Unset}, event : Events]
ListenerPlaces == {"off", "secrets", "info", "profiles", "secrets again", "info again", "listening"}

StoreTypeOK ==
    /\ doc \in Documents /\ holder \in Threads \union {Nobody}
    /\ work \in [Threads -> Requests]
    /\ seen \in [Threads -> [secret : Nat, pub : Nat, info : Nat, generated : Nat, profiles : [Profiles -> Nat]]]
    /\ fresh \in Nat /\ key \in Nat /\ profiles \in [Profiles -> Nat]

\* Every record's reference is in the registry and leads to its recipient.
Resolves(d) ==
    \A p \in Paths : d.secrets[p].v # 0 => /\ d.secrets[p].ref \in 1..Len(d.registry)
                                           /\ d.registry[d.secrets[p].ref] = d.secrets[p].for

\* c differs from d in what the request w is about only.
KeepsOthers(d, c, w) ==
    /\ \A p \in Paths : p # w.path => c.secrets[p] = d.secrets[p]
    /\ w.op \notin {"info", "infogone"} => c.info = d.info
    /\ w.op # "genkey" => c.generated = d.generated
    /\ w.op \notin {"quarantine", "unquarantine"} => c.quarantine = d.quarantine

\* An event that makes the listener list the values again.
Relists == {"secret", "info"}

\* A change that is not announced does not show.
ShowsSame(d, c, w) == EventAfter(w.op) \notin Relists => Listing(c) = Listing(d)

\* A thread that writes holds the lock; what it is about to write is the document
\* as it is now with its own change.
WriterHolds(t) ==
    LET w == work[t] IN
    /\ w.pc \in {"writing", "renamed"} => holder = t /\ w.op \in Operations
    /\ w.pc = "writing" =>
          /\ w.path \in Paths /\ w.copy \in Documents /\ Resolves(w.copy)
          /\ KeepsOthers(doc, w.copy, w) /\ ShowsSame(doc, w.copy, w)
          /\ Conditional(w.op) => Agrees(doc, w)
    /\ w.pc # "answering" => w.event = "none"

StoreInv == StoreTypeOK /\ Resolves(doc) /\ \A t \in Threads : WriterHolds(t)

-----------------------------------------------------------------------------
LEMMA IdleIsRequest ==
    /\ Idle \in Requests /\ Idle.pc = "idle" /\ Idle.event = "none" /\ Idle.op = "none"
BY DEF Idle, Requests, Events

LEMMA EventsAre == \A op : EventAfter(op) \in Events
BY DEF EventAfter, Events

\* The registry has, or gets, the key at the reference that is taken, and keeps
\* the others.
LEMMA RegistryGrows ==
    ASSUME NEW d \in Documents, NEW k \in Nat
    PROVE  LET i == RegistryRef(d, k)
               r == IF i > Len(d.registry) THEN Append(d.registry, k) ELSE d.registry
           IN  /\ i \in Nat /\ r \in Seq(Nat) /\ i \in 1..Len(r) /\ r[i] = k
               /\ \A j \in 1..Len(d.registry) : j \in 1..Len(r) /\ r[j] = d.registry[j]
<1> DEFINE i == RegistryRef(d, k)
           r == IF i > Len(d.registry) THEN Append(d.registry, k) ELSE d.registry
<1>0. d.registry \in Seq(Nat) /\ Len(d.registry) \in Nat /\ DOMAIN d.registry = 1..Len(d.registry)
  BY DEF Documents
<1>1. CASE \E j \in DOMAIN d.registry : d.registry[j] = k
  <2>1. i \in DOMAIN d.registry /\ d.registry[i] = k
    BY <1>1 DEF RegistryRef
  <2>2. r = d.registry
    BY <1>0, <2>1
  <2> QED
    BY <1>0, <2>1, <2>2
<1>2. CASE ~ \E j \in DOMAIN d.registry : d.registry[j] = k
  <2>1. i = Len(d.registry) + 1
    BY <1>2 DEF RegistryRef
  <2>2. r = Append(d.registry, k)
    BY <1>0, <2>1
  <2> QED
    BY <1>0, <2>1, <2>2
<1> QED
  BY <1>1, <1>2

LEMMA SetSecretGood ==
    ASSUME NEW d \in Documents, Resolves(d), NEW p \in Paths, NEW v \in Nat, NEW k \in Nat
    PROVE  LET c == SetSecret(d, p, v, k) IN
           /\ c \in Documents /\ Resolves(c)
           /\ \A q \in Paths : q # p => c.secrets[q] = d.secrets[q]
           /\ c.info = d.info /\ c.generated = d.generated /\ c.quarantine = d.quarantine
<1> DEFINE i == RegistryRef(d, k)
           r == IF i > Len(d.registry) THEN Append(d.registry, k) ELSE d.registry
           new == [v |-> v, ref |-> i, pub |-> 0, for |-> k]
           c == [d EXCEPT !.registry = r, !.secrets[p] = new]
<1>1. c = SetSecret(d, p, v, k)
  BY DEF SetSecret
<1>2. /\ i \in Nat /\ r \in Seq(Nat) /\ i \in 1..Len(r) /\ r[i] = k
      /\ \A j \in 1..Len(d.registry) : j \in 1..Len(r) /\ r[j] = d.registry[j]
  BY RegistryGrows, Zenon
<1>3. new \in Records /\ new.ref = i /\ new.for = k
  BY <1>2 DEF Records
<1> HIDE DEF i, r, new
<1>4. /\ c \in Documents
      /\ c.registry = r /\ c.secrets = [d.secrets EXCEPT ![p] = new]
      /\ c.info = d.info /\ c.generated = d.generated /\ c.quarantine = d.quarantine
  BY <1>2, <1>3 DEF Documents
<1> HIDE DEF c
<1>5. /\ c.secrets[p] = new
      /\ \A q \in Paths : q # p => c.secrets[q] = d.secrets[q]
  BY <1>4 DEF Documents
<1>6. Resolves(c)
  <2> SUFFICES ASSUME NEW q \in Paths, c.secrets[q].v # 0
               PROVE  c.secrets[q].ref \in 1..Len(r) /\ r[c.secrets[q].ref] = c.secrets[q].for
    BY <1>4 DEF Resolves
  <2>1. CASE q = p
    BY <1>2, <1>3, <1>5, <2>1
  <2>2. CASE q # p
    <3>1. /\ c.secrets[q] = d.secrets[q] /\ d.secrets[q].ref \in 1..Len(d.registry)
          /\ d.registry[d.secrets[q].ref] = d.secrets[q].for
      BY <1>5, <2>2 DEF Resolves
    <3>2. d.secrets[q].ref \in 1..Len(r) /\ r[d.secrets[q].ref] = d.registry[d.secrets[q].ref]
      BY <1>2, <3>1
    <3> QED
      BY <3>1, <3>2
  <2> QED
    BY <2>1, <2>2
<1> QED
  BY <1>1, <1>4, <1>5, <1>6

\* A record that is replaced keeps the document a document and the others as
\* they are; if it keeps its reference and recipient or is unset, it resolves.
LEMMA RecordReplaced ==
    ASSUME NEW d \in Documents, Resolves(d), NEW p \in Paths, NEW x \in Records,
           x.v # 0 => /\ d.secrets[p].v # 0
                      /\ x.ref = d.secrets[p].ref /\ x.for = d.secrets[p].for
    PROVE  LET c == [d EXCEPT !.secrets[p] = x] IN
           /\ c \in Documents /\ Resolves(c) /\ c.secrets[p] = x
           /\ \A q \in Paths : q # p => c.secrets[q] = d.secrets[q]
           /\ c.info = d.info /\ c.generated = d.generated /\ c.quarantine = d.quarantine
<1> DEFINE c == [d EXCEPT !.secrets[p] = x]
<1>1. /\ c \in Documents /\ c.registry = d.registry /\ c.secrets[p] = x
      /\ \A q \in Paths : q # p => c.secrets[q] = d.secrets[q]
      /\ c.info = d.info /\ c.generated = d.generated /\ c.quarantine = d.quarantine
  BY DEF Documents
<1> HIDE DEF c
<1>2. Resolves(c)
  <2> SUFFICES ASSUME NEW q \in Paths, c.secrets[q].v # 0
               PROVE  /\ c.secrets[q].ref \in 1..Len(d.registry)
                      /\ d.registry[c.secrets[q].ref] = c.secrets[q].for
    BY <1>1 DEF Resolves
  <2>1. CASE q = p
    BY <1>1, <2>1 DEF Resolves
  <2>2. CASE q # p
    BY <1>1, <2>2 DEF Resolves
  <2> QED
    BY <2>1, <2>2
<1> QED
  BY <1>1, <1>2 DEF c

\* The operations on anything but the secrets.
LEMMA OtherPartChanged ==
    ASSUME NEW d \in Documents, Resolves(d), NEW v \in Nat, NEW q \in SUBSET Nat, NEW c,
           c \in {[d EXCEPT !.info = v], [d EXCEPT !.generated = v], [d EXCEPT !.quarantine = q]}
    PROVE  c \in Documents /\ Resolves(c) /\ c.secrets = d.secrets
<1>1. c \in Documents /\ c.secrets = d.secrets /\ c.registry = d.registry
  BY DEF Documents
<1> QED
  BY <1>1 DEF Resolves

(***************************************************************************)
(* What every operation of the store does to the document it read.         *)
(***************************************************************************)
LEMMA ChangedKeeps ==
    ASSUME NEW d \in Documents, Resolves(d), key \in Nat, NEW v \in Nat,
           NEW w, w.op \in Operations, w.path \in Paths, ~Refused(d, w)
    PROVE  LET c == Changed(d, w, v) IN
           c \in Documents /\ Resolves(c) /\ KeepsOthers(d, c, w) /\ ShowsSame(d, c, w)
<1> DEFINE c == Changed(d, w, v)
           p == w.path
<1>0. d.secrets \in [Paths -> Records] /\ d.quarantine \in SUBSET Nat /\ 0 \in Nat
  BY DEF Documents
<1>1. CASE w.op \in {"set", "setif"}
  <2>1. c = SetSecret(d, p, v, key)
    BY <1>1 DEF Changed
  <2>2. ShowsSame(d, c, w)
    BY <1>1 DEF ShowsSame, EventAfter, Relists
  <2> HIDE DEF c
  <2>3. /\ c \in Documents /\ Resolves(c)
        /\ \A q \in Paths : q # p => c.secrets[q] = d.secrets[q]
        /\ c.info = d.info /\ c.generated = d.generated /\ c.quarantine = d.quarantine
    BY <2>1, SetSecretGood
  <2> QED
    BY <2>2, <2>3 DEF KeepsOthers, c
<1>2. CASE w.op \in {"remove", "removeif"}
  <2>1. c = [d EXCEPT !.secrets[p] = Unset]
    BY <1>2 DEF Changed, RemoveSecret
  <2>2. ShowsSame(d, c, w)
    BY <1>2 DEF ShowsSame, EventAfter, Relists
  <2>3. Unset \in Records /\ Unset.v = 0
    BY DEF Unset, Records
  <2> HIDE DEF c
  <2>4. /\ c \in Documents /\ Resolves(c)
        /\ \A q \in Paths : q # p => c.secrets[q] = d.secrets[q]
        /\ c.info = d.info /\ c.generated = d.generated /\ c.quarantine = d.quarantine
    BY <2>1, <2>3, RecordReplaced
  <2> QED
    BY <2>2, <2>4 DEF KeepsOthers, c
<1>3. CASE w.op = "pubkey"
  <2> DEFINE x == [d.secrets[p] EXCEPT !.pub = v]
  <2>0. d.secrets[p].v # 0
    BY <1>3 DEF Refused
  <2>1. c = [d EXCEPT !.secrets[p] = x]
    BY <1>0, <1>3 DEF Changed, SetPublicKey, Documents
  <2>2. x \in Records /\ x.v = d.secrets[p].v /\ x.ref = d.secrets[p].ref /\ x.for = d.secrets[p].for
    BY <1>0 DEF Records
  <2> HIDE DEF c, x
  <2>3. /\ c \in Documents /\ Resolves(c) /\ c.secrets[p] = x
        /\ \A q \in Paths : q # p => c.secrets[q] = d.secrets[q]
        /\ c.info = d.info /\ c.generated = d.generated /\ c.quarantine = d.quarantine
    BY <2>0, <2>1, <2>2, RecordReplaced
  <2>4. \A q \in Paths : c.secrets[q].v = d.secrets[q].v
    BY <2>2, <2>3
  <2>5. ShowsSame(d, c, w)
    BY <2>3, <2>4 DEF ShowsSame, Listing, SetPaths
  <2> QED
    BY <2>3, <2>5 DEF KeepsOthers, c
<1>4. CASE w.op \in {"info", "infogone"}
  <2>1. PICK n \in Nat : c = [d EXCEPT !.info = n]
    BY <1>0, <1>4 DEF Changed, SetInfo
  <2>2. ShowsSame(d, c, w)
    BY <1>4 DEF ShowsSame, EventAfter, Relists
  <2> HIDE DEF c
  <2>3. c \in Documents /\ Resolves(c) /\ c.secrets = d.secrets
    BY <1>0, <2>1, OtherPartChanged
  <2>4. c.generated = d.generated /\ c.quarantine = d.quarantine
    BY <2>1 DEF Documents
  <2> QED
    BY <1>4, <2>2, <2>3, <2>4 DEF KeepsOthers, c
<1>5. CASE w.op = "genkey"
  <2>1. c = [d EXCEPT !.generated = v]
    BY <1>5 DEF Changed, SetGeneratedKey
  <2> HIDE DEF c
  <2>2. c \in Documents /\ Resolves(c) /\ c.secrets = d.secrets
    BY <1>0, <2>1, OtherPartChanged
  <2>3. c.info = d.info /\ c.quarantine = d.quarantine
    BY <2>1 DEF Documents
  <2>4. ShowsSame(d, c, w)
    BY <2>2, <2>3 DEF ShowsSame, Listing, SetPaths
  <2> QED
    BY <1>5, <2>2, <2>3, <2>4 DEF KeepsOthers, c
<1>6. CASE w.op \in {"quarantine", "unquarantine"}
  <2>1. PICK q \in SUBSET Nat : c = [d EXCEPT !.quarantine = q]
    <3>1. CASE w.op = "quarantine"
      <4>1. c = [d EXCEPT !.quarantine = d.quarantine \union {v}]
        BY <3>1 DEF Changed, Quarantine
      <4> QED
        BY <1>0, <4>1
    <3>2. CASE w.op = "unquarantine"
      <4>1. c = [d EXCEPT !.quarantine = d.quarantine \ {Max(d.quarantine)}]
        BY <3>2 DEF Changed, Unquarantine
      <4> QED
        BY <1>0, <4>1
    <3> QED
      BY <1>6, <3>1, <3>2
  <2> HIDE DEF c
  <2>2. c \in Documents /\ Resolves(c) /\ c.secrets = d.secrets
    BY <1>0, <2>1, OtherPartChanged
  <2>3. c.info = d.info /\ c.generated = d.generated
    BY <2>1 DEF Documents
  <2>4. ShowsSame(d, c, w)
    BY <2>2, <2>3 DEF ShowsSame, Listing, SetPaths
  <2> QED
    BY <1>6, <2>2, <2>3, <2>4 DEF KeepsOthers, c
<1> QED
  BY <1>1, <1>2, <1>3, <1>4, <1>5, <1>6 DEF Operations

-----------------------------------------------------------------------------
LEMMA StoreInitially == StoreInit => StoreInv
<1> SUFFICES ASSUME StoreInit PROVE StoreInv
  OBVIOUS
<1>1. Unset \in Records /\ Unset.v = 0 /\ <<>> \in Seq(Nat) /\ {} \in SUBSET Nat
  BY DEF Unset, Records
<1>2. doc \in Documents /\ \A p \in Paths : doc.secrets[p] = Unset
  BY <1>1 DEF StoreInit, Documents
<1>3. StoreTypeOK
  BY <1>2, IdleIsRequest DEF StoreInit, StoreTypeOK
<1>4. Resolves(doc)
  BY <1>1, <1>2 DEF Resolves
<1>5. \A t \in Threads : WriterHolds(t)
  BY IdleIsRequest DEF StoreInit, WriterHolds
<1> QED
  BY <1>3, <1>4, <1>5 DEF StoreInv

\* What a step that is not a write, and leaves the locks' holders alone, keeps.
LEMMA NothingWritten ==
    ASSUME StoreInv, UNCHANGED <<doc, holder, work>>,
           seen' \in [Threads -> [secret : Nat, pub : Nat, info : Nat, generated : Nat, profiles : [Profiles -> Nat]]],
           fresh' \in Nat, key' \in Nat, profiles' \in [Profiles -> Nat]
    PROVE  StoreInv'
<1>1. StoreTypeOK'
  BY DEF StoreInv, StoreTypeOK
<1>2. Resolves(doc)'
  BY DEF StoreInv, Resolves
<1>3. \A t \in Threads : WriterHolds(t)'
  BY DEF StoreInv, WriterHolds
<1> QED
  BY <1>1, <1>2, <1>3 DEF StoreInv

\* A thread that goes where it writes nothing, with the lock dropped or not,
\* disturbs no writer.
LEMMA ThreadGoes ==
    ASSUME StoreInv, NEW t \in Threads, NEW a \in Requests, a.pc \in {"idle", "answering"},
           a.pc = "idle" => a.event = "none",
           work' = [work EXCEPT ![t] = a], UNCHANGED holder \/ Unlock(t),
           UNCHANGED <<doc, seen, key>>, fresh' \in Nat, profiles' \in [Profiles -> Nat]
    PROVE  StoreInv'
<1>1. work \in [Threads -> Requests] /\ holder \in Threads \union {Nobody}
  BY DEF StoreInv, StoreTypeOK
<1>2. holder' \in Threads \union {Nobody} /\ \A u \in Threads \ {t} : holder = u => holder' = u
  BY <1>1 DEF Unlock
<1>3. StoreTypeOK'
  BY <1>1, <1>2 DEF StoreInv, StoreTypeOK
<1>4. Resolves(doc)'
  BY DEF StoreInv, Resolves
<1>5. ASSUME NEW u \in Threads PROVE WriterHolds(u)'
  <2>1. CASE u = t
    <3>1. work'[u] = a
      BY <1>1, <2>1
    <3> QED
      BY <3>1 DEF WriterHolds
  <2>2. CASE u # t
    <3>1. work'[u] = work[u]
      BY <1>1, <2>2
    <3>2. WriterHolds(u)
      BY DEF StoreInv
    <3> QED
      BY <1>2, <2>2, <3>1, <3>2 DEF WriterHolds, KeepsOthers, ShowsSame, Listing, SetPaths, VersionOf, Agrees, Resolves
  <2> QED
    BY <2>1, <2>2
<1> QED
  BY <1>3, <1>4, <1>5 DEF StoreInv

LEMMA AnswerGoes ==
    ASSUME StoreInv, NEW t \in Threads, NEW e \in Events, Answer(t, e), UNCHANGED holder \/ Unlock(t),
           UNCHANGED <<doc, seen, key, fresh, profiles>>
    PROVE  StoreInv'
<1> DEFINE a == [Idle EXCEPT !.pc = "answering", !.event = e]
<1>1. a \in Requests /\ a.pc = "answering"
  BY DEF Idle, Requests
<1>2. work' = [work EXCEPT ![t] = a]
  BY DEF Answer
<1>3. fresh' \in Nat /\ profiles' \in [Profiles -> Nat]
  BY DEF StoreInv, StoreTypeOK
<1> HIDE DEF a
<1> QED
  BY <1>1, <1>2, <1>3, ThreadGoes

LEMMA LockStoreStep ==
    ASSUME StoreInv, NEW t \in Threads, NEW p \in Paths, NEW op \in Operations, LockStore(t, op, p)
    PROVE  StoreInv'
<1> DEFINE w == AskedWrite(t, op, p)
<1>0. /\ work[t].pc = "idle" /\ holder = Nobody /\ UNCHANGED <<doc, seen, key, profiles>>
      /\ work \in [Threads -> Requests] /\ doc \in Documents /\ Resolves(doc) /\ key \in Nat /\ fresh \in Nat
  BY DEF LockStore, StoreInv, StoreTypeOK
<1>1. CASE Refused(doc, w)
  <2>1. Answer(t, "none") /\ UNCHANGED <<holder, fresh>> /\ "none" \in Events
    BY <1>1 DEF LockStore, Events
  <2> QED
    BY <1>0, <2>1, AnswerGoes
<1>2. CASE ~Refused(doc, w)
  <2> DEFINE c == Changed(doc, w, fresh + 1)
             a == [w EXCEPT !.pc = "writing", !.copy = c]
  <2>1. fresh' = fresh + 1 /\ holder' = t /\ work' = [work EXCEPT ![t] = a]
    BY <1>2 DEF LockStore, Fresh
  <2>2. w \in Requests /\ w.op = op /\ w.path = p /\ w.event = "none"
    <3> DEFINE n == CASE op \in {"info", "infogone"} -> seen[t].info
                      [] op = "genkey" -> seen[t].generated
                      [] OTHER -> seen[t].secret
               k == IF op = "pubkey" THEN seen[t].pub ELSE 0
    <3>1. n \in Nat /\ k \in Nat
      BY DEF StoreInv, StoreTypeOK
    <3>2. w = [Idle EXCEPT !.op = op, !.path = p, !.previous = k, !.expected = n]
      BY DEF AskedWrite
    <3> HIDE DEF n, k, w
    <3> QED
      BY <3>1, <3>2 DEF Idle, Requests, Events
  <2>3. fresh + 1 \in Nat /\ fresh' \in Nat
    BY <1>0, <2>1
  <2>4. Conditional(op) => Agrees(doc, w)
    BY <1>2, <2>2 DEF Refused
  <2> HIDE DEF w
  <2>5. c \in Documents /\ Resolves(c) /\ KeepsOthers(doc, c, w) /\ ShowsSame(doc, c, w)
    BY <1>0, <1>2, <2>2, <2>3, ChangedKeeps
  <2> HIDE DEF c
  <2>6. /\ a \in Requests /\ a.op = op /\ a.path = p /\ a.copy = c /\ a.pc = "writing"
        /\ a.event = "none" /\ a.expected = w.expected /\ a.previous = w.previous
    BY <2>2, <2>5 DEF Requests
  <2> HIDE DEF a
  <2>7. StoreTypeOK'
    BY <1>0, <2>1, <2>3, <2>6 DEF StoreInv, StoreTypeOK
  <2>8. Resolves(doc)'
    BY <1>0 DEF Resolves
  <2>9. ASSUME NEW u \in Threads PROVE WriterHolds(u)'
    <3>1. CASE u = t
      <4>1. work'[u] = a /\ holder' = u
        BY <1>0, <2>1, <3>1
      <4>2. KeepsOthers(doc', a.copy, a) /\ ShowsSame(doc', a.copy, a)
        BY <1>0, <2>2, <2>5, <2>6 DEF KeepsOthers, ShowsSame
      <4>3. Conditional(a.op) => Agrees(doc', a)
        BY <1>0, <2>2, <2>4, <2>6 DEF VersionOf, Agrees
      <4> QED
        BY <2>5, <2>6, <4>1, <4>2, <4>3 DEF WriterHolds
    <3>2. CASE u # t
      <4>1. work'[u] = work[u] /\ work[u].pc \notin {"writing", "renamed"}
        BY <1>0, <2>1, <3>2, ThreadNamed DEF StoreInv, WriterHolds
      <4>2. WriterHolds(u)
        BY DEF StoreInv
      <4> QED
        BY <4>1, <4>2 DEF WriterHolds
    <3> QED
      BY <3>1, <3>2
  <2> QED
    BY <2>7, <2>8, <2>9 DEF StoreInv
<1> QED
  BY <1>1, <1>2

LEMMA WriteDocumentStep ==
    ASSUME StoreInv, NEW t \in Threads, WriteDocument(t)
    PROVE  StoreInv'
<1>0. /\ work[t].pc = "writing" /\ doc' = work[t].copy /\ work' = [work EXCEPT ![t].pc = "renamed"]
      /\ UNCHANGED <<holder, seen, fresh, key, profiles>>
      /\ work \in [Threads -> Requests] /\ WriterHolds(t) /\ work[t] \in Requests
  BY DEF WriteDocument, StoreInv, StoreTypeOK
<1>1. holder = t /\ doc' \in Documents /\ Resolves(doc)' /\ work[t].op \in Operations /\ work[t].event = "none"
  BY <1>0 DEF WriterHolds, Resolves
<1>2. StoreTypeOK'
  BY <1>0, <1>1 DEF StoreInv, StoreTypeOK, Requests
<1>3. ASSUME NEW u \in Threads PROVE WriterHolds(u)'
  <2>1. CASE u = t
    <3>1. work'[u].pc = "renamed" /\ work'[u].op = work[t].op /\ work'[u].event = work[t].event
      BY <1>0, <2>1 DEF Requests
    <3> QED
      BY <1>0, <1>1, <2>1, <3>1 DEF WriterHolds
  <2>2. CASE u # t
    <3>1. work'[u] = work[u] /\ work[u].pc \notin {"writing", "renamed"}
      BY <1>0, <1>1, <2>2 DEF StoreInv, WriterHolds
    <3>2. WriterHolds(u)
      BY DEF StoreInv
    <3> QED
      BY <3>1, <3>2 DEF WriterHolds
  <2> QED
    BY <2>1, <2>2
<1> QED
  BY <1>1, <1>2, <1>3 DEF StoreInv

LEMMA StoreSteps == StoreInv /\ [StoreNext]_storeVars => StoreInv'
<1> SUFFICES ASSUME StoreInv, [StoreNext]_storeVars PROVE StoreInv'
  OBVIOUS
<1>0. /\ fresh \in Nat /\ key \in Nat /\ profiles \in [Profiles -> Nat] /\ doc \in Documents
      /\ seen \in [Threads -> [secret : Nat, pub : Nat, info : Nat, generated : Nat, profiles : [Profiles -> Nat]]]
  BY DEF StoreInv, StoreTypeOK
<1>1. ASSUME NEW t \in Threads, NEW p \in Paths, ReadStore(t, p) PROVE StoreInv'
  <2>1. doc.secrets[p].v \in Nat /\ doc.secrets[p].pub \in Nat /\ doc.info \in Nat /\ doc.generated \in Nat
    BY <1>0 DEF Documents, Records
  <2>2. seen' \in [Threads -> [secret : Nat, pub : Nat, info : Nat, generated : Nat, profiles : [Profiles -> Nat]]]
    BY <1>0, <1>1, <2>1 DEF ReadStore
  <2> QED
    BY <1>0, <1>1, <2>2, NothingWritten DEF ReadStore
<1>2. ASSUME NEW t \in Threads, NEW p \in Paths, NEW op \in Operations, LockStore(t, op, p) PROVE StoreInv'
  BY <1>2, LockStoreStep
<1>3. ASSUME NEW t \in Threads, WriteDocument(t) PROVE StoreInv'
  BY <1>3, WriteDocumentStep
<1>4. ASSUME NEW t \in Threads, FinishWrite(t) PROVE StoreInv'
  BY <1>4, EventsAre, AnswerGoes DEF FinishWrite
<1>5. ASSUME NEW t \in Threads, FailWrite(t) PROVE StoreInv'
  <2>1. "none" \in Events
    BY DEF Events
  <2> QED
    BY <1>5, <2>1, AnswerGoes DEF FailWrite
<1>6. ASSUME NEW t \in Threads, NEW n \in Profiles, NEW op \in {"save", "delete"}, ChangeProfile(t, n, op)
      PROVE  StoreInv'
  <2> DEFINE e == IF Readable(profiles') THEN EventAfter(op) ELSE "none"
             a == [Idle EXCEPT !.pc = "answering", !.op = op, !.event = e]
  <2>1. /\ work' = [work EXCEPT ![t] = a] /\ fresh' = fresh + 1 /\ UNCHANGED <<doc, holder, seen, key>>
        /\ profiles' = [profiles EXCEPT ![n] = IF op = "save" THEN fresh + 1 ELSE 0]
    BY <1>6 DEF ChangeProfile, Fresh
  <2>2. fresh' \in Nat /\ profiles' \in [Profiles -> Nat]
    BY <1>0, <2>1
  <2>3. e \in Events
    BY EventsAre DEF Events
  <2> HIDE DEF e
  <2>4. a \in Requests /\ a.pc = "answering"
    BY <2>3 DEF Idle, Requests
  <2> HIDE DEF a
  <2> QED
    BY <2>1, <2>2, <2>4, ThreadGoes
<1>7. ASSUME NEW t \in Threads, Respond(t) PROVE StoreInv'
  BY <1>0, <1>7, IdleIsRequest, ThreadGoes DEF Respond
<1>8. ASSUME NEW t \in Threads, Submit(t) PROVE StoreInv'
  <2> DEFINE a == [Idle EXCEPT !.pc = "answering", !.op = "submit", !.event = EventAfter("submit")]
  <2>1. work' = [work EXCEPT ![t] = a] /\ fresh' = fresh + 1 /\ UNCHANGED <<doc, holder, seen, key, profiles>>
    BY <1>8 DEF Submit, Fresh
  <2>2. a \in Requests /\ a.pc = "answering"
    BY EventsAre DEF Idle, Requests
  <2>3. fresh' \in Nat /\ profiles' \in [Profiles -> Nat]
    BY <1>0, <2>1
  <2> HIDE DEF a
  <2> QED
    BY <2>1, <2>2, <2>3, ThreadGoes
<1>9. ASSUME ReplaceKey PROVE StoreInv'
  BY <1>0, <1>9, NothingWritten DEF ReplaceKey
<1>10. ASSUME RestartBackend PROVE StoreInv'
  <2>1. StoreTypeOK'
    BY <1>10, IdleIsRequest DEF RestartBackend, StoreInv, StoreTypeOK
  <2>2. Resolves(doc)'
    BY <1>10 DEF RestartBackend, StoreInv, Resolves
  <2>3. \A t \in Threads : WriterHolds(t)'
    BY <1>10, IdleIsRequest DEF RestartBackend, WriterHolds
  <2> QED
    BY <2>1, <2>2, <2>3 DEF StoreInv
<1>11. ASSUME Subscribe \/ ListSecrets \/ ListInfo \/ ListProfiles \/ TakeEvent \/ Disconnected
       PROVE  StoreInv'
  BY <1>0, <1>11, NothingWritten
     DEF Subscribe, ListSecrets, ListInfo, ListProfiles, TakeEvent, Disconnected
<1>12. CASE UNCHANGED storeVars
  BY <1>0, <1>12, NothingWritten DEF storeVars
<1> QED
  BY <1>1, <1>2, <1>3, <1>4, <1>5, <1>6, <1>7, <1>8, <1>9, <1>10, <1>11, <1>12 DEF StoreNext

LEMMA StoreHolds == StoreSpec => []StoreInv
BY StoreInitially, StoreSteps, PTL DEF StoreSpec

\* A stored record always resolves to the recipient it was encrypted for (set_checked
\* and hydrate_record), for any number of secrets, writers and replaced keys.
THEOREM StoreRecipientsSurvive == StoreSpec => []RecipientsSurvive
<1>1. StoreInv => RecipientsSurvive
  BY DEF StoreInv, Resolves, RecipientsSurvive, SetPaths, Hydrated
<1> QED
  BY StoreHolds, <1>1, PTL

\* The one step that renames a thread's document into place is its own.
LEMMA OnlyWriteRenames ==
    ASSUME StoreInv, [StoreNext]_storeVars, NEW t \in Threads,
           work[t].pc = "writing", work'[t].pc = "renamed"
    PROVE  WriteDocument(t)
<1>0. work \in [Threads -> Requests] /\ work'[t] # work[t] /\ Idle.pc = "idle"
  BY IdleIsRequest DEF StoreInv, StoreTypeOK
<1>1. \A u \in Threads : WriteDocument(u) => u = t
  BY <1>0 DEF WriteDocument
<1>2. \A u \in Threads : ~FinishWrite(u) /\ ~FailWrite(u) /\ ~Respond(u) /\ ~Submit(u)
  <2> SUFFICES ASSUME NEW u \in Threads, NEW a, work' = [work EXCEPT ![u] = a], a.pc \in {"idle", "answering"}
               PROVE  FALSE
    <3>1. \A e : [Idle EXCEPT !.pc = "answering", !.event = e].pc = "answering"
      BY DEF Idle
    <3>2. [Idle EXCEPT !.pc = "answering", !.op = "submit", !.event = EventAfter("submit")].pc = "answering"
      BY DEF Idle
    <3> QED
      BY <1>0, <3>1, <3>2 DEF FinishWrite, FailWrite, Respond, Submit, Answer
  <2> QED
    BY <1>0
<1>3. \A u \in Threads, p \in Paths : ~ReadStore(u, p)
  BY <1>0 DEF ReadStore
<1>4. \A u \in Threads, p \in Paths, op \in Operations : ~LockStore(u, op, p)
  <2> SUFFICES ASSUME NEW u \in Threads, NEW p \in Paths, NEW op \in Operations, LockStore(u, op, p)
               PROVE  FALSE
    OBVIOUS
  <2>1. holder = t /\ holder = Nobody
    BY DEF LockStore, StoreInv, WriterHolds
  <2> QED
    BY <2>1, ThreadNamed
<1>5. \A u \in Threads, n \in Profiles, op \in {"save", "delete"} : ~ChangeProfile(u, n, op)
  <2> SUFFICES ASSUME NEW u \in Threads, NEW n \in Profiles, NEW op \in {"save", "delete"},
                      ChangeProfile(u, n, op)
               PROVE  FALSE
    OBVIOUS
  <2>1. u # t
    BY DEF ChangeProfile
  <2>2. work'[t] = work[t]
    BY <1>0, <2>1 DEF ChangeProfile
  <2> QED
    BY <1>0, <2>2
<1>6. ~ReplaceKey /\ ~RestartBackend
  BY <1>0 DEF ReplaceKey, RestartBackend
<1>7. ~Subscribe /\ ~ListSecrets /\ ~ListInfo /\ ~ListProfiles /\ ~TakeEvent /\ ~Disconnected
  BY <1>0 DEF Subscribe, ListSecrets, ListInfo, ListProfiles, TakeEvent, Disconnected
<1> QED
  BY <1>0, <1>1, <1>2, <1>3, <1>4, <1>5, <1>6, <1>7 DEF StoreNext, storeVars

\* Rewriting the whole file loses nobody else's change, and a conditional request
\* replaces the version its client read (with_lock, set_checked), for any number of
\* threads and secrets.
THEOREM StoreWritesKeepOthers == StoreSpec => WritesKeepOthers
<1> DEFINE Keeps == \A t \in Threads : (work[t].pc = "writing" /\ work'[t].pc = "renamed") =>
             LET w == work[t] IN
             /\ Conditional(w.op) => Agrees(doc, w)
             /\ \A p \in Paths : p # w.path => doc'.secrets[p] = doc.secrets[p]
             /\ w.op \notin {"info", "infogone"} => doc'.info = doc.info
             /\ w.op # "genkey" => doc'.generated = doc.generated
             /\ w.op \notin {"quarantine", "unquarantine"} => doc'.quarantine = doc.quarantine
<1>1. StoreInv /\ [StoreNext]_storeVars => [Keeps]_storeVars
  <2> SUFFICES ASSUME StoreInv, [StoreNext]_storeVars, NEW t \in Threads,
                      work[t].pc = "writing", work'[t].pc = "renamed"
               PROVE  /\ Conditional(work[t].op) => Agrees(doc, work[t])
                      /\ KeepsOthers(doc, doc', work[t])
    BY DEF KeepsOthers
  <2>1. doc' = work[t].copy
    BY OnlyWriteRenames DEF WriteDocument
  <2> QED
    BY <2>1 DEF StoreInv, WriterHolds
<1> QED
  BY StoreHolds, <1>1, PTL DEF StoreSpec, WritesKeepOthers

-----------------------------------------------------------------------------
(***************************************************************************)
(* The feed.                                                               *)
(***************************************************************************)
FeedTypeOK ==
    /\ shown \in [Profiles -> Nat] /\ subscribed \in BOOLEAN /\ silent \in BOOLEAN
    /\ queue \in Seq(Events) /\ listener \in ListenerPlaces
    /\ rows \in [secrets : SUBSET Paths, info : BOOLEAN]

\* A thread that has made a change and is going to announce it.
Owes(w, E) == w.event \in E \/ (w.pc = "renamed" /\ EventAfter(w.op) \in E)
Announced(E) == Range(queue) \cap E # {} \/ \E t \in Threads : Owes(work[t], E)

\* What the TUI does not show yet is listed next, or is announced.
SecretsComing == rows.secrets # SetPaths(doc) =>
                    listener \in {"off", "secrets", "secrets again"} \/ Announced(Relists)
InfoComing == rows.info # (doc.info # 0) =>
                 listener \in {"off", "secrets", "secrets again", "info", "info again"} \/ Announced(Relists)
ProfilesComing == shown # profiles =>
                     listener \in {"off", "secrets", "info", "profiles"} \/ Announced({"profiles"})

FeedInv == FeedTypeOK /\ (subscribed /\ ~silent => SecretsComing /\ InfoComing /\ ProfilesComing)

\* Publishing adds to the set of queued events, taking one removes at most it.
LEMMA QueueAppends ==
    ASSUME NEW q \in Seq(Events), NEW e \in Events
    PROVE  Append(q, e) \in Seq(Events) /\ Range(q) \union {e} \subseteq Range(Append(q, e))
<1>1. \A i \in 1..Len(q) : i \in 1..Len(Append(q, e)) /\ Append(q, e)[i] = q[i]
  OBVIOUS
<1>2. Len(q) + 1 \in 1..Len(Append(q, e)) /\ Append(q, e)[Len(q) + 1] = e
  OBVIOUS
<1>3. DOMAIN q = 1..Len(q) /\ DOMAIN Append(q, e) = 1..Len(Append(q, e)) /\ Append(q, e) \in Seq(Events)
  OBVIOUS
<1> QED
  BY <1>1, <1>2, <1>3 DEF Range

LEMMA QueueTakes ==
    ASSUME NEW q \in Seq(Events), q # <<>>
    PROVE  Head(q) \in Events /\ Tail(q) \in Seq(Events) /\ Range(q) \subseteq {Head(q)} \union Range(Tail(q))
<1>1. Len(q) \in Nat \ {0} /\ Head(q) = q[1] /\ Len(Tail(q)) = Len(q) - 1 /\ Tail(q) \in Seq(Events)
  OBVIOUS
<1>2. DOMAIN q = 1..Len(q) /\ DOMAIN Tail(q) = 1..(Len(q) - 1) /\ \A j \in 1..(Len(q) - 1) : Tail(q)[j] = q[j + 1]
  OBVIOUS
<1>3. ASSUME NEW x \in Range(q) PROVE x \in {Head(q)} \union Range(Tail(q))
  <2>1. PICK i \in 1..Len(q) : x = q[i]
    BY <1>2 DEF Range
  <2>2. CASE i = 1
    BY <1>1, <2>1, <2>2
  <2>3. CASE i # 1
    <3>1. i - 1 \in 1..(Len(q) - 1) /\ (i - 1) + 1 = i
      BY <1>1, <2>1, <2>3
    <3>2. Tail(q)[i - 1] = x
      BY <1>2, <2>1, <3>1
    <3> QED
      BY <1>2, <3>1, <3>2 DEF Range
  <2> QED
    BY <2>2, <2>3
<1>4. Head(q) \in Events
  BY <1>1
<1> QED
  BY <1>1, <1>3, <1>4

\* A thread that owed no announcement, or still does, moves on.
LEMMA StillAnnounced ==
    ASSUME StoreInv, NEW t \in Threads, NEW a, work' = [work EXCEPT ![t] = a], UNCHANGED queue,
           NEW E, Owes(work[t], E) => Owes(a, E), Announced(E)
    PROVE  Announced(E)'
<1>1. work \in [Threads -> Requests]
  BY DEF StoreInv, StoreTypeOK
<1>2. CASE Range(queue) \cap E # {}
  BY <1>2 DEF Announced
<1>3. CASE \E u \in Threads : Owes(work[u], E)
  <2>1. PICK u \in Threads : Owes(work[u], E)
    BY <1>3
  <2>2. CASE u = t
    <3>1. work'[t] = a /\ Owes(a, E)
      BY <1>1, <2>1, <2>2
    <3> QED
      BY <3>1 DEF Announced, Owes
  <2>3. CASE u # t
    <3>1. work'[u] = work[u]
      BY <1>1, <2>3
    <3> QED
      BY <2>1, <3>1 DEF Announced, Owes
  <2> QED
    BY <2>2, <2>3
<1> QED
  BY <1>2, <1>3 DEF Announced

\* A step of a thread that neither changes what is shown nor drops an announcement.
LEMMA FeedUntouched ==
    ASSUME FeedInv, UNCHANGED <<subscribed, silent, queue, listener, rows, shown, profiles>>,
           subscribed /\ ~silent => /\ Listing(doc)' = Listing(doc)
                                   /\ \A E \in {Relists, {"profiles"}} : Announced(E) => Announced(E)'
    PROVE  FeedInv'
<1>1. FeedTypeOK'
  BY DEF FeedInv, FeedTypeOK
<1>2. ASSUME subscribed, ~silent PROVE SecretsComing' /\ InfoComing' /\ ProfilesComing'
  <2>1. SetPaths(doc)' = SetPaths(doc) /\ (doc'.info # 0) = (doc.info # 0)
    BY <1>2 DEF Listing
  <2>2. /\ Announced(Relists) => Announced(Relists)'
        /\ Announced({"profiles"}) => Announced({"profiles"})'
    BY <1>2
  <2> QED
    BY <1>2, <2>1, <2>2 DEF FeedInv, SecretsComing, InfoComing, ProfilesComing
<1> QED
  BY <1>1, <1>2 DEF FeedInv

\* "none" is no announcement, and an idle thread owes none.
LEMMA NoneOwed ==
    ASSUME StoreInv, NEW E \in {Relists, {"profiles"}}
    PROVE  /\ "none" \notin E
           /\ \A t \in Threads : work[t].pc \in {"idle", "writing"} => ~Owes(work[t], E)
BY DEF StoreInv, WriterHolds, Owes, Relists

LEMMA ThreadFeedSteps ==
    ASSUME StoreInv, FeedInv, NEW t \in Threads,
           \/ WriteDocument(t) \/ FinishWrite(t) \/ FailWrite(t) \/ Submit(t)
           \/ \E p \in Paths, op \in Operations : LockStore(t, op, p)
    PROVE  FeedInv'
<1>0. work \in [Threads -> Requests] /\ WriterHolds(t) /\ work[t] \in Requests
  BY DEF StoreInv, StoreTypeOK
<1>1. CASE WriteDocument(t)
  <2> DEFINE a == [work[t] EXCEPT !.pc = "renamed"]
             w == work[t]
  <2>1. /\ work' = [work EXCEPT ![t] = a] /\ doc' = w.copy /\ w.pc = "writing"
        /\ UNCHANGED <<subscribed, silent, queue, listener, rows, shown, profiles>>
    BY <1>0, <1>1 DEF WriteDocument
  <2>2. \A E \in {Relists, {"profiles"}} : Announced(E) => Announced(E)'
    BY <2>1, NoneOwed, StillAnnounced
  <2>3. a.pc = "renamed" /\ a.op = w.op /\ a.event = w.event
    BY <1>0 DEF Requests
  <2>4. CASE EventAfter(w.op) \in Relists
    <3>1. Announced(Relists)'
      <4>1. work'[t] = a /\ Owes(a, Relists)
        BY <1>0, <2>1, <2>3, <2>4 DEF Owes
      <4> HIDE DEF a
      <4> QED
        BY <4>1 DEF Announced, Owes
    <3>2. FeedTypeOK'
      BY <2>1 DEF FeedInv, FeedTypeOK
    <3>3. subscribed /\ ~silent => ProfilesComing'
      BY <2>1, <2>2 DEF FeedInv, ProfilesComing
    <3> QED
      BY <2>1, <3>1, <3>2, <3>3 DEF FeedInv, SecretsComing, InfoComing
  <2>5. CASE EventAfter(w.op) \notin Relists
    <3>1. Listing(doc)' = Listing(doc)
      BY <1>0, <2>1, <2>5 DEF WriterHolds, ShowsSame, Listing, SetPaths
    <3> QED
      BY <2>1, <2>2, <3>1, FeedUntouched
  <2> QED
    BY <2>4, <2>5
<1>2. CASE FinishWrite(t)
  <2> DEFINE a == [Idle EXCEPT !.pc = "answering", !.event = EventAfter(work[t].op)]
  <2>1. /\ work' = [work EXCEPT ![t] = a] /\ work[t].pc = "renamed" /\ UNCHANGED doc
        /\ UNCHANGED <<subscribed, silent, queue, listener, rows, shown, profiles>>
    BY <1>2 DEF FinishWrite, Answer
  <2>2. a.event = EventAfter(work[t].op)
    BY DEF Idle
  <2>3. \A E \in {Relists, {"profiles"}} : Owes(work[t], E) => Owes(a, E)
    BY <1>0, <2>1, <2>2, NoneOwed DEF Owes, WriterHolds
  <2> HIDE DEF a
  <2>4. \A E \in {Relists, {"profiles"}} : Announced(E) => Announced(E)'
    BY <2>1, <2>3, StillAnnounced
  <2>5. Listing(doc)' = Listing(doc)
    BY <2>1 DEF Listing, SetPaths
  <2> QED
    BY <2>1, <2>4, <2>5, FeedUntouched
<1>3. CASE FailWrite(t)
  <2>1. /\ work[t].pc \in {"writing", "renamed"} /\ UNCHANGED doc
        /\ \E a : work' = [work EXCEPT ![t] = a]
        /\ silent' = (silent \/ work[t].pc = "renamed")
        /\ UNCHANGED <<subscribed, queue, listener, rows, shown, profiles>>
    BY <1>3 DEF FailWrite, Answer
  <2>2. CASE work[t].pc = "renamed"
    BY <2>1, <2>2 DEF FeedInv, FeedTypeOK
  <2>3. CASE work[t].pc = "writing"
    <3>1. \A E \in {Relists, {"profiles"}} : Announced(E) => Announced(E)'
      BY <2>1, <2>3, NoneOwed, StillAnnounced
    <3>2. Listing(doc)' = Listing(doc) /\ UNCHANGED silent
      BY <2>1, <2>3 DEF Listing, SetPaths, FeedInv, FeedTypeOK
    <3> QED
      BY <2>1, <3>1, <3>2, FeedUntouched
  <2> QED
    BY <2>1, <2>2, <2>3
<1>4. ASSUME Submit(t) \/ \E p \in Paths, op \in Operations : LockStore(t, op, p) PROVE FeedInv'
  <2>1. /\ work[t].pc = "idle" /\ UNCHANGED doc
        /\ \E a : work' = [work EXCEPT ![t] = a]
        /\ UNCHANGED <<subscribed, silent, queue, listener, rows, shown, profiles>>
    <3>1. CASE Submit(t)
      BY <3>1 DEF Submit
    <3>2. ASSUME NEW p \in Paths, NEW op \in Operations, LockStore(t, op, p)
          PROVE  \E a : work' = [work EXCEPT ![t] = a]
      BY <3>2, Zenon DEF LockStore, Answer
    <3> QED
      BY <1>4, <3>1, <3>2 DEF LockStore
  <2>2. \A E \in {Relists, {"profiles"}} : Announced(E) => Announced(E)'
    BY <2>1, NoneOwed, StillAnnounced
  <2>3. Listing(doc)' = Listing(doc)
    BY <2>1 DEF Listing, SetPaths
  <2> QED
    BY <2>1, <2>2, <2>3, FeedUntouched
<1> QED
  BY <1>1, <1>2, <1>3, <1>4

LEMMA ChangeProfileFeed ==
    ASSUME StoreInv, FeedInv, NEW t \in Threads, NEW n \in Profiles, NEW op \in {"save", "delete"},
           ChangeProfile(t, n, op)
    PROVE  FeedInv'
<1> DEFINE e == IF Readable(profiles') THEN EventAfter(op) ELSE "none"
           a == [Idle EXCEPT !.pc = "answering", !.op = op, !.event = e]
<1>1. /\ work' = [work EXCEPT ![t] = a] /\ work[t].pc = "idle" /\ silent' = (silent \/ ~Readable(profiles'))
      /\ UNCHANGED <<doc, subscribed, queue, listener, rows, shown>>
  BY DEF ChangeProfile
<1>2. FeedTypeOK'
  <2>1. silent' \in BOOLEAN
    BY <1>1
  <2> QED
    BY <1>1, <2>1 DEF FeedInv, FeedTypeOK
<1>3. CASE ~Readable(profiles')
  BY <1>1, <1>2, <1>3 DEF FeedInv
<1>4. CASE Readable(profiles')
  <2>1. a.event = "profiles"
    BY <1>4 DEF Idle, EventAfter
  <2>2. work'[t] = a
    BY <1>1 DEF StoreInv, StoreTypeOK
  <2> HIDE DEF a
  <2>3. Announced({"profiles"})'
    BY <2>1, <2>2 DEF Announced, Owes
  <2>4. Announced(Relists) => Announced(Relists)'
    BY <1>1, NoneOwed, StillAnnounced
  <2>5. SetPaths(doc)' = SetPaths(doc)
    BY <1>1 DEF SetPaths
  <2>6. silent' = silent
    BY <1>1, <1>4 DEF FeedInv, FeedTypeOK
  <2> QED
    BY <1>1, <1>2, <2>3, <2>4, <2>5, <2>6 DEF FeedInv, SecretsComing, InfoComing, ProfilesComing
<1> QED
  BY <1>3, <1>4

LEMMA RespondFeed ==
    ASSUME StoreInv, FeedInv, NEW t \in Threads, Respond(t)
    PROVE  FeedInv'
<1> DEFINE e == work[t].event
<1>0. /\ work[t].pc = "answering" /\ work' = [work EXCEPT ![t] = Idle]
      /\ UNCHANGED <<doc, profiles, listener, rows, shown, silent>>
      /\ work \in [Threads -> Requests] /\ e \in Events /\ queue \in Seq(Events) /\ subscribed \in BOOLEAN
  BY DEF Respond, StoreInv, StoreTypeOK, FeedInv, FeedTypeOK, Requests
<1>1. SetPaths(doc)' = SetPaths(doc)
  BY <1>0 DEF SetPaths
<1>2. CASE e = "none"
  <2>1. UNCHANGED <<queue, subscribed>>
    BY <1>2 DEF Respond
  <2>2. \A E \in {Relists, {"profiles"}} : ~Owes(work[t], E)
    BY <1>0, <1>2, NoneOwed DEF Owes
  <2>3. \A E \in {Relists, {"profiles"}} : Announced(E) => Announced(E)'
    BY <1>0, <2>1, <2>2, StillAnnounced
  <2>4. Listing(doc)' = Listing(doc)
    BY <1>0, <1>1 DEF Listing
  <2> QED
    BY <1>0, <2>1, <2>3, <2>4, FeedUntouched
<1>3. CASE e # "none"
  <2>1. /\ queue' = IF subscribed /\ Len(queue) < FeedLimit THEN Append(queue, e) ELSE queue
        /\ subscribed' = (subscribed /\ Len(queue) < FeedLimit)
    BY <1>3 DEF Respond, Publish
  <2>2. queue' \in Seq(Events) /\ subscribed' \in BOOLEAN
    BY <1>0, <2>1, QueueAppends
  <2>3. FeedTypeOK'
    BY <1>0, <2>2 DEF FeedInv, FeedTypeOK
  <2>4. ASSUME subscribed', NEW E, Announced(E) PROVE Announced(E)'
    <3>1. Range(queue) \union {e} \subseteq Range(queue')
      BY <1>0, <2>1, <2>4, QueueAppends
    <3>2. CASE Range(queue) \cap E # {}
      BY <3>1, <3>2 DEF Announced
    <3>3. CASE Owes(work[t], E)
      <4>1. e \in E
        BY <1>0, <3>3 DEF Owes
      <4> QED
        BY <3>1, <4>1 DEF Announced
    <3>4. CASE \E u \in Threads \ {t} : Owes(work[u], E)
      <4>1. PICK u \in Threads \ {t} : Owes(work[u], E)
        BY <3>4
      <4>2. work'[u] = work[u]
        BY <1>0, <4>1
      <4> QED
        BY <4>1, <4>2 DEF Announced, Owes
    <3> QED
      BY <2>4, <3>2, <3>3, <3>4 DEF Announced
  <2>5. /\ subscribed' /\ Announced(Relists) => Announced(Relists)'
        /\ subscribed' /\ Announced({"profiles"}) => Announced({"profiles"})'
    BY <2>4
  <2>6. subscribed' => subscribed
    BY <2>1
  <2> QED
    BY <1>0, <1>1, <2>3, <2>5, <2>6 DEF FeedInv, SecretsComing, InfoComing, ProfilesComing
<1> QED
  BY <1>2, <1>3

LEMMA ListenerFeedSteps ==
    ASSUME StoreInv, FeedInv,
           Subscribe \/ ListSecrets \/ ListInfo \/ ListProfiles \/ TakeEvent \/ Disconnected
    PROVE  FeedInv'
<1>0. UNCHANGED <<doc, work, profiles>> /\ SetPaths(doc)' = SetPaths(doc) /\ SetPaths(doc) \subseteq Paths
  BY DEF Subscribe, ListSecrets, ListInfo, ListProfiles, TakeEvent, Disconnected, SetPaths
<1>1. ASSUME UNCHANGED queue, NEW E PROVE Announced(E)' = Announced(E)
  BY <1>0, <1>1 DEF Announced, Owes
<1>2. CASE Subscribe
  <2>1. /\ listener' = "secrets" /\ subscribed' = TRUE /\ queue' = <<>> /\ silent' = FALSE
        /\ UNCHANGED <<rows, shown>>
    BY <1>2 DEF Subscribe
  <2>2. <<>> \in Seq(Events)
    OBVIOUS
  <2>3. FeedTypeOK'
    BY <2>1, <2>2 DEF FeedInv, FeedTypeOK, ListenerPlaces
  <2> QED
    BY <2>1, <2>3 DEF FeedInv, SecretsComing, InfoComing, ProfilesComing
<1>3. CASE ListSecrets
  <2>1. /\ listener \in {"secrets", "secrets again"} /\ UNCHANGED <<subscribed, queue, shown, silent>>
        /\ listener' = IF listener = "secrets" THEN "info" ELSE "info again"
        /\ rows' = [rows EXCEPT !.secrets = SetPaths(doc)]
    BY <1>3 DEF ListSecrets
  <2>2. rows' \in [secrets : SUBSET Paths, info : BOOLEAN] /\ rows'.secrets = SetPaths(doc)
    BY <1>0, <2>1 DEF FeedInv, FeedTypeOK
  <2>3. FeedTypeOK'
    BY <2>1, <2>2 DEF FeedInv, FeedTypeOK, ListenerPlaces
  <2>4. Announced({"profiles"})' = Announced({"profiles"})
    BY <1>1, <2>1
  <2> QED
    BY <1>0, <2>1, <2>2, <2>3, <2>4 DEF FeedInv, SecretsComing, InfoComing, ProfilesComing
<1>4. CASE ListInfo
  <2>1. /\ listener \in {"info", "info again"} /\ UNCHANGED <<subscribed, queue, shown, silent>>
        /\ listener' = IF listener = "info" THEN "profiles" ELSE "listening"
        /\ rows' = [rows EXCEPT !.info = (doc.info # 0)]
    BY <1>4 DEF ListInfo
  <2>2. /\ rows' \in [secrets : SUBSET Paths, info : BOOLEAN] /\ rows'.secrets = rows.secrets
        /\ rows'.info = (doc.info # 0)
    BY <2>1 DEF FeedInv, FeedTypeOK
  <2>3. FeedTypeOK'
    BY <2>1, <2>2 DEF FeedInv, FeedTypeOK, ListenerPlaces
  <2>4. Announced({"profiles"})' = Announced({"profiles"}) /\ Announced(Relists)' = Announced(Relists)
    BY <1>1, <2>1
  <2> QED
    BY <1>0, <2>1, <2>2, <2>3, <2>4 DEF FeedInv, SecretsComing, InfoComing, ProfilesComing
<1>5. CASE ListProfiles
  <2>1. /\ listener = "profiles" /\ UNCHANGED <<subscribed, queue, rows, silent>>
        /\ \/ shown' = profiles /\ listener' = "listening"
           \/ listener' = "off" /\ UNCHANGED shown
    BY <1>5 DEF ListProfiles
  <2>2. FeedTypeOK'
    BY <2>1 DEF FeedInv, FeedTypeOK, ListenerPlaces, StoreInv, StoreTypeOK
  <2>3. Announced(Relists)' = Announced(Relists)
    BY <1>1, <2>1
  <2> QED
    BY <1>0, <2>1, <2>2, <2>3 DEF FeedInv, SecretsComing, InfoComing, ProfilesComing
<1>6. CASE TakeEvent
  <2>1. /\ listener = "listening" /\ queue # <<>> /\ queue' = Tail(queue)
        /\ listener' = CASE Head(queue) \in {"secret", "info"} -> "secrets again"
                         [] Head(queue) = "profiles" -> "profiles"
                         [] OTHER -> "listening"
        /\ UNCHANGED <<subscribed, rows, shown, silent>>
    BY <1>6 DEF TakeEvent
  <2>2. /\ Head(queue) \in Events /\ queue' \in Seq(Events)
        /\ Range(queue) \subseteq {Head(queue)} \union Range(queue')
    BY <2>1, QueueTakes DEF FeedInv, FeedTypeOK
  <2>3. ASSUME NEW E, Head(queue) \notin E, Announced(E) PROVE Announced(E)'
    BY <1>0, <2>2, <2>3 DEF Announced, Owes
  <2>4. FeedTypeOK'
    BY <2>1, <2>2 DEF FeedInv, FeedTypeOK, ListenerPlaces
  <2>5. CASE Head(queue) \in Relists
    <3>1. listener' = "secrets again" /\ Head(queue) \notin {"profiles"}
      BY <2>1, <2>5 DEF Relists
    <3>2. Announced({"profiles"}) => Announced({"profiles"})'
      BY <2>3, <3>1
    <3> QED
      BY <1>0, <2>1, <2>4, <3>1, <3>2 DEF FeedInv, SecretsComing, InfoComing, ProfilesComing
  <2>6. CASE Head(queue) = "profiles"
    <3>1. listener' = "profiles" /\ Head(queue) \notin Relists
      BY <2>1, <2>6 DEF Relists
    <3>2. Announced(Relists) => Announced(Relists)'
      BY <2>3, <3>1
    <3> QED
      BY <1>0, <2>1, <2>4, <3>1, <3>2 DEF FeedInv, SecretsComing, InfoComing, ProfilesComing
  <2>7. CASE Head(queue) \notin Relists /\ Head(queue) # "profiles"
    <3>1. listener' = listener
      BY <2>1, <2>7 DEF Relists
    <3>2. /\ Announced(Relists) => Announced(Relists)'
          /\ Announced({"profiles"}) => Announced({"profiles"})'
      BY <2>3, <2>7
    <3> QED
      BY <1>0, <2>1, <2>4, <3>1, <3>2 DEF FeedInv, SecretsComing, InfoComing, ProfilesComing
  <2> QED
    BY <2>5, <2>6, <2>7
<1>7. CASE Disconnected
  BY <1>7 DEF Disconnected, FeedInv, FeedTypeOK, ListenerPlaces
<1> QED
  BY <1>2, <1>3, <1>4, <1>5, <1>6, <1>7

LEMMA FeedInitially == StoreInit => FeedInv
<1> SUFFICES ASSUME StoreInit PROVE FeedInv
  OBVIOUS
<1>1. /\ subscribed = FALSE /\ silent = FALSE /\ queue = <<>> /\ listener = "off"
      /\ rows = [secrets |-> {}, info |-> FALSE] /\ shown = [n \in Profiles |-> 0]
  BY DEF StoreInit
<1>2. <<>> \in Seq(Events) /\ {} \in SUBSET Paths /\ "off" \in ListenerPlaces
  BY DEF ListenerPlaces
<1>3. rows \in [secrets : SUBSET Paths, info : BOOLEAN] /\ shown \in [Profiles -> Nat]
  BY <1>1
<1> QED
  BY <1>1, <1>2, <1>3 DEF FeedInv, FeedTypeOK

LEMMA FeedSteps == StoreInv /\ FeedInv /\ [StoreNext]_storeVars => FeedInv'
<1> SUFFICES ASSUME StoreInv, FeedInv, [StoreNext]_storeVars PROVE FeedInv'
  OBVIOUS
<1>1. ASSUME NEW t \in Threads, WriteDocument(t) \/ FinishWrite(t) \/ FailWrite(t) \/ Submit(t) PROVE FeedInv'
  BY <1>1, ThreadFeedSteps
<1>2. ASSUME NEW t \in Threads, NEW p \in Paths, NEW op \in Operations, LockStore(t, op, p) PROVE FeedInv'
  BY <1>2, ThreadFeedSteps
<1>3. ASSUME NEW t \in Threads, Respond(t) PROVE FeedInv'
  BY <1>3, RespondFeed
<1>4. ASSUME NEW t \in Threads, NEW n \in Profiles, NEW op \in {"save", "delete"}, ChangeProfile(t, n, op)
      PROVE  FeedInv'
  BY <1>4, ChangeProfileFeed
<1>5. ASSUME UNCHANGED <<doc, work, profiles, subscribed, queue, listener, rows, shown, silent>> PROVE FeedInv'
  <2>1. \A E \in {Relists, {"profiles"}} : Announced(E)' = Announced(E)
    BY <1>5 DEF Announced, Owes
  <2>2. Listing(doc)' = Listing(doc)
    BY <1>5 DEF Listing, SetPaths
  <2> QED
    BY <1>5, <2>1, <2>2, FeedUntouched
<1>6. ASSUME NEW t \in Threads, NEW p \in Paths, ReadStore(t, p) PROVE FeedInv'
  BY <1>5, <1>6 DEF ReadStore
<1>7. ASSUME ReplaceKey PROVE FeedInv'
  BY <1>5, <1>7 DEF ReplaceKey
<1>8. ASSUME RestartBackend PROVE FeedInv'
  <2>1. silent' \in BOOLEAN /\ subscribed' = FALSE /\ UNCHANGED <<queue, listener, rows, shown>>
    BY <1>8 DEF RestartBackend
  <2> QED
    BY <2>1 DEF FeedInv, FeedTypeOK
<1>9. ASSUME Subscribe \/ ListSecrets \/ ListInfo \/ ListProfiles \/ TakeEvent \/ Disconnected
      PROVE  FeedInv'
  BY <1>9, ListenerFeedSteps
<1>10. CASE UNCHANGED storeVars
  BY <1>5, <1>10 DEF storeVars
<1> QED
  BY <1>1, <1>2, <1>3, <1>4, <1>6, <1>7, <1>8, <1>9, <1>10 DEF StoreNext

\* Once nothing is under way the TUI shows what is stored, whatever order events
\* came in and whatever a slow listener missed (Feed::publish, listen()), for any
\* number of writers and any queue limit.
THEOREM FeedViewConverges == StoreSpec => []ViewConverges
<1>1. StoreInv /\ FeedInv => ViewConverges
  <2> SUFFICES ASSUME StoreInv, FeedInv, listener = "listening", subscribed, queue = <<>>, ~silent,
                      \A t \in Threads : work[t].pc = "idle"
               PROVE  rows = Listing(doc) /\ shown = profiles
    BY DEF ViewConverges
  <2>1. Range(queue) = {}
    BY DEF Range
  <2>2. ~Announced(Relists) /\ ~Announced({"profiles"})
    BY <2>1, NoneOwed DEF Announced
  <2>3. rows.secrets = SetPaths(doc) /\ rows.info = (doc.info # 0) /\ shown = profiles
    BY <2>2 DEF FeedInv, SecretsComing, InfoComing, ProfilesComing
  <2> QED
    BY <2>3 DEF FeedInv, FeedTypeOK, Listing
<1> QED
  BY StoreInitially, StoreSteps, FeedInitially, FeedSteps, <1>1, PTL DEF StoreSpec

-----------------------------------------------------------------------------
(***************************************************************************)
(* What a commit may change and what a save may lose, for any number of    *)
(* writes, commits and waiting operations, with a shell that stages and    *)
(* commits and other writers that store and remove the value at any        *)
(* moment.  The second rests on two facts: a version is never stored       *)
(* again, so a question about another version than the present one has     *)
(* nothing to lose; and once the last commit holds the present version, so *)
(* does the index, so no later commit can bring an older one back.         *)
(***************************************************************************)

GitSpec == GitInit /\ [][GitNext]_gitVars

Trees == [Files -> Nat]
Drafts == [text : BOOLEAN, amend : BOOLEAN]
CommitPlaces == {"none", "check", "add", "sign", "commit", "made", "failed"}
CommitRuns == [pc : CommitPlaces, amend : BOOLEAN, signs : BOOLEAN, heard : BOOLEAN, paths : SUBSET Managed]
Questions == [at : {"none", "edit", "reading", "asked", "failed"}, what : {"replace", "delete"},
              seen : Nat, warned : BOOLEAN]
TuiOperations == [what : {"replace", "delete"}, seen : Nat, warned : BOOLEAN,
               pc : {"queued", "got", "done", "failed"}, got : Nat]

GitTypeOK ==
    /\ tree \in Trees /\ staged \in Trees /\ log \in Seq(Trees)
    /\ draft \in Drafts /\ commit \in CommitRuns /\ made \in Nat
    /\ entry \in Questions /\ saves \in Seq(TuiOperations) /\ failed \in Seq(TuiOperations)

CopiesFresh ==
    /\ Head0["store"] <= made /\ staged["store"] <= made /\ tree["store"] <= made
    /\ Head0["store"] = tree["store"] /\ tree["store"] # 0 => staged["store"] = tree["store"]

\* A question about a version, answered without a warning, may be acted upon.
SafeToLose(v, warned) ==
    v # 0 /\ ~warned /\ v = tree["store"] => Head0["store"] = tree["store"]
Sound(x) == x.seen <= made /\ SafeToLose(x.seen, x.warned)

QuestionsSound ==
    /\ entry.seen <= made
    /\ entry.at \in {"asked", "failed"} => SafeToLose(entry.seen, entry.warned)
    /\ \A i \in 1..Len(saves) : Sound(saves[i])
    /\ \A i \in 1..Len(failed) : Sound(failed[i])

GitInv == GitTypeOK /\ CopiesFresh /\ QuestionsSound

-----------------------------------------------------------------------------
LEMMA FilesAre == "store" \in Files /\ Managed \subseteq Files /\ "store" \in Managed /\ "profiles" \in Managed
                  /\ "other" \in Files /\ "other" # "store" /\ "profiles" # "store"
BY DEF Files, Managed

LEMMA Head0IsTree == ASSUME log \in Seq(Trees) PROVE Head0 \in Trees
BY DEF Head0, Last, Trees

LEMMA CopiesAre ==
    ASSUME GitInv
    PROVE  /\ tree \in Trees /\ staged \in Trees /\ log \in Seq(Trees) /\ Head0 \in Trees
           /\ tree["store"] \in Nat /\ staged["store"] \in Nat /\ Head0["store"] \in Nat /\ made \in Nat
BY Head0IsTree, FilesAre DEF GitInv, GitTypeOK, Trees

LEMMA AppendedIsLast ==
    ASSUME NEW s \in Seq(Trees), NEW x \in Trees, log' = Append(s, x)
    PROVE  log' \in Seq(Trees) /\ Last(log') = x /\ Head0' = x
<1>1. Append(s, x) \in Seq(Trees) /\ Len(Append(s, x)) = Len(s) + 1 /\ Append(s, x)[Len(s) + 1] = x
  OBVIOUS
<1>2. log' # <<>> /\ Last(log') = x
  BY <1>1 DEF Last
<1> QED
  BY <1>1, <1>2 DEF Head0

LEMMA ParentIsLog == ASSUME GitTypeOK PROVE Parent \in Seq(Trees)
<1>1. CASE log = <<>>
  BY <1>1 DEF Parent, GitTypeOK
<1>2. CASE log # <<>>
  <2>1. log \in Seq(Trees) /\ Len(log) - 1 \in 0..Len(log)
    BY <1>2 DEF GitTypeOK
  <2>2. SubSeq(log, 1, Len(log) - 1) \in Seq(Trees)
    BY <2>1
  <2> QED
    BY <1>2, <2>1, <2>2 DEF Parent, Front
<1> QED
  BY <1>1, <1>2

\* What a commit of managed paths holds: those as they are in the working tree,
\* the other files as the last commit has them.
LEMMA CommittedHolds ==
    ASSUME GitInv
    PROVE  /\ Committed(commit.paths) \in Trees
           /\ Committed(commit.paths)["store"] = IF "store" \in commit.paths THEN tree["store"] ELSE Head0["store"]
           /\ \A f \in Files \ Managed : Committed(commit.paths)[f] = Head0[f]
<1>1. commit.paths \subseteq Managed
  BY DEF GitInv, GitTypeOK, CommitRuns
<1>2. Committed(commit.paths) \in Trees
  BY CopiesAre DEF Committed, Trees
<1> QED
  BY <1>1, <1>2, FilesAre DEF Committed

LEMMA GitInitially == GitInit => GitInv
<1> SUFFICES ASSUME GitInit PROVE GitInv
  OBVIOUS
<1>1. tree \in Trees /\ staged = tree /\ tree["store"] = 0 /\ log = <<>> /\ saves = <<>> /\ failed = <<>> /\ made = 0
  BY FilesAre DEF GitInit, Trees
<1>2. Len(saves) = 0 /\ Len(failed) = 0 /\ entry.seen = 0 /\ entry.at = "none"
  BY <1>1 DEF GitInit, NoEntry
<1>3. Head0["store"] = 0
  BY <1>1, FilesAre DEF Head0
<1>4. GitTypeOK
  BY <1>1 DEF GitInit, GitTypeOK, NoDraft, NoCommit, NoEntry, CommitPlaces, CommitRuns, Drafts, Questions
<1>5. CopiesFresh
  BY <1>1, <1>3 DEF CopiesFresh
<1>6. QuestionsSound
  BY <1>1, <1>2 DEF QuestionsSound
<1> QED
  BY <1>4, <1>5, <1>6 DEF GitInv

-----------------------------------------------------------------------------
\* A step that may move the index or the last commit: it forgets no version that
\* was committed, and a version it commits is in the index too.
LEMMA CopiesMove ==
    ASSUME GitInv, staged' \in Trees, log' \in Seq(Trees), tree' \in Trees, tree'["store"] = tree["store"],
           Head0'["store"] <= made, staged'["store"] <= made,
           Head0["store"] = tree["store"] /\ tree["store"] # 0 => Head0'["store"] = tree["store"],
           Head0'["store"] = tree["store"] /\ tree["store"] # 0 => staged'["store"] = tree["store"],
           UNCHANGED <<made, entry, saves, failed>>, draft' \in Drafts, commit' \in CommitRuns
    PROVE  GitInv'
<1>1. GitTypeOK' /\ CopiesFresh'
  BY DEF GitInv, GitTypeOK, CopiesFresh
<1>2. ASSUME NEW s \in Nat, NEW w \in BOOLEAN, SafeToLose(s, w) PROVE SafeToLose(s, w)'
  BY <1>2 DEF SafeToLose
<1>3. entry.seen \in Nat /\ entry.warned \in BOOLEAN
  BY DEF GitInv, GitTypeOK, Questions
<1>4. ASSUME NEW x \in TuiOperations, Sound(x) PROVE Sound(x)'
  BY <1>2, <1>4 DEF Sound, TuiOperations
<1>5. \A i \in 1..Len(saves) : saves[i] \in TuiOperations
  BY DEF GitInv, GitTypeOK
<1>6. \A i \in 1..Len(failed) : failed[i] \in TuiOperations
  BY DEF GitInv, GitTypeOK
<1>7. /\ entry'.seen <= made'
      /\ entry'.at \in {"asked", "failed"} => SafeToLose(entry.seen, entry.warned)'
  BY <1>2, <1>3 DEF GitInv, QuestionsSound
<1>8. \A i \in 1..Len(saves) : Sound(saves[i])'
  BY <1>4, <1>5 DEF GitInv, QuestionsSound
<1>9. \A i \in 1..Len(failed) : Sound(failed[i])'
  BY <1>4, <1>6 DEF GitInv, QuestionsSound
<1>10. QuestionsSound'
  BY <1>7, <1>8, <1>9 DEF QuestionsSound
<1> QED
  BY <1>1, <1>10 DEF GitInv

\* A step that leaves the three copies of the store, the question and the waiting
\* operations alone.
LEMMA CopiesUntouched ==
    ASSUME GitInv, UNCHANGED <<tree, staged, log, made, entry, saves, failed>>,
           draft' \in Drafts, commit' \in CommitRuns
    PROVE  GitInv'
<1>1. Head0' = Head0
  BY DEF Head0
<1>2. /\ staged' \in Trees /\ log' \in Seq(Trees) /\ tree' \in Trees
      /\ Head0["store"] <= made /\ staged["store"] <= made
      /\ Head0["store"] = tree["store"] /\ tree["store"] # 0 => staged["store"] = tree["store"]
  BY DEF GitInv, GitTypeOK, CopiesFresh
<1> QED
  BY <1>1, <1>2, CopiesMove

\* A step that stores a version never seen before, or none: what was asked about
\* an earlier one is about nothing any more.
LEMMA StoreMoves ==
    ASSUME GitInv, tree' \in Trees, made' \in Nat, made <= made',
           tree'["store"] = 0 \/ (tree'["store"] = made' /\ made' = made + 1),
           UNCHANGED <<staged, log, draft, commit, entry, failed>>,
           saves' \in Seq(TuiOperations), Len(saves') = Len(saves),
           \A i \in 1..Len(saves) : saves'[i].seen = saves[i].seen
    PROVE  GitInv'
<1>0. Head0' = Head0
  BY DEF Head0
<1>1. GitTypeOK'
  BY DEF GitInv, GitTypeOK
<1>2. CopiesFresh'
  BY <1>0, CopiesAre DEF GitInv, CopiesFresh
<1>3. \A s \in Nat : s <= made => s <= made' /\ (s = 0 \/ s # tree'["store"])
  BY CopiesAre
<1>4. entry.seen \in Nat /\ entry.seen <= made
  BY DEF GitInv, GitTypeOK, Questions, QuestionsSound
<1>5. \A i \in 1..Len(saves) : saves[i].seen \in Nat /\ saves[i].seen <= made
  <2>1. \A i \in 1..Len(saves) : saves[i] \in TuiOperations /\ Sound(saves[i])
    BY DEF GitInv, GitTypeOK, QuestionsSound
  <2> QED
    BY <2>1 DEF TuiOperations, Sound
<1>6. \A i \in 1..Len(failed) : failed[i].seen \in Nat /\ failed[i].seen <= made
  <2>1. \A i \in 1..Len(failed) : failed[i] \in TuiOperations /\ Sound(failed[i])
    BY DEF GitInv, GitTypeOK, QuestionsSound
  <2> QED
    BY <2>1 DEF TuiOperations, Sound
<1>7. entry'.seen <= made' /\ (entry'.seen = 0 \/ entry'.seen # tree'["store"])
  BY <1>3, <1>4
<1>8. \A i \in 1..Len(saves') : saves'[i].seen <= made' /\ (saves'[i].seen = 0 \/ saves'[i].seen # tree'["store"])
  BY <1>3, <1>5
<1>9. \A i \in 1..Len(failed') : failed'[i].seen <= made' /\ (failed'[i].seen = 0 \/ failed'[i].seen # tree'["store"])
  BY <1>3, <1>6
<1>10. QuestionsSound'
  <2>1. (entry.at \in {"asked", "failed"} => SafeToLose(entry.seen, entry.warned))'
    BY <1>7 DEF SafeToLose
  <2>2. (\A i \in 1..Len(saves) : Sound(saves[i]))'
    BY <1>8 DEF Sound, SafeToLose
  <2>3. (\A i \in 1..Len(failed) : Sound(failed[i]))'
    BY <1>9 DEF Sound, SafeToLose
  <2> QED
    BY <1>7, <2>1, <2>2, <2>3 DEF QuestionsSound
<1> QED
  BY <1>1, <1>2, <1>10 DEF GitInv

\* A step of the question and the waiting operations alone.
LEMMA QuestionsMove ==
    ASSUME GitInv, UNCHANGED <<tree, staged, log, draft, commit, made>>,
           entry' \in Questions, entry'.seen <= made,
           entry'.at \in {"asked", "failed"} => SafeToLose(entry'.seen, entry'.warned),
           saves' \in Seq(TuiOperations), \A i \in 1..Len(saves') : Sound(saves'[i]),
           failed' \in Seq(TuiOperations), \A i \in 1..Len(failed') : Sound(failed'[i])
    PROVE  GitInv'
<1>0. Head0' = Head0
  BY DEF Head0
<1>1. GitTypeOK' /\ CopiesFresh'
  BY <1>0 DEF GitInv, GitTypeOK, CopiesFresh
<1>2. QuestionsSound'
  BY <1>0 DEF QuestionsSound, Sound, SafeToLose
<1> QED
  BY <1>1, <1>2 DEF GitInv

LEMMA AppendSound ==
    ASSUME NEW s \in Seq(TuiOperations), \A i \in 1..Len(s) : Sound(s[i]), NEW x \in TuiOperations, Sound(x)
    PROVE  Append(s, x) \in Seq(TuiOperations) /\ \A i \in 1..Len(Append(s, x)) : Sound(Append(s, x)[i])
<1>1. /\ Append(s, x) \in Seq(TuiOperations) /\ Len(Append(s, x)) = Len(s) + 1 /\ Append(s, x)[Len(s) + 1] = x
      /\ \A i \in 1..Len(s) : Append(s, x)[i] = s[i]
  OBVIOUS
<1>2. ASSUME NEW i \in 1..Len(Append(s, x)) PROVE Sound(Append(s, x)[i])
  <2>1. CASE i \in 1..Len(s)
    BY <1>1, <2>1
  <2>2. CASE i = Len(s) + 1
    BY <1>1, <2>2
  <2> QED
    BY <1>1, <2>1, <2>2
<1> QED
  BY <1>1, <1>2

LEMMA TailSound ==
    ASSUME NEW s \in Seq(TuiOperations), s # <<>>, \A i \in 1..Len(s) : Sound(s[i])
    PROVE  /\ Tail(s) \in Seq(TuiOperations) /\ \A i \in 1..Len(Tail(s)) : Sound(Tail(s)[i])
           /\ Head(s) \in TuiOperations /\ Sound(Head(s))
<1>1. /\ Tail(s) \in Seq(TuiOperations) /\ Len(Tail(s)) = Len(s) - 1
      /\ \A i \in 1..(Len(s) - 1) : Tail(s)[i] = s[i + 1]
      /\ Head(s) = s[1] /\ 1 \in 1..Len(s) /\ Len(s) \in Nat
  OBVIOUS
<1>2. ASSUME NEW i \in 1..Len(Tail(s)) PROVE Sound(Tail(s)[i])
  <2>1. Tail(s)[i] = s[i + 1] /\ i + 1 \in 1..Len(s)
    BY <1>1
  <2> QED
    BY <2>1
<1> QED
  BY <1>1, <1>2

\* The worker's place in its operation changes nothing of what was asked.
LEMMA GoesOn ==
    ASSUME GitInv, saves # <<>>, NEW pc \in {"queued", "got", "done", "failed"}, NEW got \in Nat, Goes(pc, got)
    PROVE  /\ saves' \in Seq(TuiOperations) /\ Len(saves') = Len(saves)
           /\ \A i \in 1..Len(saves) : saves'[i].seen = saves[i].seen /\ saves'[i].warned = saves[i].warned
<1>1. saves \in Seq(TuiOperations) /\ Len(saves) \in Nat /\ 1 \in 1..Len(saves)
  BY DEF GitInv, GitTypeOK
<1> DEFINE y == saves[1]
           x == [y EXCEPT !.pc = pc, !.got = got]
<1>2. y \in TuiOperations
  BY <1>1
<1>6. x \in TuiOperations /\ x.seen = y.seen /\ x.warned = y.warned
  <2> HIDE DEF y
  <2> QED
    BY <1>2 DEF TuiOperations
<1>3. saves' = [saves EXCEPT ![1] = x]
  BY <1>1 DEF Goes
<1> HIDE DEF x
<1>4. saves' \in Seq(TuiOperations) /\ Len(saves') = Len(saves)
  BY <1>1, <1>6, <1>3
<1>5. \A i \in 1..Len(saves) : saves'[i] = IF i = 1 THEN x ELSE saves[i]
  BY <1>1, <1>3
<1> QED
  BY <1>6, <1>4, <1>5

-----------------------------------------------------------------------------
LEMMA CommitSteps ==
    ASSUME GitInv, StageManaged \/ MakeCommit
    PROVE  GitInv'
<1> DEFINE now == [f \in Files |-> IF f \in commit.paths THEN tree[f] ELSE staged[f]]
<1>1. now \in Trees /\ now["store"] = IF "store" \in commit.paths THEN tree["store"] ELSE staged["store"]
  BY CopiesAre, FilesAre DEF Trees
<1>2. UNCHANGED <<tree, draft, made, entry, saves, failed>> /\ draft' \in Drafts /\ tree' \in Trees
  BY DEF StageManaged, MakeCommit, editVars, GitInv, GitTypeOK
<1>3. commit' \in CommitRuns
  BY DEF StageManaged, MakeCommit, CommitPlaces, CommitRuns, GitInv, GitTypeOK
<1>4. /\ tree["store"] \in Nat /\ staged["store"] \in Nat /\ Head0["store"] \in Nat /\ made \in Nat
      /\ Head0["store"] <= made /\ staged["store"] <= made /\ tree["store"] <= made
      /\ Head0["store"] = tree["store"] /\ tree["store"] # 0 => staged["store"] = tree["store"]
  BY CopiesAre DEF GitInv, CopiesFresh
<1>5. CASE StageManaged
  <2>1. staged' = now /\ log' \in Seq(Trees) /\ Head0' = Head0
    BY <1>5 DEF StageManaged, Head0, GitInv, GitTypeOK
  <2> HIDE DEF now
  <2> QED
    BY <1>1, <1>2, <1>3, <1>4, <2>1, CopiesMove
<1>6. CASE MakeCommit
  <2>1. CASE UNCHANGED <<log, staged>>
    BY <1>2, <1>3, <2>1, CopiesUntouched
  <2>2. CASE log' = Append(Parent, Committed(commit.paths)) /\ staged' = now
    <3> HIDE DEF now
    <3>1. log' \in Seq(Trees) /\ Head0'["store"] = IF "store" \in commit.paths THEN tree["store"] ELSE Head0["store"]
      BY <2>2, CommittedHolds, ParentIsLog, AppendedIsLast DEF GitInv
    <3> QED
      BY <1>1, <1>2, <1>3, <1>4, <2>2, <3>1, CopiesMove
  <2> QED
    BY <1>6, <2>1, <2>2 DEF MakeCommit
<1> QED
  BY <1>5, <1>6

LEMMA OutsideSteps ==
    ASSUME GitInv, Shell \/ SaveProfiles
    PROVE  GitInv'
<1>0. UNCHANGED <<draft, commit, made, entry, saves, failed>> /\ draft' \in Drafts /\ commit' \in CommitRuns
  BY DEF Shell, SaveProfiles, editVars, GitInv, GitTypeOK
<1>4. /\ tree["store"] \in Nat /\ staged["store"] \in Nat /\ Head0["store"] \in Nat /\ made \in Nat
      /\ Head0["store"] <= made /\ staged["store"] <= made /\ tree["store"] <= made
      /\ Head0["store"] = tree["store"] /\ tree["store"] # 0 => staged["store"] = tree["store"]
  BY CopiesAre DEF GitInv, CopiesFresh
<1>1. CASE SaveProfiles
  <2>1. tree' \in Trees /\ tree'["store"] = tree["store"]
    BY <1>1, CopiesAre, FilesAre DEF SaveProfiles, Trees
  <2>2. Head0' = Head0 /\ UNCHANGED <<staged, log>> /\ staged' \in Trees /\ log' \in Seq(Trees)
    BY <1>1, CopiesAre DEF SaveProfiles, Head0
  <2> QED
    BY <1>0, <1>4, <2>1, <2>2, CopiesMove
<1>2. CASE Shell
  <2>0. UNCHANGED tree /\ tree' \in Trees
    BY <1>2, CopiesAre DEF Shell
  <2>1. ASSUME NEW n \in Nat, staged' = [staged EXCEPT !["other"] = n], UNCHANGED log PROVE GitInv'
    <3>2. staged' \in Trees /\ staged'["store"] = staged["store"]
      BY <2>1, CopiesAre, FilesAre DEF Trees
    <3>3. Head0' = Head0 /\ log' \in Seq(Trees)
      BY <2>1, CopiesAre DEF Head0
    <3> QED
      BY <1>0, <1>4, <2>0, <2>1, <3>2, <3>3, CopiesMove
  <2>2. CASE log' = Append(log, staged) /\ UNCHANGED staged
    <3>1. log' \in Seq(Trees) /\ Head0'["store"] = staged["store"] /\ staged' \in Trees
      BY <2>2, CopiesAre, AppendedIsLast
    <3> QED
      BY <1>0, <1>4, <2>0, <2>2, <3>1, CopiesMove
  <2>3. staged["other"] + 1 \in Nat /\ Head0["other"] \in Nat
    BY CopiesAre, FilesAre DEF Trees
  <2> QED
    BY <1>2, <2>1, <2>2, <2>3 DEF Shell
<1> QED
  BY <1>1, <1>2

\* The worker and the other writers change the stored value.
LEMMA WriterSteps ==
    ASSUME GitInv, Save \/ DeleteReads \/ DeleteRemoves \/ OperationFails \/ OtherWrite \/ OtherRemove
    PROVE  GitInv'
<1>1. /\ UNCHANGED <<staged, log, draft, commit, entry, failed>>
      /\ saves \in Seq(TuiOperations) /\ failed \in Seq(TuiOperations)
  BY DEF Save, DeleteReads, DeleteRemoves, OperationFails, OtherWrite, OtherRemove, repoVars, GitInv, GitTypeOK
<1>2. \A n \in Nat : [tree EXCEPT !["store"] = n] \in Trees /\ [tree EXCEPT !["store"] = n]["store"] = n
  BY CopiesAre, FilesAre DEF Trees
<1>3. made \in Nat /\ made + 1 \in Nat
  BY CopiesAre
<1>4. CASE OtherWrite \/ OtherRemove
  <2>1. UNCHANGED saves
    BY <1>4 DEF OtherWrite, OtherRemove
  <2>2. CASE OtherWrite
    <3>1. made' = made + 1 /\ tree' = [tree EXCEPT !["store"] = made + 1]
      BY <2>2 DEF OtherWrite
    <3>2. tree' \in Trees /\ tree'["store"] = made + 1
      BY <1>2, <1>3, <3>1
    <3> QED
      BY <1>1, <1>3, <2>1, <3>1, <3>2, StoreMoves
  <2>3. CASE OtherRemove
    <3>1. made' = made /\ tree' = [tree EXCEPT !["store"] = 0]
      BY <2>3 DEF OtherRemove
    <3>2. tree' \in Trees /\ tree'["store"] = 0
      BY <1>2, <3>1
    <3> QED
      BY <1>1, <1>3, <2>1, <3>1, <3>2, StoreMoves
  <2> QED
    BY <1>4, <2>2, <2>3
<1>5. CASE Save \/ DeleteReads \/ DeleteRemoves \/ OperationFails
  <2>1. saves # <<>>
    BY <1>5 DEF Save, DeleteReads, DeleteRemoves, OperationFails, Works
  <2>2. \E pc \in {"queued", "got", "done", "failed"}, got \in Nat : Goes(pc, got)
    BY <1>5, CopiesAre DEF Save, DeleteReads, DeleteRemoves, OperationFails
  <2>3. /\ saves' \in Seq(TuiOperations) /\ Len(saves') = Len(saves)
        /\ \A i \in 1..Len(saves) : saves'[i].seen = saves[i].seen /\ saves'[i].warned = saves[i].warned
    BY <2>1, <2>2, GoesOn
  <2>4. CASE Save
    <3>1. made' = made + 1 /\ tree' = [tree EXCEPT !["store"] = made + 1]
      BY <2>4 DEF Save
    <3>2. tree' \in Trees /\ tree'["store"] = made + 1
      BY <1>2, <1>3, <3>1
    <3> QED
      BY <1>1, <1>3, <2>3, <3>1, <3>2, StoreMoves
  <2>5. CASE DeleteRemoves /\ tree' = [tree EXCEPT !["store"] = 0]
    <3>1. made' = made
      BY <2>5 DEF DeleteRemoves
    <3>2. tree' \in Trees /\ tree'["store"] = 0
      BY <1>2, <2>5
    <3> QED
      BY <1>1, <1>3, <2>3, <3>1, <3>2, StoreMoves
  <2>6. CASE UNCHANGED <<tree, made>>
    <3>1. \A i \in 1..Len(saves') : Sound(saves'[i])
      BY <2>3 DEF Sound, GitInv, QuestionsSound
    <3> QED
      BY <1>1, <2>3, <2>6, <3>1, QuestionsMove DEF GitInv, GitTypeOK, QuestionsSound
  <2> QED
    BY <1>5, <2>4, <2>5, <2>6 DEF DeleteReads, DeleteRemoves, OperationFails
<1> QED
  BY <1>4, <1>5

\* The question, its answer and what becomes of it.
LEMMA EntrySteps ==
    ASSUME GitInv,
           \/ Edit \/ Enter \/ AskDelete \/ (\E answers \in BOOLEAN : Compare(answers)) \/ Confirm \/ Refuse \/ Retry
           \/ Completed \/ ShowFailure
    PROVE  GitInv'
<1>0. /\ entry \in Questions /\ entry.seen <= made /\ tree["store"] \in Nat /\ tree["store"] <= made /\ made \in Nat
      /\ saves \in Seq(TuiOperations) /\ \A i \in 1..Len(saves) : Sound(saves[i])
      /\ failed \in Seq(TuiOperations) /\ \A i \in 1..Len(failed) : Sound(failed[i])
      /\ entry.at \in {"asked", "failed"} => SafeToLose(entry.seen, entry.warned)
  BY CopiesAre DEF GitInv, GitTypeOK, QuestionsSound, CopiesFresh
<1>1. UNCHANGED <<tree, staged, log, draft, commit, made>>
  BY DEF Edit, Enter, AskDelete, Compare, Confirm, Refuse, Retry, Completed, ShowFailure, repoVars
<1>2. NoEntry \in Questions /\ NoEntry.seen <= made /\ NoEntry.at = "none" /\ NoEntry.seen = 0
  BY <1>0 DEF NoEntry, Questions
<1>3. ASSUME NEW s \in Nat, NEW w \in BOOLEAN, s <= made, SafeToLose(s, w), SubmitSave(s, w), UNCHANGED failed
      PROVE  GitInv'
  <2> DEFINE x == [what |-> "replace", seen |-> s, warned |-> w, pc |-> "queued", got |-> 0]
  <2>1. x \in TuiOperations /\ Sound(x)
    BY <1>3 DEF TuiOperations, Sound
  <2>2. CASE saves' = Append(saves, x) /\ entry' = NoEntry
    <3> HIDE DEF x
    <3>1. saves' \in Seq(TuiOperations) /\ \A i \in 1..Len(saves') : Sound(saves'[i])
      BY <1>0, <2>1, <2>2, AppendSound
    <3> QED
      BY <1>0, <1>1, <1>2, <1>3, <2>2, <3>1, QuestionsMove
  <2>3. CASE entry' = [at |-> "failed", what |-> "replace", seen |-> s, warned |-> w] /\ UNCHANGED saves
    <3>1. entry' \in Questions /\ entry'.seen = s /\ entry'.warned = w
      BY <2>3 DEF Questions
    <3> QED
      BY <1>0, <1>1, <1>3, <2>3, <3>1, QuestionsMove
  <2> QED
    BY <1>3, <2>2, <2>3 DEF SubmitSave
<1>4. ASSUME UNCHANGED <<saves, failed>>, entry' \in Questions, entry'.seen <= made,
             entry'.at \in {"asked", "failed"} => SafeToLose(entry'.seen, entry'.warned)
      PROVE  GitInv'
  BY <1>0, <1>1, <1>4, QuestionsMove
<1>5. \A w \in BOOLEAN : SafeToLose(0, w) /\ 0 <= made
  BY <1>0 DEF SafeToLose
<1>6. [NoEntry EXCEPT !.at = "edit"] \in Questions /\ [NoEntry EXCEPT !.at = "edit"].seen = 0
      /\ [NoEntry EXCEPT !.at = "edit"].at = "edit"
  BY DEF NoEntry, Questions
<1>7. \A what \in {"replace", "delete"} : Ask(what) =>
         entry' \in Questions /\ entry'.seen = tree["store"] /\ entry'.at = "reading"
  BY <1>0 DEF Ask, NoEntry, Questions
<1>11. CASE Edit
  BY <1>4, <1>5, <1>6, <1>11 DEF Edit
<1>12. CASE Enter
  <2>1. CASE view.row
    BY <1>0, <1>4, <1>7, <1>12, <2>1 DEF Enter
  <2>2. CASE ~view.row
    BY <1>3, <1>5, <1>12, <2>2 DEF Enter
  <2> QED
    BY <2>1, <2>2
<1>13. CASE AskDelete
  BY <1>0, <1>4, <1>7, <1>13 DEF AskDelete
<1>14. CASE \E answers \in BOOLEAN : Compare(answers)
  <2>1. PICK answers \in BOOLEAN : Compare(answers)
    BY <1>14
  <2>2. entry' = [entry EXCEPT !.at = "asked", !.warned = ~answers \/ CommitState(entry.seen) = "uncommitted"]
        /\ UNCHANGED <<saves, failed>>
    BY <2>1 DEF Compare
  <2>3. entry' \in Questions /\ entry'.seen = entry.seen
        /\ (~entry'.warned => CommitState(entry.seen) # "uncommitted")
    BY <1>0, <2>2 DEF Questions
  <2>4. SafeToLose(entry'.seen, entry'.warned)
    BY <2>3 DEF SafeToLose, CommitState
  <2> QED
    BY <1>0, <1>4, <2>2, <2>3, <2>4
<1>15. CASE Confirm
  <2>1. SafeToLose(entry.seen, entry.warned) /\ entry.seen \in Nat /\ entry.warned \in BOOLEAN /\ UNCHANGED failed
    BY <1>0, <1>15 DEF Confirm, Questions
  <2>2. CASE SubmitSave(entry.seen, entry.warned)
    BY <1>0, <1>3, <2>1, <2>2
  <2>3. CASE entry' = NoEntry /\ UNCHANGED saves
    BY <1>2, <1>4, <2>1, <2>3
  <2> DEFINE x == [what |-> "delete", seen |-> entry.seen, warned |-> entry.warned, pc |-> "queued", got |-> 0]
  <2>4. CASE saves' = <<x>> /\ entry' = NoEntry
    <3>1. x \in TuiOperations /\ Sound(x)
      BY <1>0, <2>1 DEF TuiOperations, Sound
    <3> HIDE DEF x
    <3>2. saves' \in Seq(TuiOperations) /\ \A i \in 1..Len(saves') : Sound(saves'[i])
      BY <2>4, <3>1
    <3> QED
      BY <1>0, <1>1, <1>2, <2>1, <2>4, <3>2, QuestionsMove
  <2>5. entry.what = "replace" \/ (entry.what = "delete" /\ Busy) \/ (entry.what = "delete" /\ ~Busy)
    BY <1>0 DEF Questions
  <2> QED
    BY <1>15, <2>2, <2>3, <2>4, <2>5 DEF Confirm
<1>16. CASE Refuse
  BY <1>2, <1>4, <1>5, <1>6, <1>16 DEF Refuse
<1>17. CASE Retry
  <2>1. entry.seen \in Nat /\ entry.warned \in BOOLEAN
    BY <1>0 DEF Questions
  <2> QED
    BY <1>0, <1>3, <1>17, <2>1 DEF Retry
<1>18. CASE Completed
  <2>1. saves # <<>> /\ saves' = Tail(saves) /\ UNCHANGED entry
    BY <1>18 DEF Completed
  <2>2. /\ saves' \in Seq(TuiOperations) /\ \A i \in 1..Len(saves') : Sound(saves'[i])
        /\ Head(saves) \in TuiOperations /\ Sound(Head(saves))
    BY <1>0, <2>1, TailSound
  <2>3. failed' = failed \/ failed' = Append(failed, Head(saves))
    BY <1>18 DEF Completed
  <2>4. failed' \in Seq(TuiOperations) /\ \A i \in 1..Len(failed') : Sound(failed'[i])
    BY <1>0, <2>2, <2>3, AppendSound
  <2> QED
    BY <1>0, <1>1, <2>1, <2>2, <2>4, QuestionsMove
<1>19. CASE ShowFailure
  <2>1. /\ failed # <<>> /\ failed' = Tail(failed) /\ UNCHANGED saves
        /\ entry' = [at |-> "failed", what |-> "replace", seen |-> Head(failed).seen, warned |-> Head(failed).warned]
    BY <1>19 DEF ShowFailure
  <2>2. /\ failed' \in Seq(TuiOperations) /\ \A i \in 1..Len(failed') : Sound(failed'[i])
        /\ Head(failed) \in TuiOperations /\ Sound(Head(failed))
    BY <1>0, <2>1, TailSound
  <2>3. /\ entry' \in Questions /\ entry'.seen = Head(failed).seen /\ entry'.warned = Head(failed).warned
    BY <2>1, <2>2 DEF Questions, TuiOperations
  <2>4. entry'.seen <= made /\ SafeToLose(entry'.seen, entry'.warned)
    BY <2>2, <2>3 DEF Sound
  <2> QED
    BY <1>0, <1>1, <2>1, <2>2, <2>3, <2>4, QuestionsMove
<1> QED
  BY <1>11, <1>12, <1>13, <1>14, <1>15, <1>16, <1>17, <1>18, <1>19

\* The dialog, the listing and the parts of a commit that touch no file.
LEMMA DialogSteps ==
    ASSUME GitInv,
           \/ Open \/ Type \/ Escape \/ (\E signs \in BOOLEAN : SubmitCommit(signs))
           \/ CheckStaged \/ (\E signed \in BOOLEAN : Sign(signed)) \/ LoseFrontend \/ Report \/ List \/ ShowRows
    PROVE  GitInv'
<1>0. draft \in Drafts /\ commit \in CommitRuns
  BY DEF GitInv, GitTypeOK
<1>1. UNCHANGED <<tree, staged, log, made, entry, saves, failed>>
  BY DEF Open, Type, Escape, SubmitCommit, CheckStaged, Sign, LoseFrontend, Report, List, ShowRows, editVars, repoVars
<1>2. draft' \in Drafts
  <2>1. \A d \in Drafts : Prefill(d) \in Drafts
    BY DEF Prefill, Drafts
  <2>2. CASE Open
    BY <1>0, <2>1, <2>2 DEF Open
  <2>3. CASE Type
    <3>1. [draft EXCEPT !.text = ~@] \in Drafts /\ [draft EXCEPT !.amend = ~@] \in Drafts
      BY <1>0 DEF Drafts
    <3> QED
      BY <2>1, <2>3, <3>1 DEF Type
  <2>4. CASE Report
    <3>1. draft' = NoDraft \/ draft' = draft
      BY <2>4 DEF Report
    <3>2. NoDraft \in Drafts
      BY DEF NoDraft, Drafts
    <3> QED
      BY <1>0, <3>1, <3>2
  <2> QED
    BY <1>0, <2>2, <2>3, <2>4 DEF Escape, SubmitCommit, CheckStaged, Sign, LoseFrontend, List, ShowRows, repoVars
<1>3. commit' \in CommitRuns
  <2>1. CASE Open \/ Type \/ Escape \/ List \/ ShowRows
    BY <1>0, <2>1 DEF Open, Type, Escape, List, ShowRows, repoVars
  <2>2. CASE \E signs \in BOOLEAN : SubmitCommit(signs)
    BY <1>0, <2>2 DEF SubmitCommit, NoCommit, CommitPlaces, CommitRuns, Drafts, GitInv, GitTypeOK
  <2>3. CASE CheckStaged
    <3>1. ManagedPaths \subseteq Managed
      BY DEF ManagedPaths
    <3> QED
      BY <1>0, <2>3, <3>1 DEF CheckStaged, CommitPlaces, CommitRuns
  <2>4. CASE \E signed \in BOOLEAN : Sign(signed)
    BY <1>0, <2>4 DEF Sign, CommitPlaces, CommitRuns
  <2>5. CASE LoseFrontend
    BY <1>0, <2>5 DEF LoseFrontend, CommitPlaces, CommitRuns
  <2>6. CASE Report
    BY <2>6 DEF Report, NoCommit, CommitPlaces, CommitRuns
  <2> QED
    BY <2>1, <2>2, <2>3, <2>4, <2>5, <2>6
<1> QED
  BY <1>1, <1>2, <1>3, CopiesUntouched

LEMMA GitSteps == GitInv /\ [GitNext]_gitVars => GitInv'
<1> SUFFICES ASSUME GitInv, [GitNext]_gitVars PROVE GitInv'
  OBVIOUS
<1>1. CASE UNCHANGED gitVars
  <2>1. UNCHANGED <<tree, staged, log, made, entry, saves, failed, draft, commit>>
    BY <1>1 DEF gitVars
  <2> QED
    BY <2>1, CopiesUntouched DEF GitInv, GitTypeOK
<1>2. CASE GitNext
  BY <1>2, CommitSteps, OutsideSteps, WriterSteps, EntrySteps, DialogSteps DEF GitNext
<1> QED
  BY <1>1, <1>2

LEMMA GitHolds == GitSpec => []GitInv
BY GitInitially, GitSteps, PTL DEF GitSpec

-----------------------------------------------------------------------------
\* Whatever the shell stages after the commit looked at the index, a commit of
\* the backend leaves every other file as the commit before has it
\* (core/src/git.rs, Repository::commit).
THEOREM GitOnlyManagedCommitted == GitSpec => OnlyManagedCommitted
<1> DEFINE Made == commit.pc = "commit" /\ commit'.pc = "made"
           Kept == \A f \in Files \ Managed : Last(log')[f] = Head0[f]
<1>1. GitInv /\ [GitNext]_gitVars => [Made => Kept]_gitVars
  <2> SUFFICES ASSUME GitInv, GitNext, Made PROVE Kept
    BY DEF gitVars
  <2>1. commit \in CommitRuns
    BY DEF GitInv, GitTypeOK
  <2>2. MakeCommit
    <3>1. CASE UNCHANGED commit
      BY <3>1
    <3>2. CASE CheckStaged \/ StageManaged \/ (\E signed \in BOOLEAN : Sign(signed)) \/ LoseFrontend \/ Report
      BY <2>1, <3>2 DEF CheckStaged, StageManaged, Sign, LoseFrontend, Report, NoCommit, CommitRuns
    <3>3. CASE \E signs \in BOOLEAN : SubmitCommit(signs)
      BY <3>3 DEF SubmitCommit
    <3> QED
      BY <3>1, <3>2, <3>3
         DEF GitNext, Open, Type, Escape, Shell, SaveProfiles, Edit, Enter, AskDelete, Compare, Confirm, Refuse, Retry,
             Save, DeleteReads, DeleteRemoves, OperationFails, Completed, ShowFailure, List, ShowRows, OtherWrite,
             OtherRemove, repoVars
  <2>3. log' = Append(Parent, Committed(commit.paths))
    BY <2>1, <2>2 DEF MakeCommit, CommitRuns
  <2>4. Last(log') = Committed(commit.paths)
    BY <2>3, ParentIsLog, CommittedHolds, AppendedIsLast DEF GitInv
  <2> QED
    BY <2>4, CommittedHolds
<1> QED
  BY <1>1, GitHolds, PTL DEF GitSpec, OnlyManagedCommitted

\* A value the operator was asked about is replaced or deleted without the loss
\* warning only while the last commit holds it, however many commits, writes of
\* others, failures and retries happened since the question
\* (manager/src/ui/edit.rs, ui/provider_failure.rs, core/src/store/committed.rs).
THEOREM GitNoSilentLoss == GitSpec => NoSilentLoss
<1> DEFINE Asked == Overwrites /\ Head(saves).seen = tree["store"]
           Known == Head(saves).warned \/ Head0["store"] = tree["store"]
<1>1. GitInv /\ [GitNext]_gitVars => [Asked => Known]_gitVars
  <2> SUFFICES ASSUME GitInv, GitNext, Asked PROVE Known
    BY DEF gitVars
  <2>1. CASE saves = <<>>
    <3>1. UNCHANGED tree \/ UNCHANGED saves
      BY <2>1 DEF GitNext, Open, Type, Escape, SubmitCommit, CheckStaged, StageManaged, Sign, LoseFrontend,
                  MakeCommit, Report, Shell, SaveProfiles, Edit, Enter, AskDelete, Compare, Confirm, Refuse, Retry,
                  Save, DeleteReads, DeleteRemoves, OperationFails, Completed, ShowFailure, List, ShowRows,
                  OtherWrite, OtherRemove, Works, editVars, repoVars
    <3> QED
      BY <3>1 DEF Overwrites
  <2>2. CASE saves # <<>>
    <3>1. Head(saves) = saves[1] /\ 1 \in 1..Len(saves)
      BY <2>2 DEF GitInv, GitTypeOK
    <3>2. SafeToLose(Head(saves).seen, Head(saves).warned)
      BY <3>1 DEF GitInv, QuestionsSound, Sound
    <3> QED
      BY <3>2 DEF SafeToLose, Overwrites
  <2> QED
    BY <2>1, <2>2
<1> QED
  BY <1>1, GitHolds, PTL DEF GitSpec, NoSilentLoss
=============================================================================
