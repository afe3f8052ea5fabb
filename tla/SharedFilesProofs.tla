-------------------------- MODULE SharedFilesProofs --------------------------
(***************************************************************************)
(* The theorems of the components whose processes meet in files: the       *)
(* known_hosts file, the backend's socket, the declared default and the    *)
(* secrets-ready waiter.  Each is proved of the component's own next-state *)
(* relation; they share this module and nothing else.                      *)
(***************************************************************************)
EXTENDS HostTrust, SocketLease, PublicDefault, ReadyWaiter, TLAPS

-----------------------------------------------------------------------------
(***************************************************************************)
(* No replaced key is connected to and known_hosts stays whole, for any    *)
(* TUIs, keys and number of scans, with any number of cut writes and of    *)
(* changes by other programs.  Who holds an inode's lock is the heart of   *)
(* it: nobody but ssh adds to an inode another TUI holds, so what a TUI    *)
(* read there is still what it adds to.                                    *)
(***************************************************************************)

TrustSpec == TrustInit /\ [][TrustNext]_trustVars

Holding == {"inspecting", "verifying", "appending", "saved"}
TrustPlaces == Holding \union {"idle", "asking", "checking", "locking", "connecting", "connected"}
Approvals == [pc : TrustPlaces, keys : SUBSET HostKeys, observed : SUBSET HostKeys, scans : Int,
              recorded : SUBSET HostKeys, cut : BOOLEAN, ino : Inodes \union {0}, new : BOOLEAN]

OneOfAType(ks) == \A k, l \in ks : Algorithm(k) = Algorithm(l) => k = l

TrustTypeOK ==
    /\ file \in [ino : Inodes, at : [Inodes -> [keys : SUBSET HostKeys, cut : BOOLEAN]], alien : BOOLEAN]
    /\ managed \in SUBSET HostKeys
    /\ flock \in [Inodes -> Tuis \union {NoTui}]
    /\ trust \in [Tuis -> Approvals]
    /\ hidden \in [Tuis -> BOOLEAN]
    /\ meddling \in Nat
    /\ file.ino + meddling <= MaxMeddling + 1

\* What holds of a TUI that is past a scan: its keys are one scan's, and no scan
\* since hid a replaced key.
Approved(t) == trust[t].pc # "idle" => OneOfAType(trust[t].keys) /\ ~hidden[t]

\* What holds of a TUI that has the file open: it holds that inode's lock, and
\* what it read there is still there; nothing but ssh added to it.
Open(t) ==
    LET a == trust[t] IN
    /\ a.pc \in Holding => a.ino \in Inodes /\ flock[a.ino] = t
    /\ a.pc \in {"verifying", "appending"} =>
          /\ a.recorded \subseteq RecordedIn(a.ino)
          /\ file.at[a.ino].cut => a.cut
          /\ ~file.alien => RecordedIn(a.ino) \subseteq a.keys
    /\ a.pc = "saved" => a.keys \subseteq RecordedIn(a.ino)

OneRecorded == ~file.alien => \A i \in Inodes : OneOfAType(RecordedIn(i))

TrustInv == TrustTypeOK /\ (\A t \in Tuis : Approved(t) /\ Open(t)) /\ OneRecorded

-----------------------------------------------------------------------------
LEMMA NoTrustIsApproval == NoTrust \in Approvals /\ NoTrust.pc = "idle"
BY DEF NoTrust, Approvals, TrustPlaces

LEMMA ScansAre == \A s \in Scans : s \subseteq HostKeys /\ OneOfAType(s)
BY DEF Scans, OneOfAType

LEMMA TrustInitially == TrustInit => TrustInv
<1> SUFFICES ASSUME TrustInit PROVE TrustInv
  OBVIOUS
<1>1. PICK before \in {{}} \union Scans :
         /\ file = [ino |-> 1, at |-> [i \in Inodes |-> IF i = 1 THEN [Empty EXCEPT !.keys = before] ELSE Empty],
                    alien |-> FALSE]
         /\ managed \in {{}} \union {s \in Scans : Cardinality(s) = 1 /\ before \union s \in Scans}
  BY DEF TrustInit
<1>2. before \subseteq HostKeys /\ managed \subseteq HostKeys /\ OneOfAType(before \union managed)
  <2>1. OneOfAType({})
    BY DEF OneOfAType
  <2>2. CASE managed = {}
    <3>1. before \union managed = before
      BY <2>2
    <3> QED
      BY <1>1, <2>1, <2>2, <3>1, ScansAre
  <2>3. CASE managed # {}
    <3>1. managed \in Scans /\ before \union managed \in Scans
      BY <1>1, <2>3
    <3> QED
      BY <3>1, ScansAre
  <2> QED
    BY <2>2, <2>3
<1>3. 1 \in Inodes /\ MaxMeddling \in Nat
  BY TrustBounds DEF Inodes
<1>4. \A i \in Inodes : RecordedIn(i) \subseteq before \union managed
  BY <1>1 DEF RecordedIn, Empty
<1>5. OneRecorded
  BY <1>2, <1>4 DEF OneRecorded, OneOfAType
<1>6. TrustTypeOK
  <2>1. file \in [ino : Inodes, at : [Inodes -> [keys : SUBSET HostKeys, cut : BOOLEAN]], alien : BOOLEAN]
    BY <1>1, <1>2, <1>3 DEF Empty
  <2>2. file.ino = 1 /\ meddling = MaxMeddling
    BY <1>1 DEF TrustInit
  <2> QED
    BY <1>2, <1>3, <2>1, <2>2, NoTrustIsApproval DEF TrustTypeOK, TrustInit
<1>7. \A t \in Tuis : Approved(t) /\ Open(t)
  BY NoTrustIsApproval DEF TrustInit, Approved, Open, Holding
<1> QED
  BY <1>5, <1>6, <1>7 DEF TrustInv

(***************************************************************************)
(* A TUI that goes where no lock is needed, keeping or dropping the one it *)
(* has, disturbs nobody else.                                              *)
(***************************************************************************)
LEMMA GoesOutside ==
    ASSUME TrustInv, NEW t \in Tuis, NEW a \in Approvals, a.pc \notin Holding,
           trust' = [trust EXCEPT ![t] = a],
           UNCHANGED flock \/ Release(t),
           NEW h \in BOOLEAN, hidden' = [hidden EXCEPT ![t] = h],
           a.pc # "idle" => OneOfAType(a.keys) /\ ~h,
           UNCHANGED <<file, managed>>, UNCHANGED meddling
    PROVE  TrustInv'
<1>1. TrustTypeOK'
  BY DEF TrustInv, TrustTypeOK, Release
<1>2. \A u \in Tuis : Approved(u)'
  BY DEF TrustInv, TrustTypeOK, Approved
<1>3. \A i \in Inodes : RecordedIn(i)' = RecordedIn(i)
  BY DEF RecordedIn
<1>4. ASSUME NEW u \in Tuis PROVE Open(u)'
  <2>1. CASE u = t
    BY <2>1 DEF TrustInv, TrustTypeOK, Open, Holding
  <2>2. CASE u # t
    <3>1. trust'[u] = trust[u]
      BY <2>2 DEF TrustInv, TrustTypeOK
    <3>2. trust[u].pc \in Holding => flock'[trust[u].ino] = u /\ trust[u].ino \in Inodes
      BY <2>2 DEF TrustInv, TrustTypeOK, Open, Release
    <3> QED
      BY <1>3, <3>1, <3>2 DEF TrustInv, Open, Holding
  <2> QED
    BY <2>1, <2>2
<1>5. OneRecorded'
  BY <1>3 DEF TrustInv, OneRecorded
<1> QED
  BY <1>1, <1>2, <1>4, <1>5 DEF TrustInv

LEMMA GivesUp ==
    ASSUME TrustInv, NEW t \in Tuis, GiveUp(t), UNCHANGED flock \/ Release(t),
           UNCHANGED <<file, managed, hidden, meddling>>
    PROVE  TrustInv'
<1>1. hidden' = [hidden EXCEPT ![t] = hidden[t]] /\ hidden[t] \in BOOLEAN
  BY DEF TrustInv, TrustTypeOK
<1>2. NoTrust.pc \notin Holding
  BY NoTrustIsApproval DEF Holding
<1> QED
  BY <1>1, <1>2, NoTrustIsApproval, GoesOutside DEF GiveUp

LEMMA PreflightStep ==
    ASSUME TrustInv, NEW t \in Tuis, NEW scan \in Scans, NEW direct, Preflight(t, scan, direct)
    PROVE  TrustInv'
<1>0. UNCHANGED flock /\ UNCHANGED <<file, managed>> /\ UNCHANGED meddling
      /\ hidden' = [hidden EXCEPT ![t] = FALSE]
  BY DEF Preflight
<1>1. CASE GiveUp(t)
  <2>1. NoTrust.pc \notin Holding
    BY NoTrustIsApproval DEF Holding
  <2> QED
    BY <1>0, <1>1, <2>1, NoTrustIsApproval, GoesOutside DEF GiveUp
<1>2. CASE ~GiveUp(t)
  <2> DEFINE a == [NoTrust EXCEPT !.pc = IF Recorded = {} THEN "asking" ELSE "connecting",
                                  !.keys = IF Recorded = {} THEN scan ELSE scan \cap Recorded,
                                  !.new = Recorded = {}]
  <2>1. trust' = [trust EXCEPT ![t] = a]
    BY <1>2 DEF Preflight
  <2>2. scan \subseteq HostKeys /\ OneOfAType(scan)
    BY ScansAre
  <2>3. a \in Approvals /\ a.pc \notin Holding /\ OneOfAType(a.keys)
    <3>1. OneOfAType(scan \cap Recorded)
      BY <2>2 DEF OneOfAType
    <3>2. CASE Recorded = {}
      <4>1. a = [NoTrust EXCEPT !.pc = "asking", !.keys = scan, !.new = TRUE]
        BY <3>2
      <4> HIDE DEF a
      <4>2. a.pc = "asking" /\ a.keys = scan
        BY <4>1 DEF NoTrust
      <4>3. a \in Approvals
        BY <2>2, <4>1, NoTrustIsApproval DEF Approvals, TrustPlaces
      <4> QED
        BY <2>2, <4>2, <4>3 DEF Holding
    <3>3. CASE Recorded # {}
      <4>1. a = [NoTrust EXCEPT !.pc = "connecting", !.keys = scan \cap Recorded, !.new = FALSE]
        BY <3>3
      <4> HIDE DEF a
      <4>2. a.pc = "connecting" /\ a.keys = scan \cap Recorded
        BY <4>1 DEF NoTrust
      <4>3. a \in Approvals
        BY <2>2, <4>1, NoTrustIsApproval DEF Approvals, TrustPlaces
      <4> QED
        BY <3>1, <4>2, <4>3 DEF Holding
    <3> QED
      BY <3>2, <3>3
  <2> HIDE DEF a
  <2> QED
    BY <1>0, <2>1, <2>3, GoesOutside
<1> QED
  BY <1>1, <1>2

LEMMA PreflightApprovedStep ==
    ASSUME TrustInv, NEW t \in Tuis, NEW scan \in Scans, NEW direct, PreflightApproved(t, scan, direct)
    PROVE  TrustInv'
<1> DEFINE b == trust[t]
           seen == b.observed \union (scan \cap b.keys)
           h == hidden[t] \/ (~(b.keys \subseteq scan) /\ ~(scan \subseteq b.keys))
<1>0. /\ b.pc \in {"checking", "connecting"}
      /\ UNCHANGED flock /\ UNCHANGED <<file, managed>> /\ UNCHANGED meddling
      /\ hidden' = [hidden EXCEPT ![t] = h]
      /\ h \in BOOLEAN
  BY DEF PreflightApproved
<1>1. b \in Approvals /\ OneOfAType(b.keys) /\ ~hidden[t]
  BY <1>0 DEF TrustInv, TrustTypeOK, Approved
<1>2. CASE GiveUp(t)
  <2>1. NoTrust.pc \notin Holding
    BY NoTrustIsApproval DEF Holding
  <2> QED
    BY <1>0, <1>2, <2>1, NoTrustIsApproval, GoesOutside DEF GiveUp
<1>3. CASE ~GiveUp(t)
  <2>1. ~h
    BY <1>1, <1>3 DEF PreflightApproved, Complete
  <2> DEFINE done == [b EXCEPT !.pc = IF b.pc = "checking" THEN "locking" ELSE "connected",
                               !.observed = {}, !.scans = 0]
             more == [b EXCEPT !.observed = seen, !.scans = @ + 1]
  <2>2. trust' = [trust EXCEPT ![t] = done] \/ trust' = [trust EXCEPT ![t] = more]
    <3>1. trust \in [Tuis -> Approvals]
      BY DEF TrustInv, TrustTypeOK
    <3>2. \/ trust' = [trust EXCEPT ![t].pc = IF b.pc = "checking" THEN "locking" ELSE "connected",
                                    ![t].observed = {}, ![t].scans = 0]
          \/ trust' = [trust EXCEPT ![t].observed = seen, ![t].scans = @ + 1]
      BY <1>3 DEF PreflightApproved
    <3> QED
      BY <3>1, <3>2 DEF Approvals
  <2>3. done \in Approvals /\ done.pc \notin Holding /\ done.keys = b.keys
    <3>1. done.pc \in {"locking", "connected"} /\ done.keys = b.keys
      BY <1>1 DEF Approvals
    <3>2. done \in Approvals
      <4> DEFINE place == IF b.pc = "checking" THEN "locking" ELSE "connected"
      <4>1. place \in TrustPlaces
        BY DEF TrustPlaces
      <4>2. {} \in SUBSET HostKeys /\ 0 \in Int
        OBVIOUS
      <4>3. done = [b EXCEPT !.pc = place, !.observed = {}, !.scans = 0]
        OBVIOUS
      <4> HIDE DEF place, b, done
      <4> QED
        BY <1>1, <4>1, <4>2, <4>3 DEF Approvals
    <3> QED
      BY <3>1, <3>2 DEF Holding
  <2>4. more \in Approvals /\ more.pc \notin Holding /\ more.keys = b.keys
    <3>1. seen \in SUBSET HostKeys /\ b.scans + 1 \in Int
      BY <1>1 DEF Approvals
    <3> HIDE DEF seen
    <3> QED
      BY <1>0, <1>1, <3>1 DEF Approvals, Holding
  <2> HIDE DEF b, h, done, more
  <2> QED
    BY <1>0, <1>1, <2>1, <2>2, <2>3, <2>4, GoesOutside
<1> QED
  BY <1>2, <1>3

\* A TUI that leaves the part that needs no lock changes its place only.
LEMMA PlaceStep ==
    ASSUME TrustInv, NEW t \in Tuis, NEW pc \in TrustPlaces \ (Holding \union {"idle"}), trust[t].pc # "idle",
           Go(t, pc), UNCHANGED flock \/ Release(t), UNCHANGED <<file, managed, hidden, meddling>>
    PROVE  TrustInv'
<1> DEFINE a == [trust[t] EXCEPT !.pc = pc]
<1>1. trust[t] \in Approvals
  BY DEF TrustInv, TrustTypeOK
<1>2. a \in Approvals /\ a.pc = pc /\ a.keys = trust[t].keys
  BY <1>1 DEF Approvals
<1>3. trust' = [trust EXCEPT ![t] = a]
  BY DEF Go, TrustInv, TrustTypeOK
<1>4. hidden' = [hidden EXCEPT ![t] = hidden[t]] /\ hidden[t] \in BOOLEAN
  BY DEF TrustInv, TrustTypeOK
<1>5. OneOfAType(trust[t].keys) /\ ~hidden[t]
  BY DEF TrustInv, Approved
<1> HIDE DEF a
<1> QED
  BY <1>2, <1>3, <1>4, <1>5, GoesOutside

(***************************************************************************)
(* A TUI that goes on with the file open, the file as it is.               *)
(***************************************************************************)
LEMMA GoesInside ==
    ASSUME TrustInv, NEW t \in Tuis, NEW a \in Approvals, trust' = [trust EXCEPT ![t] = a],
           trust[t].pc # "idle", a.keys = trust[t].keys,
           flock' = [flock EXCEPT ![a.ino] = t], a.ino \in Inodes, flock[a.ino] \in {NoTui, t},
           a.pc \in {"verifying", "appending"} =>
              /\ a.recorded \subseteq RecordedIn(a.ino) /\ (file.at[a.ino].cut => a.cut)
              /\ ~file.alien => RecordedIn(a.ino) \subseteq a.keys,
           a.pc = "saved" => a.keys \subseteq RecordedIn(a.ino),
           UNCHANGED <<file, managed, hidden, meddling>>
    PROVE  TrustInv'
<1>1. TrustTypeOK'
  BY DEF TrustInv, TrustTypeOK
<1>2. \A u \in Tuis : Approved(u)'
  BY DEF TrustInv, TrustTypeOK, Approved
<1>3. \A i \in Inodes : RecordedIn(i)' = RecordedIn(i)
  BY DEF RecordedIn
<1>4. ASSUME NEW u \in Tuis PROVE Open(u)'
  <2>1. CASE u = t
    <3>1. trust'[t] = a
      BY DEF TrustInv, TrustTypeOK
    <3>2. flock'[a.ino] = t
      BY DEF TrustInv, TrustTypeOK
    <3> QED
      BY <1>3, <2>1, <3>1, <3>2 DEF Open
  <2>2. CASE u # t
    <3>1. trust'[u] = trust[u]
      BY <2>2 DEF TrustInv, TrustTypeOK
    <3>2. trust[u].pc \in Holding => flock'[trust[u].ino] = u /\ trust[u].ino \in Inodes
      BY <2>2, TuiNamed DEF TrustInv, TrustTypeOK, Open
    <3> QED
      BY <1>3, <3>1, <3>2 DEF TrustInv, Open, Holding
  <2> QED
    BY <2>1, <2>2
<1>5. OneRecorded'
  BY <1>3 DEF TrustInv, OneRecorded
<1> QED
  BY <1>1, <1>2, <1>4, <1>5 DEF TrustInv

LEMMA LockStep ==
    ASSUME TrustInv, NEW t \in Tuis, LockKnownHosts(t)
    PROVE  TrustInv'
<1>1. CASE flock[file.ino] = NoTui
  <2> DEFINE a == [trust[t] EXCEPT !.pc = "inspecting", !.ino = file.ino]
  <2>1. trust[t] \in Approvals /\ file.ino \in Inodes /\ trust \in [Tuis -> Approvals]
    BY DEF TrustInv, TrustTypeOK
  <2>2. a \in Approvals /\ a.pc = "inspecting" /\ a.ino = file.ino /\ a.keys = trust[t].keys
    BY <2>1 DEF Approvals, TrustPlaces, Holding
  <2>3. /\ trust' = [trust EXCEPT ![t] = a] /\ flock' = [flock EXCEPT ![file.ino] = t]
        /\ trust[t].pc # "idle" /\ UNCHANGED <<file, managed, hidden, meddling>>
    BY <1>1, <2>1 DEF LockKnownHosts
  <2> HIDE DEF a
  <2> QED
    BY <1>1, <2>1, <2>2, <2>3, GoesInside
<1>2. CASE flock[file.ino] # NoTui
  BY <1>2, GivesUp DEF LockKnownHosts
<1> QED
  BY <1>1, <1>2

LEMMA InspectStep ==
    ASSUME TrustInv, NEW t \in Tuis, Inspect(t)
    PROVE  TrustInv'
<1> DEFINE i == trust[t].ino
           there == RecordedIn(i)
<1>0. trust[t].pc = "inspecting" /\ UNCHANGED <<file, managed, hidden, meddling>>
  BY DEF Inspect
<1>1. CASE there \subseteq trust[t].keys
  <2> DEFINE place == IF trust[t].keys \subseteq there THEN "saved" ELSE "verifying"
             c == file.at[i].cut
             a == [trust[t] EXCEPT !.recorded = there, !.cut = c, !.pc = place]
  <2>1. /\ trust[t] \in Approvals /\ trust \in [Tuis -> Approvals]
        /\ i \in Inodes /\ flock[i] = t /\ flock \in [Inodes -> Tuis \union {NoTui}]
    BY <1>0 DEF TrustInv, TrustTypeOK, Open, Holding
  <2>2. there \in SUBSET HostKeys /\ c \in BOOLEAN
    BY <2>1 DEF TrustInv, TrustTypeOK, RecordedIn
  <2>3. trust' = [trust EXCEPT ![t] = a]
    BY <1>1, <2>1 DEF Inspect, Approvals
  <2>4. place \in TrustPlaces /\ (place = "saved" => trust[t].keys \subseteq there) /\ place \notin {"appending"}
    BY DEF TrustPlaces, Holding
  <2>5. flock' = [flock EXCEPT ![i] = t]
    BY <1>1, <2>1 DEF Inspect
  <2> HIDE DEF there, c, place
  <2>6. a \in Approvals /\ a.pc = place /\ a.keys = trust[t].keys /\ a.ino = i /\ a.recorded = there
    BY <2>1, <2>2, <2>4 DEF Approvals
  <2>7. a.cut = c
    BY <2>1 DEF Approvals
  <2>8. there = RecordedIn(i) /\ c = file.at[i].cut
    BY DEF there, c
  <2> HIDE DEF a, i
  <2> QED
    BY <1>0, <1>1, <2>1, <2>3, <2>4, <2>5, <2>6, <2>7, <2>8, GoesInside
<1>2. CASE ~(there \subseteq trust[t].keys)
  BY <1>0, <1>2, GivesUp DEF Inspect
<1> QED
  BY <1>1, <1>2

LEMMA VerifyStep ==
    ASSUME TrustInv, NEW t \in Tuis, VerifyFile(t)
    PROVE  TrustInv'
<1>1. CASE file.ino = trust[t].ino
  <2> DEFINE a == [trust[t] EXCEPT !.pc = "appending"]
             i == trust[t].ino
  <2>0. trust[t].pc = "verifying" /\ UNCHANGED <<file, managed, hidden, meddling, flock>>
    BY <1>1 DEF VerifyFile
  <2>1. /\ trust[t] \in Approvals /\ trust \in [Tuis -> Approvals]
        /\ i \in Inodes /\ flock[i] = t /\ flock \in [Inodes -> Tuis \union {NoTui}]
    BY <2>0 DEF TrustInv, TrustTypeOK, Open, Holding
  <2>2. /\ trust[t].recorded \subseteq RecordedIn(i) /\ (file.at[i].cut => trust[t].cut)
        /\ ~file.alien => RecordedIn(i) \subseteq trust[t].keys
    BY <2>0 DEF TrustInv, Open
  <2>3. trust' = [trust EXCEPT ![t] = a]
    BY <1>1, <2>1 DEF VerifyFile, Go
  <2>4. /\ a \in Approvals /\ a.pc = "appending" /\ a.keys = trust[t].keys /\ a.ino = i
        /\ a.recorded = trust[t].recorded
    BY <2>1 DEF Approvals, TrustPlaces, Holding
  <2>5. a.cut = trust[t].cut
    BY <2>1 DEF Approvals
  <2>6. flock' = [flock EXCEPT ![i] = t]
    BY <2>0, <2>1
  <2> HIDE DEF a, i
  <2> QED
    BY <2>0, <2>1, <2>2, <2>3, <2>4, <2>5, <2>6, GoesInside
<1>2. CASE file.ino # trust[t].ino
  BY <1>2, GivesUp DEF VerifyFile
<1> QED
  BY <1>1, <1>2

(***************************************************************************)
(* What an append, whole or cut short, does to the inode its TUI holds: no *)
(* other TUI has that inode open, and what is on record stays of one kind, *)
(* since all of it is among the approved keys.                             *)
(***************************************************************************)
LEMMA AppendChanges ==
    ASSUME TrustInv, NEW t \in Tuis, trust[t].pc = "appending",
           NEW ks \in SUBSET (trust[t].keys \ trust[t].recorded), NEW c \in BOOLEAN,
           file' = [file EXCEPT !.at[trust[t].ino] = [keys |-> @.keys \union ks, cut |-> c]],
           UNCHANGED managed
    PROVE  /\ file' \in [ino : Inodes, at : [Inodes -> [keys : SUBSET HostKeys, cut : BOOLEAN]], alien : BOOLEAN]
           /\ file'.ino = file.ino
           /\ file'.at[trust[t].ino].keys = file.at[trust[t].ino].keys \union ks
           /\ \A u \in Tuis \ {t} : trust[u].pc \in Holding =>
                 /\ trust[u].ino # trust[t].ino
                 /\ file'.at[trust[u].ino] = file.at[trust[u].ino]
           /\ file'.alien = file.alien
           /\ OneRecorded'
<1> DEFINE i == trust[t].ino
           new == [keys |-> file.at[i].keys \union ks, cut |-> c]
<1>1. /\ i \in Inodes /\ flock[i] = t
      /\ ~file.alien => RecordedIn(i) \subseteq trust[t].keys
      /\ OneOfAType(trust[t].keys)
  BY DEF TrustInv, Open, Approved, Holding
<1>2. trust[t] \in Approvals /\ ks \subseteq HostKeys
  BY DEF TrustInv, TrustTypeOK, Approvals
<1>3. file \in [ino : Inodes, at : [Inodes -> [keys : SUBSET HostKeys, cut : BOOLEAN]], alien : BOOLEAN]
  BY DEF TrustInv, TrustTypeOK
<1>4. new \in [keys : SUBSET HostKeys, cut : BOOLEAN]
  BY <1>1, <1>2, <1>3
<1>5. /\ file' = [file EXCEPT !.at = [file.at EXCEPT ![i] = new]]
  BY <1>1, <1>3
<1>6. /\ file' \in [ino : Inodes, at : [Inodes -> [keys : SUBSET HostKeys, cut : BOOLEAN]], alien : BOOLEAN]
      /\ file'.ino = file.ino /\ file'.alien = file.alien
      /\ file'.at = [file.at EXCEPT ![i] = new]
  <2> HIDE DEF new, i
  <2> QED
    BY <1>1, <1>3, <1>4, <1>5
<1>7. /\ file'.at[i].keys = file.at[i].keys \union ks
      /\ \A j \in Inodes \ {i} : file'.at[j] = file.at[j]
  BY <1>1, <1>3, <1>6
<1>8. \A u \in Tuis \ {t} : trust[u].pc \in Holding => trust[u].ino # i /\ trust[u].ino \in Inodes
  BY <1>1 DEF TrustInv, Open
<1>9. OneRecorded'
  <2> SUFFICES ASSUME ~file.alien, NEW j \in Inodes PROVE OneOfAType(RecordedIn(j)')
    BY <1>6 DEF OneRecorded, OneOfAType
  <2>1. CASE j = i
    <3>1. RecordedIn(j)' \subseteq trust[t].keys
      BY <1>1, <1>7, <2>1 DEF RecordedIn
    <3> QED
      BY <1>1, <2>1, <3>1 DEF OneOfAType
  <2>2. CASE j # i
    BY <1>7, <2>2 DEF TrustInv, OneRecorded, RecordedIn
  <2> QED
    BY <2>1, <2>2
<1> QED
  BY <1>6, <1>7, <1>8, <1>9

LEMMA AppendKeysStep ==
    ASSUME TrustInv, NEW t \in Tuis, AppendKeys(t)
    PROVE  TrustInv'
<1> DEFINE i == trust[t].ino
           a == [trust[t] EXCEPT !.pc = "saved"]
<1>0. trust[t].pc = "appending" /\ UNCHANGED <<managed, flock, hidden, meddling>>
  BY DEF AppendKeys
<1>1. /\ i \in Inodes /\ flock[i] = t /\ trust[t].recorded \subseteq RecordedIn(i)
      /\ Added(t) = trust[t].keys \ trust[t].recorded
  BY <1>0 DEF TrustInv, Open, Holding, Added
<1>2. file' = [file EXCEPT !.at[i] = [keys |-> @.keys \union Added(t), cut |-> FALSE]]
  BY DEF AppendKeys
<1>3. /\ file' \in [ino : Inodes, at : [Inodes -> [keys : SUBSET HostKeys, cut : BOOLEAN]], alien : BOOLEAN]
      /\ file'.ino = file.ino
      /\ file'.at[i].keys = file.at[i].keys \union Added(t)
      /\ \A u \in Tuis \ {t} : trust[u].pc \in Holding =>
            /\ trust[u].ino # i
            /\ file'.at[trust[u].ino] = file.at[trust[u].ino]
      /\ file'.alien = file.alien
      /\ OneRecorded'
  BY <1>0, <1>1, <1>2, AppendChanges
<1>4. trust[t] \in Approvals /\ trust \in [Tuis -> Approvals]
  BY DEF TrustInv, TrustTypeOK
<1>5. a \in Approvals /\ a.pc = "saved" /\ a.keys = trust[t].keys /\ a.ino = i
  BY <1>4 DEF Approvals, TrustPlaces, Holding
<1>6. trust' = [trust EXCEPT ![t] = a]
  BY <1>4 DEF AppendKeys, Go
<1> HIDE DEF a
<1>7. TrustTypeOK'
  BY <1>0, <1>3, <1>4, <1>5, <1>6 DEF TrustInv, TrustTypeOK
<1>8. \A u \in Tuis : Approved(u)'
  BY <1>0, <1>4, <1>5, <1>6 DEF TrustInv, Approved
<1>9. ASSUME NEW u \in Tuis PROVE Open(u)'
  <2>1. CASE u = t
    <3>1. trust'[u] = a /\ flock'[i] = t
      BY <1>0, <1>1, <1>4, <1>6, <2>1
    <3>2. a.keys \subseteq file'.at[i].keys \union managed'
      BY <1>0, <1>1, <1>3, <1>5 DEF RecordedIn
    <3>3. trust'[u].ino = i /\ trust'[u].pc = "saved"
      BY <1>5, <3>1
    <3> QED
      BY <1>1, <2>1, <3>1, <3>2, <3>3 DEF Open, RecordedIn
  <2>2. CASE u # t
    <3>1. trust'[u] = trust[u]
      BY <1>4, <1>6, <2>2
    <3> QED
      BY <1>0, <1>3, <2>2, <3>1 DEF TrustInv, Open, Holding, RecordedIn
  <2> QED
    BY <2>1, <2>2
<1> QED
  BY <1>3, <1>7, <1>8, <1>9 DEF TrustInv

LEMMA AppendCutStep ==
    ASSUME TrustInv, NEW t \in Tuis, AppendCut(t)
    PROVE  TrustInv'
<1> DEFINE i == trust[t].ino
<1>0. trust[t].pc = "appending" /\ UNCHANGED <<managed, hidden>> /\ GiveUp(t) /\ Release(t) /\ Meddle
  BY DEF AppendCut
<1>1. PICK part \in SUBSET Added(t) :
         file' = [file EXCEPT !.at[i] = [keys |-> @.keys \union part, cut |-> TRUE]]
  BY DEF AppendCut
<1>2. part \in SUBSET (trust[t].keys \ trust[t].recorded)
  BY DEF Added
<1>3. /\ file' \in [ino : Inodes, at : [Inodes -> [keys : SUBSET HostKeys, cut : BOOLEAN]], alien : BOOLEAN]
      /\ file'.ino = file.ino
      /\ \A u \in Tuis \ {t} : trust[u].pc \in Holding =>
            /\ trust[u].ino # i
            /\ file'.at[trust[u].ino] = file.at[trust[u].ino]
      /\ file'.alien = file.alien
      /\ OneRecorded'
  BY <1>0, <1>1, <1>2, AppendChanges
<1>4. trust \in [Tuis -> Approvals] /\ trust' = [trust EXCEPT ![t] = NoTrust]
  BY <1>0 DEF TrustInv, TrustTypeOK, GiveUp
<1>5. TrustTypeOK'
  <2>1. meddling' \in Nat /\ file'.ino + meddling' <= MaxMeddling + 1
    BY <1>0, <1>3, TrustBounds DEF TrustInv, TrustTypeOK, Meddle, Inodes
  <2>2. flock' \in [Inodes -> Tuis \union {NoTui}]
    BY <1>0 DEF TrustInv, TrustTypeOK, Release
  <2> QED
    BY <1>0, <1>3, <1>4, <2>1, <2>2, NoTrustIsApproval DEF TrustInv, TrustTypeOK
<1>6. \A u \in Tuis : Approved(u)'
  BY <1>0, <1>4, NoTrustIsApproval DEF TrustInv, Approved
<1>7. ASSUME NEW u \in Tuis PROVE Open(u)'
  <2>1. CASE u = t
    BY <1>4, <2>1, NoTrustIsApproval DEF Open, Holding
  <2>2. CASE u # t
    <3>1. trust'[u] = trust[u]
      BY <1>4, <2>2
    <3>2. trust[u].pc \in Holding => flock'[trust[u].ino] = u /\ trust[u].ino \in Inodes
      BY <1>0, <2>2 DEF TrustInv, Open, Release
    <3> QED
      BY <1>0, <1>3, <2>2, <3>1, <3>2 DEF TrustInv, Open, Holding, RecordedIn
  <2> QED
    BY <2>1, <2>2
<1> QED
  BY <1>3, <1>5, <1>6, <1>7 DEF TrustInv

LEMMA ReplaceFileStep ==
    ASSUME TrustInv, ReplaceFile
    PROVE  TrustInv'
<1>1. /\ file' = [file EXCEPT !.ino = file.ino + 1] /\ meddling > 0 /\ meddling' = meddling - 1
      /\ UNCHANGED <<managed, flock, trust, hidden>>
  BY DEF ReplaceFile, Meddle
<1>2. file.ino + 1 \in Inodes /\ meddling' \in Nat /\ file.ino + 1 + meddling' <= MaxMeddling + 1
  BY <1>1, TrustBounds DEF TrustInv, TrustTypeOK, Inodes
<1>3. /\ file' \in [ino : Inodes, at : [Inodes -> [keys : SUBSET HostKeys, cut : BOOLEAN]], alien : BOOLEAN]
      /\ file'.at = file.at /\ file'.alien = file.alien /\ file'.ino = file.ino + 1
  <2> DEFINE n == file.ino + 1
  <2>1. n \in Inodes /\ file' = [file EXCEPT !.ino = n]
    BY <1>1, <1>2
  <2> HIDE DEF n
  <2>2. /\ file' \in [ino : Inodes, at : [Inodes -> [keys : SUBSET HostKeys, cut : BOOLEAN]], alien : BOOLEAN]
        /\ file'.at = file.at /\ file'.alien = file.alien /\ file'.ino = n
    BY <2>1 DEF TrustInv, TrustTypeOK
  <2> QED
    BY <2>2 DEF n
<1>4. TrustTypeOK'
  BY <1>1, <1>2, <1>3 DEF TrustInv, TrustTypeOK
<1>5. \A u \in Tuis : Approved(u)' /\ Open(u)'
  BY <1>1, <1>3 DEF TrustInv, Approved, Open, RecordedIn
<1>6. OneRecorded'
  BY <1>1, <1>3 DEF TrustInv, OneRecorded, RecordedIn
<1> QED
  BY <1>4, <1>5, <1>6 DEF TrustInv

LEMMA AppendBySshStep ==
    ASSUME TrustInv, NEW k \in HostKeys, AppendBySsh(k)
    PROVE  TrustInv'
<1> DEFINE i == file.ino
           new == [file.at[i] EXCEPT !.keys = file.at[i].keys \union {k}]
<1>0. file \in [ino : Inodes, at : [Inodes -> [keys : SUBSET HostKeys, cut : BOOLEAN]], alien : BOOLEAN]
  BY DEF TrustInv, TrustTypeOK
<1>1. /\ file' = [file EXCEPT !.at[file.ino].keys = @ \union {k}, !.alien = TRUE]
      /\ meddling > 0 /\ meddling' = meddling - 1
      /\ UNCHANGED <<managed, flock, trust, hidden>>
  BY DEF AppendBySsh, Meddle
<1>2. new \in [keys : SUBSET HostKeys, cut : BOOLEAN] /\ new.cut = file.at[i].cut
      /\ new.keys = file.at[i].keys \union {k} /\ i \in Inodes
  BY <1>0
<1>3. file' = [file EXCEPT !.at = [file.at EXCEPT ![i] = new], !.alien = TRUE]
  BY <1>0, <1>1
<1> HIDE DEF new, i
<1>4. /\ file' \in [ino : Inodes, at : [Inodes -> [keys : SUBSET HostKeys, cut : BOOLEAN]], alien : BOOLEAN]
      /\ file'.at = [file.at EXCEPT ![i] = new] /\ file'.alien = TRUE /\ file'.ino = file.ino
  BY <1>0, <1>2, <1>3
<1>5. meddling' \in Nat /\ file'.ino + meddling' <= MaxMeddling + 1
  BY <1>1, <1>4, TrustBounds DEF TrustInv, TrustTypeOK, Inodes
<1>6. TrustTypeOK'
  BY <1>1, <1>4, <1>5 DEF TrustInv, TrustTypeOK
<1>7. \A j \in Inodes : RecordedIn(j) \subseteq RecordedIn(j)' /\ file'.at[j].cut = file.at[j].cut
  BY <1>0, <1>1, <1>2, <1>4 DEF RecordedIn
<1>8. ASSUME NEW u \in Tuis PROVE Approved(u)' /\ Open(u)'
  <2>1. trust[u].pc \in Holding => trust[u].ino \in Inodes
    BY DEF TrustInv, Open
  <2>2. Approved(u)'
    BY <1>1 DEF TrustInv, Approved
  <2>3. Open(u)'
    <3>1. trust[u].pc \in Holding =>
             /\ RecordedIn(trust[u].ino) \subseteq file'.at[trust[u].ino].keys \union managed'
             /\ file'.at[trust[u].ino].cut = file.at[trust[u].ino].cut
      BY <1>7, <2>1 DEF RecordedIn
    <3> QED
      BY <1>1, <1>4, <3>1 DEF TrustInv, Open, Holding, RecordedIn
  <2> QED
    BY <2>2, <2>3
<1>9. OneRecorded'
  BY <1>4 DEF OneRecorded
<1> QED
  BY <1>6, <1>8, <1>9 DEF TrustInv

LEMMA TrustSteps == TrustInv /\ [TrustNext]_trustVars => TrustInv'
<1> SUFFICES ASSUME TrustInv, [TrustNext]_trustVars PROVE TrustInv'
  OBVIOUS
<1>1. ASSUME NEW t \in Tuis, NEW scan \in Scans, NEW direct,
             Preflight(t, scan, direct) \/ PreflightApproved(t, scan, direct)
      PROVE  TrustInv'
  BY <1>1, PreflightStep, PreflightApprovedStep
<1>2. ASSUME NEW t \in Tuis, NEW yes \in BOOLEAN, AnswerTrust(t, yes) PROVE TrustInv'
  <2>1. CASE yes
    <3>1. trust[t].pc # "idle" /\ Go(t, "checking") /\ UNCHANGED flock /\ UNCHANGED <<file, managed, hidden, meddling>>
      BY <1>2, <2>1 DEF AnswerTrust
    <3>2. "checking" \in TrustPlaces \ (Holding \union {"idle"})
      BY DEF TrustPlaces, Holding
    <3> QED
      BY <3>1, <3>2, PlaceStep
  <2>2. CASE ~yes
    BY <1>2, <2>2, GivesUp DEF AnswerTrust
  <2> QED
    BY <2>1, <2>2
<1>3. ASSUME NEW t \in Tuis, ScanFails(t) \/ SecondaryUnsafe(t) \/ Connect(t) PROVE TrustInv'
  BY <1>3, GivesUp DEF ScanFails, SecondaryUnsafe, Connect
<1>4. ASSUME NEW t \in Tuis, LockKnownHosts(t) \/ Inspect(t) \/ VerifyFile(t) PROVE TrustInv'
  BY <1>4, LockStep, InspectStep, VerifyStep
<1>5. ASSUME NEW t \in Tuis, AppendKeys(t) \/ AppendCut(t) PROVE TrustInv'
  BY <1>5, AppendKeysStep, AppendCutStep
<1>6. ASSUME NEW t \in Tuis, Unlocked(t) PROVE TrustInv'
  <2>1. trust[t].pc # "idle" /\ Go(t, "connecting") /\ Release(t) /\ UNCHANGED <<file, managed, hidden, meddling>>
    BY <1>6 DEF Unlocked
  <2>2. "connecting" \in TrustPlaces \ (Holding \union {"idle"})
    BY DEF TrustPlaces, Holding
  <2> QED
    BY <2>1, <2>2, PlaceStep
<1>7. ASSUME ReplaceFile \/ \E k \in HostKeys : AppendBySsh(k) PROVE TrustInv'
  BY <1>7, ReplaceFileStep, AppendBySshStep
<1>8. CASE UNCHANGED trustVars
  BY <1>8 DEF trustVars, TrustInv, TrustTypeOK, Approved, Open, OneRecorded, RecordedIn
<1> QED
  BY <1>1, <1>2, <1>3, <1>4, <1>5, <1>6, <1>7, <1>8 DEF TrustNext

LEMMA TrustHolds == TrustSpec => []TrustInv
BY TrustInitially, TrustSteps, PTL DEF TrustSpec

\* No connection follows a scan that showed another key in place of an approved
\* one (preflight_approved_with), for any TUIs, any keys and any number of scans.
THEOREM TrustNoKeyReplaced == TrustSpec => []NoKeyReplaced
<1>1. TrustInv => NoKeyReplaced
  BY DEF TrustInv, Approved, NoKeyReplaced
<1> QED
  BY TrustHolds, <1>1, PTL

\* What is reported as saved is on record, and one key of a type at most unless
\* another program adds one (persist_accepted), for any number of TUIs, of cut
\* writes and of replaced files.
THEOREM TrustKnownHostsWhole == TrustSpec => []KnownHostsWhole
<1>1. TrustInv => KnownHostsWhole
  BY DEF TrustInv, TrustTypeOK, Open, OneRecorded, OneOfAType, KnownHostsWhole, Recorded
<1> QED
  BY TrustHolds, <1>1, PTL

-----------------------------------------------------------------------------
(***************************************************************************)
(* One backend per repository, for any frontends and any number of backend *)
(* processes, crashes and leavings.  OneBroker is not inductive: why the   *)
(* path names the serving backend is a matter of who holds the lock.       *)
(***************************************************************************)

LeaseSpec == LeaseInit /\ [][LeaseNext]_leaseVars

\* The places of run between acquire_or_attach and the end of the process.
Owning == {"probing", "evaluating", "preparing", "binding", "bound", "serving"}
DaemonPlaces == Owning \cup {"new", "locking", "blocked", "attached", "dying", "closed", "ended"}
ClientPlaces == {"away", "checking", "waiting", "removing", "launching", "connected", "failed"}

LeaseTypeOK ==
    /\ lease \in Daemons \cup {0} /\ socket \in Daemons \cup {0}
    /\ daemon \in [Daemons -> [pc : DaemonPlaces, watched : Daemons \cup {0}]]
    /\ client \in [Frontends -> [pc : ClientPlaces, child : Daemons \cup {0}, at : Daemons \cup {0}]]
    /\ launched \in 0..MaxLaunched /\ endings \in Nat

\* A process past the lock holds it, and a backend that has bound finds its own
\* socket at the path or none.
OwnerHoldsLease ==
    \A b \in Daemons : /\ daemon[b].pc \in Owning => lease = b
                       /\ daemon[b].pc \in {"bound", "serving"} => socket \in {0, b}

\* A connection is to some backend that was started.
ConnectedSomewhere == \A c \in Frontends : client[c].pc = "connected" => client[c].at \in Daemons

LeaseInv == LeaseTypeOK /\ OwnerHoldsLease /\ ConnectedSomewhere

LEMMA LeaseInitially == LeaseInit => LeaseInv
BY LeaseBounds DEF LeaseInit, LeaseInv, LeaseTypeOK, OwnerHoldsLease, ConnectedSomewhere, NewClient,
     Daemons, DaemonPlaces, ClientPlaces, Owning

LEMMA DaemonSteps ==
    ASSUME LeaseInv, NEW b \in Daemons,
           \/ TryLock(b) \/ LiveBackend(b) \/ WatchExisting(b) \/ PrepareSocketPath(b)
           \/ Bind(b) \/ Serve(b) \/ SocketGone(b) \/ ServeFails(b) \/ Crash(b) \/ Exited(b)
           \/ \E good \in BOOLEAN : Evaluate(b, good)
    PROVE LeaseInv'
<1> USE DEF LeaseInv, LeaseTypeOK, OwnerHoldsLease, ConnectedSomewhere, DaemonGoes, Unlease, Ends,
            DaemonPlaces, Owning
<1>0. 0 \notin Daemons
  BY DEF Daemons
<1>1. CASE TryLock(b)
  BY <1>0, <1>1 DEF TryLock
<1>2. CASE LiveBackend(b)
  <2>1. PICK r \in ProbeResults :
            CASE r = "answered" -> DaemonGoes(b, "attached") /\ Unlease(b)
              [] r = "nobody" -> /\ DaemonGoes(b, IF daemon[b].pc = "probing" THEN "evaluating" ELSE "locking")
                                 /\ UNCHANGED lease
              [] OTHER -> Ends(b)
    BY <1>2 DEF LiveBackend
  <2>2. \/ DaemonGoes(b, "attached") /\ Unlease(b)
        \/ DaemonGoes(b, IF daemon[b].pc = "probing" THEN "evaluating" ELSE "locking") /\ UNCHANGED lease
        \/ Ends(b)
    BY <2>1
  <2> QED
    BY <1>0, <1>2, <2>2 DEF LiveBackend
<1>3. CASE WatchExisting(b)
  BY <1>0, <1>3 DEF WatchExisting
<1>4. CASE PrepareSocketPath(b)
  BY <1>0, <1>4 DEF PrepareSocketPath
<1>5. CASE Bind(b)
  BY <1>0, <1>5 DEF Bind
<1>6. CASE Serve(b)
  BY <1>0, <1>6 DEF Serve
<1>7. CASE SocketGone(b)
  BY <1>0, <1>7 DEF SocketGone
<1>8. CASE Crash(b)
  BY <1>0, <1>8 DEF Crash
<1>9. CASE Exited(b)
  BY <1>0, <1>9 DEF Exited
<1>10. CASE \E good \in BOOLEAN : Evaluate(b, good)
  BY <1>0, <1>10 DEF Evaluate
<1>11. CASE ServeFails(b)
  BY <1>0, <1>11 DEF ServeFails
<1> QED
  BY <1>1, <1>2, <1>3, <1>4, <1>5, <1>6, <1>7, <1>8, <1>9, <1>10, <1>11

\* A frontend that takes note of the backend it started stays well-typed.
LEMMA ClientStarts ==
    ASSUME NEW D, NEW F, NEW f \in [F -> [pc : ClientPlaces, child : D \cup {0}, at : D \cup {0}]],
           NEW c \in F, NEW k \in D
    PROVE  [f EXCEPT ![c].pc = "waiting", ![c].child = k]
              \in [F -> [pc : ClientPlaces, child : D \cup {0}, at : D \cup {0}]]
BY DEF ClientPlaces

LEMMA FrontendSteps ==
    ASSUME LeaseInv, NEW c \in Frontends,
           \/ ConnectReady(c) \/ BackendLockHeld(c) \/ RemoveStaleSocket(c) \/ Start(c)
           \/ StartupError(c) \/ ConnectDeadline(c) \/ ConnectionBreaks(c) \/ Leave(c)
    PROVE LeaseInv'
<1> USE DEF LeaseInv, LeaseTypeOK, OwnerHoldsLease, ConnectedSomewhere, ClientGoes, NewClient, ClientPlaces
<1>1. CASE ConnectReady(c)
  <2>1. PICK r \in ProbeResults :
            CASE r = "answered" -> client' = [client EXCEPT ![c].pc = "connected", ![c].at = socket]
              [] r = "error" -> ClientGoes(c, "failed")
              [] OTHER -> client[c].pc = "away" /\ ClientGoes(c, "checking")
    BY <1>1 DEF ConnectReady
  <2>2. CASE r = "answered"
    <3>1. client' = [client EXCEPT ![c].pc = "connected", ![c].at = socket]
      BY <2>1, <2>2
    <3>2. socket \in Daemons
      BY <2>2 DEF ProbeResults
    <3> QED
      BY <1>1, <3>1, <3>2 DEF ConnectReady
  <2>3. CASE r # "answered"
    <3>1. ClientGoes(c, "failed") \/ ClientGoes(c, "checking")
      BY <2>1, <2>3
    <3> QED
      BY <1>1, <3>1 DEF ConnectReady
  <2> QED
    BY <2>2, <2>3
<1>2. CASE BackendLockHeld(c)
  BY <1>2 DEF BackendLockHeld
<1>3. CASE RemoveStaleSocket(c)
  BY <1>3 DEF RemoveStaleSocket
<1>4. CASE Start(c)
  <2>1. launched + 1 \in Daemons /\ launched' \in 0..MaxLaunched
    BY <1>4, LeaseBounds DEF Start, Daemons
  <2>2. LeaseTypeOK'
    <3> DEFINE k == launched + 1
    <3>1. /\ daemon' = [daemon EXCEPT ![k].pc = "locking"]
          /\ client' = [client EXCEPT ![c].pc = "waiting", ![c].child = k]
          /\ UNCHANGED <<lease, socket, endings>>
      BY <1>4 DEF Start
    <3>2. k \in Daemons
      BY <2>1
    <3> HIDE DEF k
    <3>3. daemon' \in [Daemons -> [pc : DaemonPlaces, watched : Daemons \cup {0}]]
      BY <3>1, <3>2 DEF DaemonPlaces
    <3>4. client' \in [Frontends -> [pc : ClientPlaces, child : Daemons \cup {0}, at : Daemons \cup {0}]]
      BY <3>1, <3>2, ClientStarts
    <3> QED
      BY <2>1, <3>1, <3>3, <3>4
  <2>3. \A b \in Daemons : daemon'[b].pc = IF b = launched + 1 THEN "locking" ELSE daemon[b].pc
    BY <1>4, <2>1 DEF Start
  <2>4. OwnerHoldsLease'
    BY <1>4, <2>3 DEF Start, Owning
  <2>5. ConnectedSomewhere'
    BY <1>4 DEF Start
  <2> QED
    BY <2>2, <2>4, <2>5
<1>5. CASE StartupError(c)
  BY <1>5 DEF StartupError
<1>6. CASE ConnectDeadline(c)
  BY <1>6 DEF ConnectDeadline
<1>7. CASE ConnectionBreaks(c)
  BY <1>7 DEF ConnectionBreaks
<1>8. CASE Leave(c)
  BY <1>8 DEF Leave
<1> QED
  BY <1>1, <1>2, <1>3, <1>4, <1>5, <1>6, <1>7, <1>8

LEMMA LeaseHolds == LeaseSpec => []LeaseInv
<1>1. LeaseInv /\ [LeaseNext]_leaseVars => LeaseInv'
  <2> SUFFICES ASSUME LeaseInv, [LeaseNext]_leaseVars PROVE LeaseInv'
    OBVIOUS
  <2>1. CASE LeaseNext
    BY <2>1, DaemonSteps, FrontendSteps DEF LeaseNext
  <2>2. CASE UNCHANGED leaseVars
    BY <2>2 DEF leaseVars, LeaseInv, LeaseTypeOK, OwnerHoldsLease, ConnectedSomewhere
  <2> QED
    BY <2>1, <2>2
<1> QED
  BY LeaseInitially, <1>1, PTL DEF LeaseSpec

\* All frontends that talk to a running backend talk to the same one, and the path
\* never names another, for any number of frontends, backends and crashes: the lock
\* taken in acquire_or_attach is held until the process is past serving.
THEOREM LeaseOneBroker == LeaseSpec => []OneBroker
<1>1. LeaseInv => OneBroker
  BY DEF LeaseInv, OwnerHoldsLease, ConnectedSomewhere, OneBroker, Owning
<1> QED
  BY LeaseHolds, <1>1, PTL

-----------------------------------------------------------------------------
(***************************************************************************)
(* A declared default yields to every value that is not its own, for any   *)
(* set of declarable contents and any number of deployments, rebuilds,     *)
(* edits and crashes.                                                      *)
(***************************************************************************)

DefaultSpec == DefaultInit /\ [][DefaultNext]_defaultVars

Words == Defaults \union {"op", "mock", "none"}
Values == [version : Words, content : Words, framed : BOOLEAN]

DefaultTypeOK ==
    /\ installed \in [Leaves -> Values]
    /\ declared \in Declarations
    /\ unit \in [pc : {"idle", "locking", "recording"}, value : Values]
    /\ mock \in [pc : {"idle", "publishing"}, values : [Leaves -> Values]]

\* A public leaf without a version is an absent one, and a mock value of it is
\* the mock value.
NamedWhenThere ==
    /\ installed[PublicLeaf].version = "none" => installed[PublicLeaf] = Absent
    /\ mock.values[PublicLeaf] \in {Absent, Mocked}

\* What the unit is about to install is named by its contents, and once it is
\* published it is among what this unit ever installed.
UnitInstallsNamed ==
    unit.pc # "idle" => /\ unit.value.version = unit.value.content
                        /\ unit.value.version # "none"
                        /\ unit.pc = "recording" => unit.value.content \in ours

\* The record names contents this unit installed; a crash before the record
\* leaves the older one.
RecordedIsOurs == provenance \in ours \union {"none"}

DefaultInv == DefaultTypeOK /\ NamedWhenThere /\ UnitInstallsNamed /\ RecordedIsOurs

LEMMA ValuesAre == Absent \in Values /\ Mocked \in Values /\ OperatorValues \subseteq Values
BY DEF Absent, Mocked, OperatorValues, Values, Words

LEMMA UsableIsNamed ==
    ASSUME declared \in Declarations, UsableDefault # Absent
    PROVE  /\ UsableDefault \in Values
           /\ UsableDefault.version = UsableDefault.content
           /\ UsableDefault.version # "none"
BY DEF UsableDefault, Declarations, Absent, Values, Words

LEMMA DefaultInitially == DefaultInit => DefaultInv
BY ValuesAre DEF DefaultInit, DefaultInv, DefaultTypeOK, NamedWhenThere, UnitInstallsNamed, RecordedIsOurs,
     IdleUnit, Leaves

LEMMA UnitSteps ==
    ASSUME DefaultInv, StartUnit \/ DecideAndPublish \/ RecordInstalled \/ UnitEnds
    PROVE  DefaultInv'
<1> USE DEF DefaultInv, DefaultTypeOK, NamedWhenThere, UnitInstallsNamed, RecordedIsOurs
<1>1. CASE StartUnit
  BY <1>1, UsableIsNamed DEF StartUnit
<1>2. CASE DecideAndPublish
  <2>1. CASE Decide \in {"install", "replace"}
    <3>1. /\ unit.pc = "locking"
          /\ installed' = [installed EXCEPT ![PublicLeaf] = unit.value]
          /\ ours' = ours \union {unit.value.content}
          /\ unit' = [unit EXCEPT !.pc = "recording"]
          /\ UNCHANGED <<provenance, declared, mock>>
      BY <1>2, <2>1 DEF DecideAndPublish
    <3>2. unit' \in [pc : {"idle", "locking", "recording"}, value : Values] /\ unit'.value = unit.value
      BY <3>1
    <3>3. installed' \in [Leaves -> Values] /\ installed'[PublicLeaf] = unit.value
      BY <3>1 DEF Leaves
    <3> QED
      BY <3>1, <3>2, <3>3
  <2>2. CASE Decide \notin {"install", "replace"}
    BY <1>2, <2>2, ValuesAre DEF DecideAndPublish, IdleUnit
  <2> QED
    BY <2>1, <2>2
<1>3. CASE RecordInstalled
  BY <1>3, ValuesAre DEF RecordInstalled, IdleUnit
<1>4. CASE UnitEnds
  BY <1>4, ValuesAre DEF UnitEnds, IdleUnit
<1> QED
  BY <1>1, <1>2, <1>3, <1>4

LEMMA MockSteps ==
    ASSUME DefaultInv, StartMock \/ MockMissing \/ PublishMock
    PROVE  DefaultInv'
<1> USE DEF DefaultInv, DefaultTypeOK, NamedWhenThere, UnitInstallsNamed, RecordedIsOurs
<1>1. CASE StartMock
  <2>1. \A l \in Leaves : MockValue(l) \in Values
    BY ValuesAre DEF MockValue, FramedFrom, Values, Leaves, Base
  <2>2. MockValue(PublicLeaf) = Mocked
    BY DEF MockValue, PublicLeaf, FramedLeaf
  <2> QED
    BY <1>1, <2>1, <2>2, ValuesAre DEF StartMock, Leaves
<1>2. CASE MockMissing
  BY <1>2 DEF MockMissing
<1>3. CASE PublishMock
  <2>1. Mocked.version # "none"
    BY DEF Mocked
  <2> QED
    BY <1>3, <2>1 DEF PublishMock, Leaves
<1> QED
  BY <1>1, <1>2, <1>3

LEMMA OtherSteps ==
    ASSUME DefaultInv,
           \/ FileEdited
           \/ \E v \in OperatorValues : OperatorDeploys(PublicLeaf, v) \/ OperatorDeploys(Base, v)
           \/ \E d \in Declarations : Rebuilt(d)
    PROVE  DefaultInv'
<1> USE DEF DefaultInv, DefaultTypeOK, NamedWhenThere, UnitInstallsNamed, RecordedIsOurs
<1>1. CASE FileEdited
  <2>1. installed' = [installed EXCEPT ![PublicLeaf].content = "op"] /\ installed[PublicLeaf] # Absent
    BY <1>1 DEF FileEdited
  <2>2. installed' \in [Leaves -> Values] /\ installed'[PublicLeaf].version = installed[PublicLeaf].version
    BY <2>1 DEF Leaves, Values, Words
  <2> QED
    BY <1>1, <2>1, <2>2 DEF FileEdited
<1>2. ASSUME NEW v \in OperatorValues, OperatorDeploys(PublicLeaf, v) \/ OperatorDeploys(Base, v)
      PROVE  DefaultInv'
  <2>1. v \in Values /\ v.version # "none"
    BY ValuesAre, DefaultNamed DEF OperatorValues
  <2>2. PublicLeaf # Base /\ PublicLeaf \in Leaves /\ Base \in Leaves
    BY DEF PublicLeaf, Base, Leaves
  <2> QED
    BY <1>2, <2>1, <2>2 DEF OperatorDeploys
<1>3. ASSUME NEW d \in Declarations, Rebuilt(d) PROVE DefaultInv'
  BY <1>3 DEF Rebuilt
<1> QED
  BY <1>1, <1>2, <1>3

LEMMA DefaultHolds == DefaultSpec => []DefaultInv
<1>1. DefaultInv /\ [DefaultNext]_defaultVars => DefaultInv'
  <2> SUFFICES ASSUME DefaultInv, [DefaultNext]_defaultVars PROVE DefaultInv'
    OBVIOUS
  <2>1. CASE DefaultNext
    BY <2>1, UnitSteps, MockSteps, OtherSteps DEF DefaultNext
  <2>2. CASE UNCHANGED defaultVars
    BY <2>2 DEF defaultVars, DefaultInv, DefaultTypeOK, NamedWhenThere, UnitInstallsNamed, RecordedIsOurs
  <2> QED
    BY <2>1, <2>2
<1> QED
  BY DefaultInitially, <1>1, PTL DEF DefaultSpec

\* A step that publishes a default over a value publishes it over contents this
\* unit installed itself: only DecideAndPublish publishes one, and what `decide`
\* compares (the record, the version, the contents) then names such contents.
LEMMA ReplacesOnlyOurs ==
    ASSUME DefaultInv, [DefaultNext]_defaultVars,
           unit.pc = "locking", unit'.pc = "recording", installed[PublicLeaf] # Absent
    PROVE  installed[PublicLeaf].content \in ours
<1>1. DecideAndPublish
  <2>1. unit' # unit
    OBVIOUS
  <2>2. ~ StartUnit /\ ~ RecordInstalled
    BY DEF StartUnit, RecordInstalled
  <2>3. ~ UnitEnds
    BY DEF UnitEnds, IdleUnit
  <2>4. ~ StartMock /\ ~ MockMissing /\ ~ PublishMock /\ ~ FileEdited
    BY <2>1 DEF StartMock, MockMissing, PublishMock, FileEdited
  <2>5. \A v : ~ OperatorDeploys(PublicLeaf, v) /\ ~ OperatorDeploys(Base, v)
    BY <2>1 DEF OperatorDeploys
  <2>6. \A d : ~ Rebuilt(d)
    BY DEF Rebuilt
  <2> QED
    BY <2>1, <2>2, <2>3, <2>4, <2>5, <2>6 DEF DefaultNext, defaultVars
<1>2. Decide \in {"install", "replace"}
  BY <1>1 DEF DecideAndPublish, IdleUnit
<1>3. provenance = installed[PublicLeaf].version /\ installed[PublicLeaf].content = installed[PublicLeaf].version
  BY <1>2 DEF Decide
<1> QED
  BY <1>3 DEF DefaultInv, NamedWhenThere, RecordedIsOurs

\* A declared default never takes the place of contents the default's unit did not
\* itself install (decide in public_default.rs), however many deployments, edits
\* and rebuilds there are and wherever a run of the unit ends.
THEOREM DefaultAlwaysYields == DefaultSpec => DefaultYields
<1>1. DefaultInv /\ [DefaultNext]_defaultVars =>
        [(unit.pc = "locking" /\ unit'.pc = "recording" /\ installed[PublicLeaf] # Absent)
            => installed[PublicLeaf].content \in ours]_defaultVars
  BY ReplacesOnlyOurs
<1> QED
  BY DefaultHolds, <1>1, PTL DEF DefaultSpec, DefaultYields

-----------------------------------------------------------------------------
(***************************************************************************)
(* The status of a waiting unit is recent, for any manifest, intervals and *)
(* number of polls.  A status that was sent dates from last_status; without*)
(* an error on record it shows the missing list on record, so that a list  *)
(* that is found unchanged need not be sent again.                         *)
(***************************************************************************)

SecretNames == {DeclaredSecrets[i] : i \in Nat}
Texts == [kind : {"none", "missing", "error", "ready"}, missing : Seq(SecretNames)]
MissingText(missing) == [kind |-> "missing", missing |-> missing]
ErrorText == [kind |-> "error", missing |-> <<>>]
Progresses == [missing : Seq(SecretNames), error : BOOLEAN, lastStatus : Nat, lastLog : Nat]
StatusTexts == [text : Texts, since : Nat, lost : BOOLEAN]
Polls == [pc : {"next", "looking", "ready", "not ready"}, at : Nat, read : BOOLEAN, pruned : BOOLEAN,
          missing : Seq(SecretNames), last : Texts]

WaiterTypes ==
    /\ clock \in Nat /\ clock <= MaxPolls
    /\ poll \in Polls /\ progress \in Progresses /\ status \in StatusTexts

\* What the waiter has sent, unless it was lost, and what it has on record.
Consistent(p, st) ==
    /\ p.lastStatus = Never \/ p.lastStatus <= clock
    /\ ~st.lost /\ p.lastStatus # Never => st.since = p.lastStatus
    /\ (~st.lost /\ p.lastStatus # Never /\ ~p.error) => st.text = MissingText(p.missing)

\* A poll that ended has found something, and its finding is in the status.
Reported(found, p, st) ==
    /\ p.lastStatus # Never /\ clock - p.lastStatus < StatusInterval
    /\ found.kind \in {"missing", "error"}
    /\ ~st.lost /\ found.kind = "missing" => st.text = found

WaiterInv ==
    /\ WaiterTypes
    /\ poll.pc # "ready" => Consistent(progress, status)
    /\ poll.pc = "next" /\ clock > 0 => Reported(poll.last, progress, status)

LEMMA TextsAre ==
    ASSUME NEW missing \in Seq(SecretNames)
    PROVE  MissingText(missing) \in Texts /\ ErrorText \in Texts /\ Nothing \in Texts
           /\ [kind |-> "ready", missing |-> <<>>] \in Texts
<1>1. <<>> \in Seq(SecretNames)
  OBVIOUS
<1> QED BY <1>1 DEF MissingText, ErrorText, Nothing, Texts

\* emit: what was due is sent or lost, and noted either way.
LEMMA EmitReports ==
    ASSUME WaiterTypes, Consistent(progress, status),
           NEW text \in Texts, NEW changed \in BOOLEAN, NEW logNow \in BOOLEAN, NEW p \in Progresses,
           p.lastStatus = progress.lastStatus, text.kind \in {"missing", "error"},
           text.kind = "error" => p.error,
           text.kind = "missing" => text = MissingText(p.missing),
           ~changed /\ text.kind = "missing" => p.missing = progress.missing /\ ~progress.error,
           ~changed /\ text.kind = "error" => progress.error,
           Emit(text, changed, logNow, p)
    PROVE  /\ progress' \in Progresses /\ status' \in StatusTexts
           /\ Consistent(progress', status') /\ Reported(text, progress', status')
<1> DEFINE shown == changed \/ Due(p.lastStatus, StatusInterval)
           logged == logNow \/ Due(p.lastLog, LogInterval)
           ls == IF shown THEN clock ELSE p.lastStatus
           ll == IF logged THEN clock ELSE p.lastLog
<1>1. progress' = [p EXCEPT !.lastStatus = ls, !.lastLog = ll]
  BY DEF Emit, Progresses
<1>2. IF ~shown THEN status' = status
      ELSE status' \in {[text |-> text, since |-> clock, lost |-> FALSE], [status EXCEPT !.lost = TRUE]}
  BY DEF Emit
<1>3. clock \in Nat /\ clock # Never /\ Never \in Nat /\ StatusInterval \in Nat \ {0}
      /\ p.lastStatus \in Nat /\ p.lastLog \in Nat
  BY WaiterBounds DEF WaiterTypes, Never, Progresses
<1>4. ls \in Nat /\ ll \in Nat
  BY <1>3
<1>5. ~shown => p.lastStatus # Never /\ clock - p.lastStatus < StatusInterval /\ ~changed
  BY <1>3 DEF Due, Consistent
<1>6. ls # Never /\ ls <= clock /\ clock - ls < StatusInterval
  BY <1>3, <1>5 DEF Consistent
<1>7. (~shown => ls = progress.lastStatus) /\ (shown => ls = clock)
  OBVIOUS
<1> HIDE DEF ls, ll, shown
<1>8. /\ progress' \in Progresses /\ progress'.lastStatus = ls /\ progress'.missing = p.missing
      /\ progress'.error = p.error
  BY <1>1, <1>4 DEF Progresses
<1>9. status \in StatusTexts
  BY DEF WaiterTypes
<1>10. CASE shown /\ status' = [text |-> text, since |-> clock, lost |-> FALSE]
  <2>1. status' \in StatusTexts /\ status'.text = text /\ status'.since = clock
    BY <1>3, <1>10 DEF StatusTexts
  <2> QED BY <1>6, <1>7, <1>8, <1>10, <2>1 DEF Consistent, Reported
<1>11. CASE shown /\ status' = [status EXCEPT !.lost = TRUE]
  <2>1. status' \in StatusTexts /\ status'.lost
    BY <1>9, <1>11 DEF StatusTexts
  <2> QED BY <1>6, <1>7, <1>8, <2>1 DEF Consistent, Reported
<1>12. CASE ~shown
  <2>1. status' = status /\ ~changed /\ ls = progress.lastStatus
    BY <1>2, <1>5, <1>7, <1>12
  <2>2. ~status.lost => status.since = ls
    BY <1>6, <2>1 DEF Consistent
  <2>3. CASE text.kind = "missing"
    <3>1. ~status.lost => status.text = text
      BY <1>6, <2>1, <2>3 DEF Consistent
    <3> QED BY <1>6, <1>8, <1>9, <2>1, <2>2, <2>3, <3>1 DEF Consistent, Reported
  <2>4. CASE text.kind = "error"
    BY <1>6, <1>8, <1>9, <2>1, <2>2, <2>4 DEF Consistent, Reported
  <2> QED BY <2>3, <2>4
<1> QED BY <1>2, <1>10, <1>11, <1>12

LEMMA ObserveReports ==
    ASSUME WaiterTypes, Consistent(progress, status), NEW missing \in Seq(SecretNames), Observe(missing)
    PROVE  /\ progress' \in Progresses /\ status' \in StatusTexts
           /\ Consistent(progress', status') /\ Reported(MissingText(missing), progress', status')
<1> DEFINE changed == progress.missing # missing \/ progress.error
           error == progress.missing # missing /\ progress.error
           p == [progress EXCEPT !.missing = missing, !.error = error]
<1>1. Emit(MissingText(missing), changed, FALSE, p)
  BY DEF Observe, MissingText
<1>2. progress \in Progresses /\ progress.error \in BOOLEAN
  BY DEF WaiterTypes, Progresses
<1>3. changed \in BOOLEAN /\ error \in BOOLEAN
  OBVIOUS
<1>4. ~changed => progress.missing = missing /\ ~progress.error
  OBVIOUS
<1> HIDE DEF changed, error
<1>5. p \in Progresses /\ p.lastStatus = progress.lastStatus /\ p.missing = missing
  BY <1>2, <1>3 DEF Progresses
<1> HIDE DEF p
<1>6. MissingText(missing) \in Texts /\ MissingText(missing).kind = "missing"
  BY TextsAre DEF MissingText
<1> QED BY <1>1, <1>3, <1>4, <1>5, <1>6, EmitReports

LEMMA ObserveErrorReports ==
    ASSUME WaiterTypes, Consistent(progress, status), ObserveError
    PROVE  /\ progress' \in Progresses /\ status' \in StatusTexts
           /\ Consistent(progress', status') /\ Reported(ErrorText, progress', status')
<1> DEFINE changed == ~progress.error
           missing == IF progress.error THEN progress.missing ELSE <<>>
           p == [progress EXCEPT !.error = TRUE, !.missing = missing]
<1>1. progress \in Progresses /\ progress.error \in BOOLEAN /\ progress.missing \in Seq(SecretNames)
  BY DEF WaiterTypes, Progresses
<1>2. Emit(ErrorText, changed, changed, p)
  BY DEF ObserveError, ErrorText
<1>3. changed \in BOOLEAN /\ (~changed => progress.error) /\ missing \in Seq(SecretNames)
  <2>1. <<>> \in Seq(SecretNames)
    OBVIOUS
  <2> QED BY <1>1, <2>1
<1> HIDE DEF changed, missing
<1>4. p \in Progresses /\ p.lastStatus = progress.lastStatus /\ p.error
  BY <1>1, <1>3 DEF Progresses
<1> HIDE DEF p
<1>5. ErrorText \in Texts /\ ErrorText.kind = "error"
  BY <1>1, TextsAre DEF ErrorText
<1> QED BY <1>2, <1>3, <1>4, <1>5, EmitReports

LEMMA SleptIs ==
    ASSUME NEW text \in Texts
    PROVE  Slept(text) \in Polls /\ Slept(text).pc = "next" /\ Slept(text).last = text
<1>1. <<>> \in Seq(SecretNames)
  OBVIOUS
<1> QED BY <1>1, TextsAre DEF Slept, IdlePoll, Polls

LEMMA InspectSecretKeeps ==
    ASSUME WaiterInv, InspectSecret PROVE WaiterInv'
<1> DEFINE s == DeclaredSecrets[poll.at]
           missing == MissingWith(s)
<1>1. WaiterTypes /\ Consistent(progress, status) /\ poll.pc = "looking" /\ clock' = clock
  BY DEF WaiterInv, InspectSecret
<1>2. poll \in Polls /\ poll.at \in Nat /\ poll.missing \in Seq(SecretNames)
  BY <1>1 DEF WaiterTypes, Polls
<1>3. missing \in Seq(SecretNames)
  <2>1. s \in SecretNames
    BY <1>2 DEF SecretNames
  <2> QED BY <1>2, <2>1 DEF MissingWith
<1>4. \/ ObserveError /\ poll' = Slept(ErrorText)
      \/ /\ poll' = [poll EXCEPT !.at = @ + 1, !.read = FALSE, !.missing = missing]
         /\ UNCHANGED <<progress, status>>
      \/ Observe(missing) /\ poll' = Slept(MissingText(missing))
      \/ /\ poll' = [poll EXCEPT !.pc = "ready"] /\ UNCHANGED progress
         /\ \/ status' = status
            \/ status' = [text |-> [kind |-> "ready", missing |-> <<>>], since |-> clock, lost |-> FALSE]
            \/ status' = [status EXCEPT !.lost = TRUE]
  BY DEF InspectSecret, ErrorText, MissingText
<1> HIDE DEF missing
<1>5. CASE ObserveError /\ poll' = Slept(ErrorText)
  <2>1. poll' \in Polls /\ poll'.pc = "next" /\ poll'.last = ErrorText
    BY <1>3, <1>5, TextsAre, SleptIs
  <2>2. /\ progress' \in Progresses /\ status' \in StatusTexts
        /\ Consistent(progress', status') /\ Reported(ErrorText, progress', status')
    BY <1>1, <1>5, ObserveErrorReports
  <2> QED BY <1>1, <2>1, <2>2 DEF WaiterInv, WaiterTypes, Consistent, Reported
<1>6. CASE /\ poll' = [poll EXCEPT !.at = @ + 1, !.read = FALSE, !.missing = missing]
           /\ UNCHANGED <<progress, status>>
  <2> DEFINE at == poll.at + 1
  <2>0. at \in Nat
    BY <1>2
  <2>2. poll' = [poll EXCEPT !.at = at, !.read = FALSE, !.missing = missing]
    BY <1>6
  <2> HIDE DEF at
  <2>1. poll' \in Polls /\ poll'.pc = "looking"
    BY <1>1, <1>2, <1>3, <2>0, <2>2 DEF Polls
  <2> QED BY <1>1, <1>6, <2>1 DEF WaiterInv, WaiterTypes, Consistent
<1>7. CASE Observe(missing) /\ poll' = Slept(MissingText(missing))
  <2>1. poll' \in Polls /\ poll'.pc = "next" /\ poll'.last = MissingText(missing)
    BY <1>3, <1>7, TextsAre, SleptIs
  <2>2. /\ progress' \in Progresses /\ status' \in StatusTexts
        /\ Consistent(progress', status') /\ Reported(MissingText(missing), progress', status')
    BY <1>1, <1>3, <1>7, ObserveReports
  <2> QED BY <1>1, <2>1, <2>2 DEF WaiterInv, WaiterTypes, Consistent, Reported
<1>8. CASE /\ poll' = [poll EXCEPT !.pc = "ready"] /\ UNCHANGED progress
           /\ \/ status' = status
              \/ status' = [text |-> [kind |-> "ready", missing |-> <<>>], since |-> clock, lost |-> FALSE]
              \/ status' = [status EXCEPT !.lost = TRUE]
  <2>1. poll' \in Polls /\ poll'.pc = "ready"
    BY <1>2, <1>8 DEF Polls
  <2> DEFINE ready == [kind |-> "ready", missing |-> <<>>]
  <2>2. ready \in Texts /\ clock \in Nat /\ status \in StatusTexts
    BY <1>1, <1>3, TextsAre DEF WaiterTypes
  <2> HIDE DEF ready
  <2>3. \/ status' = status
        \/ status' = [text |-> ready, since |-> clock, lost |-> FALSE]
        \/ status' = [status EXCEPT !.lost = TRUE]
    BY <1>8 DEF ready
  <2>4. /\ [text |-> ready, since |-> clock, lost |-> FALSE] \in StatusTexts
        /\ [status EXCEPT !.lost = TRUE] \in StatusTexts
    BY <2>2 DEF StatusTexts
  <2>5. status' \in StatusTexts
    BY <2>2, <2>3, <2>4
  <2> QED BY <1>1, <1>8, <2>1, <2>5 DEF WaiterInv, WaiterTypes
<1> QED BY <1>4, <1>5, <1>6, <1>7, <1>8

\* A step between two findings.
LEMMA WaitingKeeps ==
    ASSUME WaiterInv, UNCHANGED <<progress, status>>, poll' \in Polls,
           clock' \in Nat, clock <= clock', clock' <= MaxPolls,
           poll'.pc # "ready" => poll.pc # "ready",
           poll'.pc = "next" => poll.pc = "next" /\ clock' = clock /\ poll'.last = poll.last
    PROVE  WaiterInv'
<1>1. WaiterTypes'
  BY DEF WaiterInv, WaiterTypes
<1>2. poll'.pc # "ready" => Consistent(progress, status)'
  BY DEF WaiterInv, WaiterTypes, Progresses, Consistent
<1>3. poll'.pc = "next" /\ clock' > 0 => Reported(poll.last, progress, status)'
  BY DEF WaiterInv, Reported
<1> QED BY <1>1, <1>2, <1>3 DEF WaiterInv

LEMMA WaiterStep == WaiterInv /\ [WaiterNext]_waiterVars => WaiterInv'
<1> SUFFICES ASSUME WaiterInv, [WaiterNext]_waiterVars PROVE WaiterInv'
  OBVIOUS
<1>0. poll \in Polls /\ clock \in Nat /\ clock <= MaxPolls /\ MaxPolls \in Nat
  BY WaiterBounds DEF WaiterInv, WaiterTypes
<1>1. CASE UNCHANGED waiterVars
  BY <1>0, <1>1, WaitingKeeps DEF waiterVars
<1>2. CASE StartPoll
  <2>1. poll' \in Polls /\ poll'.pc = "looking" /\ poll.pc = "next"
    BY <1>0, <1>2 DEF StartPoll, Polls
  <2>2. clock' \in Nat /\ clock <= clock' /\ clock' <= MaxPolls /\ UNCHANGED <<progress, status>>
    BY <1>0, <1>2 DEF StartPoll
  <2> QED BY <2>1, <2>2, WaitingKeeps
<1>3. CASE ReadCurrent
  <2>1. poll' \in Polls /\ poll'.pc = "looking" /\ poll.pc = "looking"
    BY <1>0, <1>3 DEF ReadCurrent, Polls
  <2> QED BY <1>0, <1>3, <2>1, WaitingKeeps DEF ReadCurrent
<1>4. CASE EndOnce
  <2>1. poll' \in Polls /\ poll'.pc \notin {"next", "ready"} /\ poll.pc = "looking"
    BY <1>0, <1>4 DEF EndOnce, Polls
  <2>2. UNCHANGED <<progress, status, clock>>
    BY <1>4 DEF EndOnce
  <2>3. clock' \in Nat /\ clock <= clock' /\ clock' <= MaxPolls
    BY <1>0, <2>2
  <2> QED BY <2>1, <2>2, <2>3, WaitingKeeps
<1>5. ASSUME NEW ss, NEW prune \in BOOLEAN, DeploySecrets(ss, prune) PROVE WaiterInv'
  <2> DEFINE pruned == poll.pruned \/ (prune /\ poll.read)
  <2>1. poll' = [poll EXCEPT !.pruned = pruned] /\ UNCHANGED <<progress, status, clock>>
    BY <1>5 DEF DeploySecrets
  <2>2. pruned \in BOOLEAN
    OBVIOUS
  <2> HIDE DEF pruned
  <2>3. poll' \in Polls /\ poll'.pc = poll.pc /\ poll'.last = poll.last
    BY <1>0, <2>1, <2>2 DEF Polls
  <2> QED BY <1>0, <2>1, <2>3, WaitingKeeps
<1>6. ASSUME NEW s, NEW as, Damage(s, as) PROVE WaiterInv'
  BY <1>0, <1>6, WaitingKeeps DEF Damage
<1> QED BY <1>1, <1>2, <1>3, <1>4, <1>5, <1>6, InspectSecretKeeps DEF WaiterNext

\* What the long-wait report lists a unit with is what its last poll found, except
\* for an error that is less than a refresh interval behind and for a status that
\* could not be sent (progress.rs), for any manifest and any intervals.
THEOREM ReportStaysRecent == WaiterSpec => []ReportIsRecent
<1>1. WaiterInit => WaiterInv
  <2> SUFFICES ASSUME WaiterInit PROVE WaiterInv
    OBVIOUS
  <2>1. <<>> \in Seq(SecretNames) /\ Nothing \in Texts
    <3>1. <<>> \in Seq(SecretNames)
      OBVIOUS
    <3> QED BY <3>1, TextsAre
  <2>2. WaiterTypes
    BY <2>1, WaiterBounds DEF WaiterInit, WaiterTypes, IdlePoll, Polls, Progresses, StatusTexts, Never
  <2>3. Consistent(progress, status)
    BY DEF WaiterInit, Consistent
  <2>4. clock = 0
    BY DEF WaiterInit
  <2> QED BY <2>2, <2>3, <2>4 DEF WaiterInv
<1>2. WaiterInv => ReportIsRecent
  <2> SUFFICES ASSUME WaiterInv, poll.pc = "next", clock > 0, ~status.lost
               PROVE  \/ status.text = poll.last
                      \/ poll.last.kind = "error" /\ clock - status.since < StatusInterval
    BY DEF ReportIsRecent, Overdue
  <2> QED BY DEF WaiterInv, Consistent, Reported
<1> QED BY <1>1, <1>2, WaiterStep, PTL DEF WaiterSpec
=============================================================================
