------------------------------ MODULE HostTrust ------------------------------
(***************************************************************************)
(* Trust in a target's SSH host keys: transport/src/hostkey.rs, hostkey/   *)
(* persist.rs and runner.rs, openssh.rs, and the steps of the TUI that use *)
(* them (manager/src/deployment.rs, controller/writer/approval.rs).        *)
(*                                                                         *)
(* A TUI scans the host, compares with what known_hosts records, asks the  *)
(* operator about an unknown host, scans again until every approved key    *)
(* was seen, appends them to known_hosts, scans once more and connects     *)
(* with those keys pinned.  What a scan shows is any part of what the      *)
(* network presents at that moment: keys may be missing or replaced from   *)
(* one scan to the next.  known_hosts is one host's part of the file.      *)
(***************************************************************************)
EXTENDS Integers, FiniteSets

CONSTANTS Tuis,        \* TUIs that share the known_hosts file
          HostKeys,    \* keys any scan may show
          Algorithm(_),\* the type of a key
          MaxScans,    \* scans that look for the approved keys (3)
          MaxMeddling  \* bound: other programs' changes and cut writes

ASSUME TrustBounds == MaxScans \in Nat \ {0} /\ MaxMeddling \in Nat

VARIABLES file,    \* known_hosts: the inode at its path, and each inode's content
          managed, \* keys of the read-only secondary file
          flock,   \* inode -> the TUI that holds its lock
          trust,   \* TUI -> its approval of the host
          hidden,  \* TUI -> some scan after the approval hid a replaced key
          meddling \* changes and cut writes left

trustVars == <<file, managed, flock, trust, hidden, meddling>>

NoTui == "no TUI"
ASSUME TuiNamed == NoTui \notin Tuis
NoTrust == [pc |-> "idle", keys |-> {}, observed |-> {}, scans |-> 0, recorded |-> {},
            cut |-> FALSE, ino |-> 0, new |-> FALSE]
Inodes == 1..(MaxMeddling + 1)
Empty == [keys |-> {}, cut |-> FALSE]
RecordedIn(i) == file.at[i].keys \union managed
Recorded == RecordedIn(file.ino)
\* One key of a type is scanned at a time.
Scans == {s \in SUBSET HostKeys : s # {} /\ \A k, l \in s : Algorithm(k) = Algorithm(l) => k = l}
Types(ks) == {Algorithm(k) : k \in ks}

TrustInit ==
    /\ \E before \in {{}} \union Scans :
          /\ file = [ino |-> 1, at |-> [i \in Inodes |-> IF i = 1 THEN [Empty EXCEPT !.keys = before] ELSE Empty],
                     alien |-> FALSE]
          /\ managed \in {{}} \union {s \in Scans : Cardinality(s) = 1 /\ before \union s \in Scans}
    /\ flock = [i \in Inodes |-> NoTui] /\ trust = [t \in Tuis |-> NoTrust]
    /\ hidden = [t \in Tuis |-> FALSE] /\ meddling = MaxMeddling

Meddle == meddling > 0 /\ meddling' = meddling - 1
Go(t, pc) == trust' = [trust EXCEPT ![t].pc = pc]
GiveUp(t) == trust' = [trust EXCEPT ![t] = NoTrust]

\* compare_direct: with a tunnel, a key seen directly that the tunnel did not
\* show refuses the host.
RouteAgrees(scan, direct) == direct \subseteq scan
\* A key is recorded and none of those is offered: ChangedHostKey.
ChangedKey(scan) == Recorded # {} /\ scan \cap Recorded = {}

\* preflight: an unknown host is scanned one type at a time, a known one for
\* the types on record; only matching keys of a known host are accepted.
Preflight(t, scan, direct) ==
    /\ trust[t].pc = "idle"
    /\ IF Recorded = {} THEN Cardinality(scan) = 1 ELSE Types(scan) \subseteq Types(Recorded)
    /\ IF ~RouteAgrees(scan, direct) \/ ChangedKey(scan) THEN GiveUp(t)
       ELSE trust' = [trust EXCEPT ![t] = [NoTrust EXCEPT
                !.pc = IF Recorded = {} THEN "asking" ELSE "connecting",
                !.keys = IF Recorded = {} THEN scan ELSE scan \cap Recorded,
                !.new = Recorded = {}]]
    /\ hidden' = [hidden EXCEPT ![t] = FALSE]
    /\ UNCHANGED <<file, managed, flock, meddling>>

\* The operator trusts the keys shown, or does not (UnknownRejected).
AnswerTrust(t, yes) ==
    /\ trust[t].pc = "asking"
    /\ IF yes THEN Go(t, "checking") ELSE GiveUp(t)
    /\ UNCHANGED <<file, managed, flock, hidden, meddling>>

\* Mutant: an approved key seen in an earlier scan completes this one.
CompleteSoFar(approved, observed, scan) == approved \subseteq observed \union scan
\* Whether this very scan shows the whole approved set.
Complete(approved, observed, scan) == approved \subseteq scan

\* preflight_approved, once before the keys are recorded and once in prepare():
\* a scan may miss approved keys, and more keys are no harm beside all of the
\* approved ones; it may not replace any.
PreflightApproved(t, scan, direct) ==
    LET a == trust[t]
        whole == Complete(a.keys, a.observed, scan)
        seen == a.observed \union (scan \cap a.keys)
        replaced == ~whole /\ ~(scan \subseteq a.keys)
    IN  /\ a.pc \in {"checking", "connecting"} /\ Types(scan) \subseteq Types(a.keys)
        /\ hidden' = [hidden EXCEPT ![t] = @ \/ (~(a.keys \subseteq scan) /\ ~(scan \subseteq a.keys))]
        /\ IF ~RouteAgrees(scan, direct) \/ ChangedKey(scan) \/ replaced THEN GiveUp(t)
           ELSE IF a.keys \subseteq seen
           THEN trust' = [trust EXCEPT ![t].pc = IF a.pc = "checking" THEN "locking" ELSE "connected",
                                       ![t].observed = {}, ![t].scans = 0]
           ELSE IF a.scans + 1 = MaxScans THEN GiveUp(t)
           ELSE trust' = [trust EXCEPT ![t].observed = seen, ![t].scans = @ + 1]
        /\ UNCHANGED <<file, managed, flock, meddling>>

\* run_bounded: ssh-keyscan shows nothing within its budget.
ScanFails(t) ==
    /\ trust[t].pc \in {"checking", "connecting"}
    /\ GiveUp(t)
    /\ UNCHANGED <<file, managed, flock, hidden, meddling>>

-----------------------------------------------------------------------------
\* Mutant: no lock.
LockKnownHostsNot(t) ==
    /\ trust[t].pc = "locking"
    /\ trust' = [trust EXCEPT ![t].pc = "inspecting", ![t].ino = file.ino]
    /\ UNCHANGED <<file, managed, flock, hidden, meddling>>

\* persist_accepted: open and lock the file without waiting.
LockKnownHosts(t) ==
    /\ trust[t].pc = "locking"
    /\ IF flock[file.ino] = NoTui
       THEN flock' = [flock EXCEPT ![file.ino] = t] /\ trust' = [trust EXCEPT ![t].pc = "inspecting", ![t].ino = file.ino]
       ELSE GiveUp(t) /\ UNCHANGED flock
    /\ UNCHANGED <<file, managed, hidden, meddling>>
Release(t) == flock' = [i \in Inodes |-> IF flock[i] = t THEN NoTui ELSE flock[i]]

\* Every configured file is read through its descriptor (managed_secondary for
\* the read-only one), the writable one though it may have been replaced; a
\* different recorded key refuses.
Inspect(t) ==
    LET there == RecordedIn(trust[t].ino) IN
    /\ trust[t].pc = "inspecting"
    /\ IF there \subseteq trust[t].keys
       THEN /\ trust' = [trust EXCEPT ![t].recorded = there, ![t].cut = file.at[trust[t].ino].cut,
                                      ![t].pc = IF trust[t].keys \subseteq there THEN "saved" ELSE "verifying"]
            /\ UNCHANGED flock
       ELSE GiveUp(t) /\ Release(t)
    /\ UNCHANGED <<file, managed, hidden, meddling>>

\* The read-only file is a link that leads elsewhere than through root's own
\* directories, or is not a plain file: nothing is recorded.
SecondaryUnsafe(t) ==
    /\ trust[t].pc = "inspecting"
    /\ GiveUp(t) /\ Release(t)
    /\ UNCHANGED <<file, managed, hidden, meddling>>

\* The path still names the file that was locked.
VerifyFile(t) ==
    /\ trust[t].pc = "verifying"
    /\ IF file.ino = trust[t].ino THEN Go(t, "appending") /\ UNCHANGED flock
       ELSE GiveUp(t) /\ Release(t)
    /\ UNCHANGED <<file, managed, hidden, meddling>>

\* What the appended lines add: after a line cut short they start on a new one.
Added(t) == IF file.at[trust[t].ino].cut /\ ~trust[t].cut THEN {} ELSE trust[t].keys \ trust[t].recorded
AppendKeys(t) ==
    /\ trust[t].pc = "appending"
    /\ file' = [file EXCEPT !.at[trust[t].ino] = [keys |-> @.keys \union Added(t), cut |-> FALSE]]
    /\ Go(t, "saved")
    /\ UNCHANGED <<managed, flock, hidden, meddling>>
\* The write fails inside: some of the lines, the last one cut short.
AppendCut(t) ==
    /\ trust[t].pc = "appending" /\ Meddle
    /\ \E part \in SUBSET Added(t) :
         /\ part # Added(t)
         /\ file' = [file EXCEPT !.at[trust[t].ino] = [keys |-> @.keys \union part, cut |-> TRUE]]
    /\ GiveUp(t) /\ Release(t)
    /\ UNCHANGED <<managed, hidden>>

\* persist_accepted returns; prepare() scans again before it connects.
Unlocked(t) ==
    /\ trust[t].pc = "saved"
    /\ Go(t, "connecting") /\ Release(t)
    /\ UNCHANGED <<file, managed, hidden, meddling>>
\* connect_preflight, spawn with the keys pinned; the session ends.
Connect(t) ==
    /\ trust[t].pc = "connected"
    /\ GiveUp(t)
    /\ UNCHANGED <<file, managed, flock, hidden, meddling>>

\* ssh-keygen -R replaces the file, ssh appends a key it was told to accept.
ReplaceFile ==
    /\ Meddle
    /\ file' = [file EXCEPT !.ino = @ + 1]
    /\ UNCHANGED <<managed, flock, trust, hidden>>
AppendBySsh(k) ==
    /\ Meddle /\ k \notin file.at[file.ino].keys
    /\ file' = [file EXCEPT !.at[file.ino].keys = @ \union {k}, !.alien = TRUE]
    /\ UNCHANGED <<managed, flock, trust, hidden>>

TrustNext ==
    \/ \E t \in Tuis, scan \in Scans, direct \in {{}} \union Scans :
          Preflight(t, scan, direct) \/ PreflightApproved(t, scan, direct)
    \/ \E t \in Tuis, yes \in BOOLEAN : AnswerTrust(t, yes)
    \/ \E t \in Tuis : \/ ScanFails(t) \/ LockKnownHosts(t) \/ Inspect(t) \/ SecondaryUnsafe(t) \/ VerifyFile(t)
                       \/ AppendKeys(t) \/ AppendCut(t) \/ Unlocked(t) \/ Connect(t)
    \/ ReplaceFile \/ \E k \in HostKeys : AppendBySsh(k)

-----------------------------------------------------------------------------
\* No connection is opened after a scan that showed another key in place of an
\* approved one, although approved keys are collected over several scans
\* (hostkey.rs preflight_approved_with: "must not be hidden by approved keys
\* observed in an earlier scan").
NoKeyReplaced == \A t \in Tuis : trust[t].pc \in {"locking", "connected"} => ~hidden[t]

\* What a TUI reports as saved is in known_hosts, also after a write that was cut
\* short, unless another program replaced the file; and as long as no other
\* program adds keys, never are two different keys of one type on record,
\* however many TUIs save at once (persist.rs persist_accepted: "Existing
\* different keys are never removed or replaced").
KnownHostsWhole ==
    /\ \A t \in Tuis : (trust[t].pc = "saved" /\ trust[t].ino = file.ino) => trust[t].keys \subseteq Recorded
    /\ ~file.alien => \A k, l \in Recorded : Algorithm(k) = Algorithm(l) => k = l
=============================================================================
