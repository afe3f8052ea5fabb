------------------------------ MODULE StoreFeed ------------------------------
(***************************************************************************)
(* The secret store, the view profiles, the backend's change feed and the  *)
(* TUI that listens to it: core/src/store*.rs, profiles.rs, backend.rs,    *)
(* backend/feed.rs, backend/event_after.rs, manager/src/client*.rs and     *)
(* controller/background.rs.                                               *)
(*                                                                         *)
(* A thread of the backend serves one connection.  It changes the store by *)
(* rewriting the whole file under a lock, announces the change after the   *)
(* lock is released, and answers.  The TUI subscribes, lists everything,   *)
(* and lists everything again on each event.  Values are abstracted to     *)
(* their random versions; a recipient is one name whose key may be         *)
(* replaced in the schema the backend reloads.                             *)
(***************************************************************************)
EXTENDS Integers, Sequences, FiniteSets, SequencesExt, FiniteSetsExt

CONSTANTS Paths,         \* secrets of the schema
          Threads,       \* connections the backend serves
          Profiles,      \* names of view profiles
          MaxProfiles,   \* read() accepts no more profiles (64)
          MaxQuarantine, \* MAX_QUARANTINE
          FeedLimit,     \* events a subscriber may be behind (64)
          MaxVersion,    \* bound: values ever written
          MaxStoreFaults \* bound: failures, restarts and key replacements

ASSUME StoreBounds == /\ MaxProfiles \in Nat /\ MaxQuarantine \in Nat /\ FeedLimit \in Nat
                      /\ MaxVersion \in Nat /\ MaxStoreFaults \in Nat

VARIABLES doc,       \* nix-secrets.toml
          holder,    \* the thread that holds the exclusive lock
          work,      \* thread -> the request it serves
          seen,      \* thread -> what its client last read
          fresh,     \* versions used so far
          key,       \* the recipient's key in the evaluated schema
          profiles,  \* profile -> version, the profile file
          subscribed,\* the feed still has the TUI's channel
          queue,     \* what is in that channel
          listener,  \* where listen() is
          rows,      \* what the TUI shows: set paths, and whether the public info is
          shown,     \* the profiles the TUI shows
          silent,    \* a change was made and reported as failed since the last listing
          faults     \* failures, restarts and replacements left

storeVars == <<doc, holder, work, seen, fresh, key, profiles, subscribed, queue,
               listener, rows, shown, silent, faults>>

Nobody == "nobody"
ASSUME ThreadNamed == Nobody \notin Threads
Unset == [v |-> 0, ref |-> 0, pub |-> 0, for |-> 0]
Idle == [pc |-> "idle", op |-> "none", path |-> Nobody, expected |-> 0, previous |-> 0,
         copy |-> Unset, event |-> "none"]

\* validate_record, validate_public_metadata and hydrate_record: a stored record
\* names its recipients by a reference into the registry.
Hydrated(d, p) == d.registry[d.secrets[p].ref]
SetPaths(d) == {p \in Paths : d.secrets[p].v # 0}
Listing(d) == [secrets |-> SetPaths(d), info |-> d.info # 0]

\* Mutant: one reference per name.
RegistryRefOfName(d, k) == 1

\* The reference for a key: an existing one of the same key, else the next revision.
RegistryRef(d, k) ==
    IF \E i \in DOMAIN d.registry : d.registry[i] = k
    THEN CHOOSE i \in DOMAIN d.registry : d.registry[i] = k
    ELSE Len(d.registry) + 1

\* set_checked
SetSecret(d, p, v, k) ==
    LET i == RegistryRef(d, k)
        registry == IF i > Len(d.registry) THEN Append(d.registry, k) ELSE d.registry
    IN  [d EXCEPT !.registry = registry, !.secrets[p] = [v |-> v, ref |-> i, pub |-> 0, for |-> k]]

\* remove and remove_if_version
RemoveSecret(d, p) == [d EXCEPT !.secrets[p] = Unset]
\* set_public_key_if_version keeps the record's version.
SetPublicKey(d, p, v) == [d EXCEPT !.secrets[p].pub = v]
\* set_generated_public_key_if_version
SetGeneratedKey(d, v) == [d EXCEPT !.generated = v]
\* set_public_info_if_version and remove_public_info_if_version
SetInfo(d, v) == [d EXCEPT !.info = v]
\* quarantine and remove_quarantined
Quarantine(d, v) == [d EXCEPT !.quarantine = @ \union {v}]
Unquarantine(d) == [d EXCEPT !.quarantine = @ \ {Max(@)}]

Operations == {"set", "setif", "remove", "removeif", "pubkey", "genkey", "info", "infogone",
               "quarantine", "unquarantine"}
Conditional(op) == op \in {"setif", "removeif", "pubkey", "genkey", "info", "infogone"}
\* The version a conditional operation compares.
VersionOf(d, w) == CASE w.op \in {"info", "infogone"} -> d.info
                     [] w.op = "genkey" -> d.generated
                     [] OTHER -> d.secrets[w.path].v
\* What it compares is as the client read it; a public key is attached to a record
\* of that version that has the same public key as then, or none.
Agrees(d, w) == /\ VersionOf(d, w) = w.expected
                /\ w.op = "pubkey" => d.secrets[w.path].pub = w.previous
\* The changes of one operation; none when it refuses.
Refused(d, w) ==
    \/ Conditional(w.op) /\ ~Agrees(d, w)
    \/ w.op \in {"removeif", "pubkey"} /\ d.secrets[w.path].v = 0
    \/ w.op = "infogone" /\ d.info = 0
    \/ w.op = "quarantine" /\ Cardinality(d.quarantine) >= MaxQuarantine
    \/ w.op = "unquarantine" /\ d.quarantine = {}
Changed(d, w, v) ==
    CASE w.op \in {"set", "setif"} -> SetSecret(d, w.path, v, key)
      [] w.op \in {"remove", "removeif"} -> RemoveSecret(d, w.path)
      [] w.op = "pubkey" -> SetPublicKey(d, w.path, v)
      [] w.op = "genkey" -> SetGeneratedKey(d, v)
      [] w.op = "info" -> SetInfo(d, v)
      [] w.op = "infogone" -> SetInfo(d, 0)
      [] w.op = "quarantine" -> Quarantine(d, v)
      [] w.op = "unquarantine" -> Unquarantine(d)
      [] OTHER -> d

\* event_after_success
EventAfter(op) == CASE op \in {"set", "setif", "remove", "removeif"} -> "secret"
                    [] op \in {"info", "infogone"} -> "info"
                    [] op \in {"save", "delete"} -> "profiles"
                    [] op = "submit" -> "approval"
                    [] OTHER -> "none"

Spent == faults > 0 /\ faults' = faults - 1
Fresh == fresh < MaxVersion /\ fresh' = fresh + 1

-----------------------------------------------------------------------------
StoreInit ==
    /\ doc = [secrets |-> [p \in Paths |-> Unset], info |-> 0, generated |-> 0,
              quarantine |-> {}, registry |-> <<>>]
    /\ holder = Nobody /\ work = [t \in Threads |-> Idle]
    /\ seen = [t \in Threads |-> [secret |-> 0, pub |-> 0, info |-> 0, generated |-> 0, profiles |-> [n \in Profiles |-> 0]]]
    /\ fresh = 0 /\ key = 1
    /\ profiles = [n \in Profiles |-> 0]
    /\ subscribed = FALSE /\ queue = <<>> /\ listener = "off"
    /\ rows = [secrets |-> {}, info |-> FALSE] /\ shown = [n \in Profiles |-> 0]
    /\ silent = FALSE /\ faults = MaxStoreFaults

\* get, generated_public_key, get_public_info and ListProfiles, under the shared lock.
ReadStore(t, p) ==
    /\ work[t].pc = "idle" /\ holder = Nobody
    /\ seen' = [seen EXCEPT ![t] = [secret |-> doc.secrets[p].v, pub |-> doc.secrets[p].pub, info |-> doc.info,
                                    generated |-> doc.generated, profiles |-> profiles]]
    /\ seen' # seen
    /\ UNCHANGED <<doc, holder, work, fresh, key, profiles, subscribed, queue, listener, rows, shown, silent, faults>>

\* A client's request; a conditional one expects what the client read.
AskedWrite(t, op, p) ==
    [Idle EXCEPT !.op = op, !.path = p, !.previous = IF op = "pubkey" THEN seen[t].pub ELSE 0,
                 !.expected = CASE op \in {"info", "infogone"} -> seen[t].info
                                [] op = "genkey" -> seen[t].generated
                                [] OTHER -> seen[t].secret]
Answer(t, event) == work' = [work EXCEPT ![t] = [Idle EXCEPT !.pc = "answering", !.event = event]]

\* Mutant: a lock that does not exclude another writer.
LockStoreShared(t, op, p) ==
    LET w == AskedWrite(t, op, p) IN
    /\ work[t].pc = "idle"
    /\ IF Refused(doc, w)
       THEN Answer(t, "none") /\ UNCHANGED <<holder, fresh>>
       ELSE /\ Fresh /\ holder' = t
            /\ work' = [work EXCEPT ![t] = [w EXCEPT !.pc = "writing", !.copy = Changed(doc, w, fresh + 1)]]
    /\ UNCHANGED <<doc, seen, key, profiles, subscribed, queue, listener, rows, shown, silent, faults>>

\* with_lock: the lock, read_document and the operation.
LockStore(t, op, p) ==
    LET w == AskedWrite(t, op, p) IN
    /\ work[t].pc = "idle" /\ holder = Nobody
    /\ IF Refused(doc, w)
       THEN Answer(t, "none") /\ UNCHANGED <<holder, fresh>>
       ELSE /\ Fresh /\ holder' = t
            /\ work' = [work EXCEPT ![t] = [w EXCEPT !.pc = "writing", !.copy = Changed(doc, w, fresh + 1)]]
    /\ UNCHANGED <<doc, seen, key, profiles, subscribed, queue, listener, rows, shown, silent, faults>>

\* write_document: the temporary file, its sync, and the rename.
WriteDocument(t) ==
    /\ work[t].pc = "writing"
    /\ doc' = work[t].copy
    /\ work' = [work EXCEPT ![t].pc = "renamed"]
    /\ UNCHANGED <<holder, seen, fresh, key, profiles, subscribed, queue, listener, rows, shown, silent, faults>>

\* Everything after the rename succeeds too, or the temporary file failed.
Unlock(t) == holder' = IF holder = t THEN Nobody ELSE holder
FinishWrite(t) ==
    /\ work[t].pc = "renamed"
    /\ Answer(t, EventAfter(work[t].op)) /\ Unlock(t)
    /\ UNCHANGED <<doc, seen, fresh, key, profiles, subscribed, queue, listener, rows, shown, silent, faults>>
FailWrite(t) ==
    /\ work[t].pc \in {"writing", "renamed"} /\ Spent
    /\ Answer(t, "none") /\ Unlock(t)
    /\ silent' = (silent \/ work[t].pc = "renamed")
    /\ UNCHANGED <<doc, seen, fresh, key, profiles, subscribed, queue, listener, rows, shown>>

\* ProfileStore::change, atomic under its mutex; the file is read again at the end.
Count(f) == Cardinality({n \in Profiles : f[n] # 0})
Readable(f) == Count(f) <= MaxProfiles
ChangeProfile(t, n, op) ==
    LET changed == [profiles EXCEPT ![n] = IF op = "save" THEN fresh + 1 ELSE 0] IN
    /\ work[t].pc = "idle" /\ Readable(profiles) /\ seen[t].profiles = profiles
    /\ op = "delete" => profiles[n] # 0
    /\ Fresh
    /\ profiles' = changed
    /\ work' = [work EXCEPT ![t] = [Idle EXCEPT !.pc = "answering", !.op = op,
                                    !.event = IF Readable(changed) THEN EventAfter(op) ELSE "none"]]
    /\ silent' = (silent \/ ~Readable(changed))
    /\ UNCHANGED <<doc, holder, seen, key, subscribed, queue, listener, rows, shown, faults>>

\* Mutant: the event a full channel has no room for is dropped instead.
PublishLossy(event) ==
    /\ queue' = IF subscribed /\ Len(queue) < FeedLimit THEN Append(queue, event) ELSE queue
    /\ UNCHANGED subscribed

\* Feed::publish: a subscriber that is FeedLimit events behind is dropped.
Publish(event) ==
    /\ queue' = IF subscribed /\ Len(queue) < FeedLimit THEN Append(queue, event) ELSE queue
    /\ subscribed' = (subscribed /\ Len(queue) < FeedLimit)

\* The event of a request that succeeded, then its response.
Respond(t) ==
    /\ work[t].pc = "answering"
    /\ IF work[t].event = "none" THEN UNCHANGED <<queue, subscribed>> ELSE Publish(work[t].event)
    /\ work' = [work EXCEPT ![t] = Idle]
    /\ UNCHANGED <<doc, holder, seen, fresh, key, profiles, listener, rows, shown, silent, faults>>

\* A deployment is submitted: an event on the same feed.
Submit(t) ==
    /\ work[t].pc = "idle" /\ Fresh
    /\ work' = [work EXCEPT ![t] = [Idle EXCEPT !.pc = "answering", !.op = "submit", !.event = EventAfter("submit")]]
    /\ UNCHANGED <<doc, holder, seen, key, profiles, subscribed, queue, listener, rows, shown, silent, faults>>

\* The repository's schema names another key for the recipient.
ReplaceKey ==
    /\ Spent /\ key' = key + 1
    /\ UNCHANGED <<doc, holder, work, seen, fresh, profiles, subscribed, queue, listener, rows, shown, silent>>

\* The backend is killed and started again.
RestartBackend ==
    /\ Spent
    /\ work' = [t \in Threads |-> Idle] /\ holder' = Nobody
    /\ subscribed' = FALSE
    /\ silent' = (silent \/ \E t \in Threads : work[t].pc = "renamed" \/ work[t].event # "none")
    /\ UNCHANGED <<doc, seen, fresh, key, profiles, queue, listener, rows, shown>>

-----------------------------------------------------------------------------
\* listen(): subscribe, list secrets, list public info, list profiles, then wait.
Subscribe ==
    /\ listener = "off"
    /\ listener' = "secrets" /\ subscribed' = TRUE /\ queue' = <<>>
    /\ silent' = FALSE
    /\ UNCHANGED <<doc, holder, work, seen, fresh, key, profiles, rows, shown, faults>>

\* refresh(): two listings, each under the store's shared lock; what is listed
\* again covers a change that was not announced.
ListSecrets ==
    /\ listener \in {"secrets", "secrets again"} /\ holder = Nobody
    /\ rows' = [rows EXCEPT !.secrets = SetPaths(doc)]
    /\ listener' = IF listener = "secrets" THEN "info" ELSE "info again"
    /\ UNCHANGED <<doc, holder, work, seen, fresh, key, profiles, subscribed, queue, shown, silent, faults>>
ListInfo ==
    /\ listener \in {"info", "info again"} /\ holder = Nobody
    /\ rows' = [rows EXCEPT !.info = (doc.info # 0)]
    /\ listener' = IF listener = "info" THEN "profiles" ELSE "listening"
    /\ UNCHANGED <<doc, holder, work, seen, fresh, key, profiles, subscribed, queue, shown, silent, faults>>
ListProfiles ==
    /\ listener = "profiles"
    /\ IF Readable(profiles) THEN shown' = profiles /\ listener' = "listening"
       ELSE listener' = "off" /\ UNCHANGED shown
    /\ UNCHANGED <<doc, holder, work, seen, fresh, key, profiles, subscribed, queue, rows, silent, faults>>

\* next_change: every change of a value lists everything again.
TakeEvent ==
    /\ listener = "listening" /\ queue # <<>>
    /\ queue' = Tail(queue)
    /\ listener' = CASE Head(queue) \in {"secret", "info"} -> "secrets again"
                     [] Head(queue) = "profiles" -> "profiles"
                     [] OTHER -> "listening"
    /\ UNCHANGED <<doc, holder, work, seen, fresh, key, profiles, subscribed, rows, shown, silent, faults>>

\* The stream ends after what the channel still held: listen() starts over.
Disconnected ==
    /\ listener = "listening" /\ queue = <<>> /\ ~subscribed
    /\ listener' = "off"
    /\ UNCHANGED <<doc, holder, work, seen, fresh, key, profiles, subscribed, queue, rows, shown, silent, faults>>

StoreNext ==
    \/ \E t \in Threads : WriteDocument(t) \/ FinishWrite(t) \/ FailWrite(t)
                          \/ Respond(t) \/ Submit(t)
    \/ \E t \in Threads, p \in Paths : ReadStore(t, p)
    \/ \E t \in Threads, p \in Paths, op \in Operations : LockStore(t, op, p)
    \/ \E t \in Threads, n \in Profiles, op \in {"save", "delete"} : ChangeProfile(t, n, op)
    \/ ReplaceKey \/ RestartBackend
    \/ Subscribe \/ ListSecrets \/ ListInfo \/ ListProfiles \/ TakeEvent \/ Disconnected

-----------------------------------------------------------------------------
\* When no request is under way and the listener has taken every event of a live
\* subscription, the TUI shows exactly what is set and the current profiles:
\* whatever order events arrive in, whatever was dropped because the listener
\* was too far behind, and although a refresh is two listings.  A change that
\* was made and reported as failed is the exception.
ViewConverges ==
    (/\ listener = "listening" /\ subscribed /\ queue = <<>> /\ ~silent
     /\ \A t \in Threads : work[t].pc = "idle")
        => rows = Listing(doc) /\ shown = profiles

\* Rewriting the whole file keeps every entry but the one the request is about as
\* it is at that moment, and a conditional request replaces the very version,
\* and a public key the very one, its client had read (store/persistence.rs with_lock, store.rs set_checked).
WritesKeepOthers ==
    [][\A t \in Threads : (work[t].pc = "writing" /\ work'[t].pc = "renamed") =>
          LET w == work[t] IN
          /\ Conditional(w.op) => Agrees(doc, w)
          /\ \A p \in Paths : p # w.path => doc'.secrets[p] = doc.secrets[p]
          /\ w.op \notin {"info", "infogone"} => doc'.info = doc.info
          /\ w.op # "genkey" => doc'.generated = doc.generated
          /\ w.op \notin {"quarantine", "unquarantine"} => doc'.quarantine = doc.quarantine]_storeVars

\* A stored record always resolves to the recipient it was encrypted for, also
\* after the recipient's key was replaced (store.rs set_checked's registry,
\* store/validation.rs hydrate_record).
RecipientsSurvive ==
    \A p \in SetPaths(doc) : Hydrated(doc, p) = doc.secrets[p].for
=============================================================================
