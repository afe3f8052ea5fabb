----------------------------- MODULE SocketLease -----------------------------
(***************************************************************************)
(* One backend per repository: the lock file and the socket it guards.     *)
(* backend/src/lib.rs run and watch_socket, backend/src/socket_lease.rs,   *)
(* core/src/backend/socket_path.rs and Backend::bind/serve, and, on the    *)
(* other side, manager/src/startup.rs connect_or_start, which every        *)
(* frontend (TUI, with-secrets, decrypt --local) uses to find or to start  *)
(* the backend.                                                            *)
(*                                                                         *)
(* A socket file is named by the backend that bound it (each binds at most *)
(* one), 0 is an empty path.  A process that is killed or exits lets go of *)
(* the lock before its listening socket (descriptors are closed in the     *)
(* order they were opened), so a probe can reach a backend that is on its  *)
(* way out; one whose serve() fails closes the listener first.             *)
(***************************************************************************)
EXTENDS Naturals

CONSTANTS Frontends,   \* processes that connect to the backend
          MaxLaunched, \* bound: backend processes ever started
          MaxEnds      \* bound: crashes, failures and frontends that leave

ASSUME LeaseBounds == MaxLaunched \in Nat /\ MaxEnds \in Nat

VARIABLES lease,    \* the backend whose flock on the lock file is held, or 0
          socket,   \* the backend that bound the file at the socket's path, or 0
          daemon,   \* backend -> [pc, watched]
          client,   \* frontend -> [pc, child, at]
          launched, \* backends started so far
          endings   \* crashes and leavings left

leaseVars == <<lease, socket, daemon, client, launched, endings>>

Daemons == 1..MaxLaunched
NewClient == [pc |-> "away", child |-> 0, at |-> 0]

LeaseInit ==
    /\ lease = 0 /\ socket = 0 /\ launched = 0 /\ endings = MaxEnds
    /\ daemon = [b \in Daemons |-> [pc |-> "new", watched |-> 0]]
    /\ client = [c \in Frontends |-> NewClient]

\* What one probe (connect, Request::List, read the answer within 3 s) tells: a
\* backend that has bound but not begun to serve, one that is busy and one that
\* is dying leave it without an answer; a store that cannot be read is answered
\* with an error.
ProbeResults ==
    IF socket = 0 \/ daemon[socket].pc \in {"closed", "ended"} THEN {"nobody"}
    ELSE IF daemon[socket].pc = "serving" THEN {"answered", "no answer", "error"}
    ELSE {"no answer"}

-----------------------------------------------------------------------------
(* The backend process.                                                    *)

DaemonGoes(b, pc) == daemon' = [daemon EXCEPT ![b].pc = pc]
Unlease(b) == lease' = IF lease = b THEN 0 ELSE lease
\* An error, a crash or process::exit: the lock goes first, the socket last.
Ends(b) == DaemonGoes(b, "dying") /\ Unlease(b)

\* acquire_or_attach: flock(LOCK_EX | LOCK_NB) on the lock file.
TryLock(b) ==
    /\ daemon[b].pc = "locking"
    /\ IF lease = 0 THEN lease' = b /\ DaemonGoes(b, "probing")
       ELSE DaemonGoes(b, "blocked") /\ UNCHANGED lease
    /\ UNCHANGED <<socket, client, launched, endings>>

\* live_backend, with the lock or without: attach to a live one; own the socket
\* or try again where nobody answers; give up on anything else.
LiveBackend(b) ==
    /\ daemon[b].pc \in {"probing", "blocked"}
    /\ \E r \in ProbeResults :
         CASE r = "answered" -> DaemonGoes(b, "attached") /\ Unlease(b)
           [] r = "nobody" -> /\ DaemonGoes(b, IF daemon[b].pc = "probing" THEN "evaluating" ELSE "locking")
                              /\ UNCHANGED lease
           [] OTHER -> Ends(b)
    /\ UNCHANGED <<socket, client, launched, endings>>

\* watch_existing: an attached process ends at the first probe that is not
\* answered (a serving backend may miss one), or with the channel it holds.
WatchExisting(b) ==
    /\ daemon[b].pc = "attached"
    /\ Ends(b)
    /\ UNCHANGED <<socket, client, launched, endings>>

\* The manifest is loaded or evaluated and the store's file looked at.
Evaluate(b, good) ==
    /\ daemon[b].pc = "evaluating"
    /\ IF good THEN DaemonGoes(b, "preparing") /\ UNCHANGED lease ELSE Ends(b)
    /\ UNCHANGED <<socket, client, launched, endings>>

\* prepare_socket_path: only a socket nobody listens on is removed; one that a
\* starter removes between the look and the removal is an error.
PrepareSocketPath(b) ==
    /\ daemon[b].pc = "preparing"
    /\ IF ProbeResults = {"nobody"}
       THEN /\ socket' = 0
            /\ \/ DaemonGoes(b, "binding") /\ UNCHANGED lease
               \/ socket = 0 /\ Ends(b)
       ELSE Ends(b) /\ UNCHANGED socket
    /\ UNCHANGED <<client, launched, endings>>

\* UnixListener::bind fails where a file has appeared at the path.
Bind(b) ==
    /\ daemon[b].pc = "binding"
    /\ IF socket = 0 THEN socket' = b /\ DaemonGoes(b, "bound") /\ UNCHANGED lease
       ELSE Ends(b) /\ UNCHANGED socket
    /\ UNCHANGED <<client, launched, endings>>

\* Mutant: the lease is dropped once the socket is bound (`let _ = lease`).
ServeUnleased(b) ==
    /\ daemon[b].pc = "bound"
    /\ IF socket # 0 THEN daemon' = [daemon EXCEPT ![b] = [pc |-> "serving", watched |-> socket]]
       ELSE DaemonGoes(b, "dying")
    /\ Unlease(b)
    /\ UNCHANGED <<socket, client, launched, endings>>

\* watch_socket remembers the file at the path, then serve() accepts.
Serve(b) ==
    /\ daemon[b].pc = "bound"
    /\ IF socket # 0
       THEN daemon' = [daemon EXCEPT ![b] = [pc |-> "serving", watched |-> socket]] /\ UNCHANGED lease
       ELSE Ends(b)
    /\ UNCHANGED <<socket, client, launched, endings>>

\* The watching thread finds its socket removed or replaced: exit(3).
SocketGone(b) ==
    /\ daemon[b].pc = "serving" /\ socket # daemon[b].watched
    /\ Ends(b)
    /\ UNCHANGED <<socket, client, launched, endings>>

\* accept fails: serve() drops its listener, and run the lock after it.
ServeFails(b) ==
    /\ endings > 0 /\ endings' = endings - 1
    /\ daemon[b].pc = "serving"
    /\ DaemonGoes(b, "closed")
    /\ UNCHANGED <<lease, socket, client, launched>>

Crash(b) ==
    /\ endings > 0 /\ endings' = endings - 1
    /\ daemon[b].pc \notin {"new", "dying", "closed", "ended"}
    /\ Ends(b)
    /\ UNCHANGED <<socket, client, launched>>

Exited(b) ==
    /\ daemon[b].pc \in {"dying", "closed"}
    /\ DaemonGoes(b, "ended") /\ Unlease(b)
    /\ UNCHANGED <<socket, client, launched, endings>>

-----------------------------------------------------------------------------
(* A frontend.                                                             *)

ClientGoes(c, pc) == client' = [client EXCEPT ![c].pc = pc]

\* connect_ready, and which of its errors are retryable: the first attempt goes
\* on to the lock, a later one is repeated until the deadline.
ConnectReady(c) ==
    /\ client[c].pc \in {"away", "waiting"}
    /\ \E r \in ProbeResults :
         CASE r = "answered" -> client' = [client EXCEPT ![c].pc = "connected", ![c].at = socket]
           [] r = "error" -> ClientGoes(c, "failed")
           [] OTHER -> client[c].pc = "away" /\ ClientGoes(c, "checking")
    /\ UNCHANGED <<lease, socket, daemon, launched, endings>>

\* backend_lock_held: a shared flock conflicts with an owner's exclusive one.
\* The owner is waited for; with no owner the path is cleared for a new one.
BackendLockHeld(c) ==
    /\ client[c].pc = "checking"
    /\ ClientGoes(c, IF lease # 0 THEN "waiting" ELSE "removing")
    /\ UNCHANGED <<lease, socket, daemon, launched, endings>>

\* remove_stale_socket, whatever has happened since the lock was looked at; a
\* file that vanishes between its stat and its unlink is an error.
RemoveStaleSocket(c) ==
    /\ client[c].pc = "removing"
    /\ socket' = 0
    /\ \/ ClientGoes(c, "launching")
       \/ socket = 0 /\ ClientGoes(c, "failed")
    /\ UNCHANGED <<lease, daemon, launched, endings>>

\* Launcher::start.
Start(c) ==
    /\ client[c].pc = "launching" /\ launched < MaxLaunched
    /\ launched' = launched + 1
    /\ daemon' = [daemon EXCEPT ![launched + 1].pc = "locking"]
    /\ client' = [client EXCEPT ![c].pc = "waiting", ![c].child = launched + 1]
    /\ UNCHANGED <<lease, socket, endings>>

\* startup_error: the backend this frontend started has ended.
StartupError(c) ==
    /\ client[c].pc = "waiting" /\ client[c].child # 0 /\ daemon[client[c].child].pc = "ended"
    /\ ClientGoes(c, "failed")
    /\ UNCHANGED <<lease, socket, daemon, launched, endings>>

\* The deadline; a persistent backend it started goes on without it.
ConnectDeadline(c) ==
    /\ client[c].pc = "waiting"
    /\ ClientGoes(c, "failed")
    /\ UNCHANGED <<lease, socket, daemon, launched, endings>>

\* The connection breaks with its backend, and the frontend restarts (set_restart).
ConnectionBreaks(c) ==
    /\ client[c].pc = "connected" /\ daemon[client[c].at].pc = "ended"
    /\ client' = [client EXCEPT ![c] = NewClient]
    /\ UNCHANGED <<lease, socket, daemon, launched, endings>>

\* The frontend ends, or is started again after an error.
Leave(c) ==
    /\ endings > 0 /\ endings' = endings - 1
    /\ client[c].pc \in {"connected", "failed"}
    /\ client' = [client EXCEPT ![c] = NewClient]
    /\ UNCHANGED <<lease, socket, daemon, launched>>

LeaseNext ==
    \/ \E b \in Daemons : \/ TryLock(b) \/ LiveBackend(b) \/ WatchExisting(b) \/ PrepareSocketPath(b)
                          \/ Bind(b) \/ Serve(b) \/ SocketGone(b) \/ ServeFails(b) \/ Crash(b) \/ Exited(b)
                          \/ \E good \in BOOLEAN : Evaluate(b, good)
    \/ \E c \in Frontends : \/ ConnectReady(c) \/ BackendLockHeld(c) \/ RemoveStaleSocket(c) \/ Start(c)
                            \/ StartupError(c) \/ ConnectDeadline(c) \/ ConnectionBreaks(c) \/ Leave(c)

-----------------------------------------------------------------------------
\* All frontends share one broker: whoever talks to a running backend, the path
\* names that backend or nothing, so no other backend takes requests or gives
\* approvals beside it, although a starter may remove the socket of a backend
\* that came up after it had looked at the lock, processes crash at any step, and
\* a dying one still accepts (lib.rs run: "A second launch attaches to this socket
\* instead of replacing its approval broker").
OneBroker ==
    \A c \in Frontends :
       LET b == client[c].at IN
       (client[c].pc = "connected" /\ daemon[b].pc = "serving") =>
          /\ socket \in {0, b}
          /\ \A d \in Frontends : (client[d].pc = "connected" /\ daemon[client[d].at].pc = "serving")
                                     => client[d].at = b
=============================================================================
