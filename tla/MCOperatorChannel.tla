------------------------- MODULE MCOperatorChannel -------------------------
(* Small instances of OperatorChannel for TLC.                             *)
EXTENDS OperatorChannel

CONSTANTS t1, t2, r1, r2

MCSessions == 1..2

\* A TUI that reconnects, and two TUIs.
MCOwners == {<<t1, t1>>, <<t1, t2>>}

\* Two states in which the backend waits for requests, besides Init: r2, a
\* confirmation, was refused while no TUI was attached and its requester left;
\* or the first session came and went.
Waits(requests, sessions) ==
    /\ pc = [r \in Requests |-> IF r \in requests THEN "idle" ELSE "done"]
    /\ gone = [r \in Requests |-> r \notin requests]
    /\ result = [r \in Requests |-> IF r \in requests THEN "none" ELSE "error"]
    /\ sess = [s \in Sessions |-> IF s \in sessions THEN "off" ELSE "over"]
    /\ kind \in [Requests -> Kinds] /\ tui \in Owners
    /\ op = [r \in Requests |-> Nobody] /\ replies = [r \in Requests |-> <<>>]
    /\ deadline = [r \in Requests |-> FALSE] /\ granted = [r \in Requests |-> FALSE]
    /\ pending = 0 /\ attached = {} /\ peers = {}
    /\ registry = [r \in Requests |-> Nobody] /\ inbox = [s \in Sessions |-> <<>>]
    /\ waiting = [s \in Sessions |-> {}] /\ up = [s \in Sessions |-> FALSE]
    /\ handler = [s \in Sessions |-> [r \in Requests |-> "none"]]
    /\ signers = [t \in Tuis |-> {}]

\* One request and two sessions, where a login, whose signer a TUI keeps, is of
\* a TUI that reconnects; or two requests for the one slot and one session.
MeetingInit ==
    \/ /\ Waits({r1}, Sessions) /\ kind[r2] = "confirm"
       /\ kind[r1] = "login" => tui = <<t1, t1>>
    \/ /\ Waits(Requests, {2}) /\ tui = <<t1, t1>>
       /\ kind[r1] = "closure" /\ kind[r2] # "login"

MeetingSpec == MeetingInit /\ [][Next]_vars /\ Fairness
=============================================================================
