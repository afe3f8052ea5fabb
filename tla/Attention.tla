------------------------------ MODULE Attention ------------------------------
(***************************************************************************)
(* How a TUI calls for its operator: manager/src/ui/attention.rs, which    *)
(* compares every frame with what it has signalled, and                    *)
(* ui/desktop_notify.rs, a thread of its own that shows, replaces and      *)
(* closes desktop notifications over the session bus.                      *)
(*                                                                         *)
(* A request waits in the task bar, flashes there or is on screen, and may *)
(* count down to an instant.  A notification belongs to a key: a request,  *)
(* or the missed step of its procedure.  A call on the bus may fail before *)
(* or after the daemon has carried it out.                                 *)
(***************************************************************************)
EXTENDS Integers, Sequences, FiniteSets, SequencesExt

CONSTANTS Asks,       \* requests that may wait for the operator
          ReminderAt, \* how long before the deadline the reminder comes
          Deadlines,  \* instants a countdown may end at, 0 for none
          MaxNow,     \* bound: the clock
          MaxScreen,  \* bound: what happens on screen
          MaxBusFaults \* bound: failing bus calls

ASSUME AttentionBounds == ReminderAt \in Nat /\ Deadlines \subseteq Nat /\ {MaxNow, MaxScreen, MaxBusFaults} \subseteq Nat
ASSUME AsksAssumption == IsFiniteSet(Asks)

VARIABLES screen,   \* ask -> [at, deadline] as the model has it; who missed a step
          attention, \* struct Attention: known, titled, missed
          calls,    \* DesktopCalls sent to the thread
          ids,      \* the thread: key -> id of its notification, or 0
          desktop,  \* the daemon: notifications on the desktop or dismissed from it
          nextId,   \* the daemon's next id
          drawn,    \* the last frame shows the model as it is
          now,      \* the clock
          left,     \* screen changes and bus faults left
          slipped   \* keys with a bus call that failed, or that nobody made

attentionVars == <<screen, attention, calls, ids, desktop, nextId, drawn, now, left, slipped>>

AskKey(a) == <<"ask", a>>
MissedKey(a) == <<"missed", a>>
AttentionKeys == {AskKey(a) : a \in Asks} \union {MissedKey(a) : a \in Asks}
NoAsk == [at |-> "gone", deadline |-> 0]
NotKnown == [open |-> FALSE, deadline |-> 0, reminded |-> FALSE]
NoTitle == {}

AttentionInit ==
    /\ screen = [asks |-> [a \in Asks |-> NoAsk], missed |-> {}, up |-> TRUE]
    /\ attention = [known |-> [a \in Asks |-> NotKnown], titled |-> NoTitle, missed |-> {}]
    /\ calls = <<>> /\ ids = [k \in AttentionKeys |-> 0] /\ desktop = {} /\ nextId = 1
    /\ drawn = TRUE /\ now = 0 /\ slipped = {}
    /\ left = [screen |-> MaxScreen, bus |-> MaxBusFaults]

-----------------------------------------------------------------------------
(* What the model shows; the procedures' own rules are in ProcedureDialogs. *)

Foreground == {a \in Asks : screen.asks[a].at = "screen"}
ScreenChange == left.screen > 0 /\ left' = [left EXCEPT !.screen = @ - 1] /\ drawn' = FALSE

AskChanges(a, ask) ==
    /\ ScreenChange /\ screen.up /\ ask # screen.asks[a]
    /\ ask.at = "screen" => Foreground \subseteq {a}
    /\ ask.deadline = 0 \/ ask.deadline > now
    /\ screen' = [screen EXCEPT !.asks[a] = ask]
    /\ UNCHANGED <<attention, calls, ids, desktop, nextId, now, slipped>>
StepMissed(a) ==
    /\ ScreenChange /\ screen.up
    /\ screen' = [screen EXCEPT !.missed = IF a \in @ THEN @ \ {a} ELSE @ \union {a}]
    /\ UNCHANGED <<attention, calls, ids, desktop, nextId, now, slipped>>
\* The TUI closes: its last update sees no model at all.
CloseTui ==
    /\ ScreenChange /\ screen.up
    /\ screen' = [asks |-> [a \in Asks |-> NoAsk], missed |-> {}, up |-> FALSE]
    /\ UNCHANGED <<attention, calls, ids, desktop, nextId, now, slipped>>
TimePasses ==
    /\ now < MaxNow
    /\ now' = now + 1 /\ drawn' = FALSE
    /\ UNCHANGED <<screen, attention, calls, ids, desktop, nextId, left, slipped>>

-----------------------------------------------------------------------------
(* attention.rs, after a frame.                                            *)

IsOpen(a) == screen.asks[a].at # "gone"
Near(deadline) == deadline # 0 /\ deadline - now <= ReminderAt
\* Countdown started, or started again more than a second later.
Restarted(a) ==
    LET old == attention.known[a].deadline new == screen.asks[a].deadline
    IN  new # 0 /\ (old = 0 \/ new > old + 1)

\* Mutant: an ask that closes stays known.
KnownKept(a) ==
    LET k == attention.known[a] d == screen.asks[a].deadline IN
    IF ~IsOpen(a) THEN k
    ELSE IF ~k.open THEN IF screen.asks[a].at = "bar" THEN NotKnown
                         ELSE [open |-> TRUE, deadline |-> d, reminded |-> Near(d)]
    ELSE [open |-> TRUE, deadline |-> d, reminded |-> IF Restarted(a) THEN Near(d) ELSE k.reminded \/ Near(d)]

\* update's table: a request is announced when it is on screen or flashes, again
\* when its countdown starts, and once more near its end.
KnownAfter(a) ==
    LET k == attention.known[a] d == screen.asks[a].deadline IN
    IF ~IsOpen(a) THEN NotKnown
    ELSE IF ~k.open THEN IF screen.asks[a].at = "bar" THEN NotKnown
                         ELSE [open |-> TRUE, deadline |-> d, reminded |-> Near(d)]
    ELSE [open |-> TRUE, deadline |-> d, reminded |-> IF Restarted(a) THEN Near(d) ELSE k.reminded \/ Near(d)]

NotifiedAsks ==
    {a \in Asks : /\ IsOpen(a) /\ KnownAfter(a).open
                  /\ \/ ~attention.known[a].open \/ Restarted(a)
                     \/ ~attention.known[a].reminded /\ Near(screen.asks[a].deadline)}

\* DesktopCalls of one frame, in the order they are sent.
CallsOf(do, keys) == SetToSeq({[do |-> do, key |-> k] : k \in keys})
DrawFrame ==
    LET after == [a \in Asks |-> KnownAfter(a)]
        closed == {a \in Asks : attention.known[a].open /\ ~IsOpen(a)}
    IN  /\ ~drawn /\ drawn' = TRUE
        /\ attention' = [known |-> after, missed |-> screen.missed,
                    titled |-> {a \in Foreground : after[a].open}]
        /\ calls' = calls \o CallsOf("notify", {AskKey(a) : a \in NotifiedAsks})
                          \o CallsOf("close", {AskKey(a) : a \in closed})
                          \o CallsOf("notify", {MissedKey(a) : a \in screen.missed \ attention.missed})
                          \o CallsOf("close", {MissedKey(a) : a \in attention.missed \ screen.missed})
        /\ UNCHANGED <<screen, ids, desktop, nextId, now, left, slipped>>

-----------------------------------------------------------------------------
(* desktop_notify.rs: the thread takes one call at a time.                 *)

Call == Head(calls)
\* The daemon's side of Notify: the notification of that id is replaced if it is
\* still there, else a new one is shown.
ShowAs(id) == {n \in desktop : n.id # id} \union {[id |-> id, key |-> Call.key, dismissed |-> FALSE]}
NewOrReplaced(id) == IF \E n \in desktop : n.id = id /\ ~n.dismissed THEN id ELSE nextId
BusFault == left.bus > 0 /\ left' = [left EXCEPT !.bus = @ - 1]

Notify ==
    /\ calls # <<>> /\ Call.do = "notify"
    /\ LET id == NewOrReplaced(ids[Call.key]) IN
         /\ desktop' = ShowAs(id)
         /\ ids' = [ids EXCEPT ![Call.key] = id]
         /\ nextId' = IF id = nextId THEN nextId + 1 ELSE nextId
    /\ calls' = Tail(calls)
    /\ UNCHANGED <<screen, attention, drawn, now, left, slipped>>

\* apply, Close: the id is forgotten before the daemon is told.
Close ==
    /\ calls # <<>> /\ Call.do = "close"
    /\ desktop' = {n \in desktop : n.id # ids[Call.key]}
    /\ ids' = [ids EXCEPT ![Call.key] = 0]
    /\ calls' = Tail(calls)
    /\ UNCHANGED <<screen, attention, nextId, drawn, now, left, slipped>>

\* The reply does not come, although the daemon may have shown the notification;
\* the call is made once more on a new connection, unless none can be opened.
NotifyFails(shown) ==
    /\ calls # <<>> /\ Call.do = "notify" /\ BusFault
    /\ LET id == NewOrReplaced(ids[Call.key]) IN
         /\ desktop' = IF shown THEN ShowAs(id) ELSE desktop
         /\ nextId' = IF shown /\ id = nextId THEN nextId + 1 ELSE nextId
    /\ calls' \in {calls, Tail(calls)}
    /\ slipped' = slipped \union {Call.key}
    /\ UNCHANGED <<screen, attention, ids, drawn, now>>
\* The daemon may have closed it or not; a second attempt finds no id and does nothing.
CloseFails ==
    /\ calls # <<>> /\ Call.do = "close" /\ BusFault
    /\ ids' = [ids EXCEPT ![Call.key] = 0]
    /\ desktop' \in {desktop, {n \in desktop : n.id # ids[Call.key]}}
    /\ calls' = Tail(calls)
    /\ slipped' = slipped \union {Call.key}
    /\ UNCHANGED <<screen, attention, nextId, drawn, now>>
\* No connection can be opened: the call is dropped, and the id kept.
BusGone ==
    /\ calls # <<>> /\ BusFault
    /\ calls' = Tail(calls)
    /\ slipped' = slipped \union {Call.key}
    /\ UNCHANGED <<screen, attention, ids, desktop, nextId, drawn, now>>
\* The process ends after its last frame, with calls still in the channel.
ExitTui ==
    /\ ~screen.up /\ drawn /\ calls # <<>>
    /\ slipped' = slipped \union {calls[i].key : i \in DOMAIN calls}
    /\ calls' = <<>>
    /\ UNCHANGED <<screen, attention, ids, desktop, nextId, drawn, now, left>>

\* The operator dismisses a notification.
Dismiss(n) ==
    /\ left.screen > 0 /\ left' = [left EXCEPT !.screen = @ - 1]
    /\ desktop' = (desktop \ {n}) \union {[n EXCEPT !.dismissed = TRUE]}
    /\ UNCHANGED <<screen, attention, calls, ids, nextId, drawn, now, slipped>>

AttentionNext ==
    \/ \E a \in Asks : \/ StepMissed(a)
                       \/ \E at \in {"bar", "flash", "screen"}, d \in Deadlines : AskChanges(a, [at |-> at, deadline |-> d])
                       \/ AskChanges(a, NoAsk)
    \/ CloseTui \/ TimePasses \/ DrawFrame \/ Notify \/ Close \/ CloseFails \/ BusGone \/ ExitTui
    \/ \E shown \in BOOLEAN : NotifyFails(shown)
    \/ \E n \in desktop : Dismiss(n)

AttentionSpec == AttentionInit /\ [][AttentionNext]_attentionVars

-----------------------------------------------------------------------------
\* After each frame every request on screen or flashing has called for the
\* operator, and the title is up for the one on screen alone; and once the thread
\* has caught up, such a request has its notification unless it was dismissed,
\* and never more than one, and nothing answered or gone has one left, except
\* where a bus call failed or the process ended with calls unsent
\* (desktop_notify.rs: "A notification replaces the previous one of the same
\* request, ... and closes once the request is answered or gone").
CallsForOperator ==
    drawn =>
      /\ attention.titled = Foreground
      /\ calls = <<>> => \A k \in AttentionKeys \ slipped :
            LET shown == {n \in desktop : n.key = k /\ ~n.dismissed}
                wanted == IF k[1] = "ask" THEN screen.asks[k[2]].at \in {"flash", "screen"} ELSE k[2] \in screen.missed
                allowed == IF k[1] = "ask" THEN IsOpen(k[2]) ELSE k[2] \in screen.missed
            IN  /\ Cardinality(shown) <= IF allowed THEN 1 ELSE 0
                /\ wanted => \E n \in desktop : n.key = k
=============================================================================
