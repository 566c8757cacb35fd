------------------------------- MODULE Links -------------------------------
(***************************************************************************)
(* The two WebSocket clients (network/control_client.py and                *)
(* network/localization_client.py).  Each has a thread of its own, which   *)
(* connects, receives, notices the loss of the connection, waits and       *)
(* connects again, until the program stops it.                             *)
(*                                                                         *)
(* The thread is cooperative: what is between two awaits is one step, and  *)
(* each operator below is one such step, without the callback it makes.    *)
(***************************************************************************)
EXTENDS Naturals

VARIABLES
    phase,      \* where the thread waits: "connect", "subscribe", "receive", "wait"; or "ended"
    line,       \* the connection: "none", "alive", "dead" but not noticed yet, "closing" by us
    stopping,   \* _stopping
    request,    \* _request_shutdown: "none", "asked" for (call_soon_threadsafe), or "done"
    late        \* it was done while a connection was being opened

linkVars == <<phase, line, stopping, request, late>>

Links == {"control", "position"}
Open(l) == phase[l] \in {"subscribe", "receive"}

LinksInit ==
    /\ phase = [l \in Links |-> "connect"]
    /\ line = [l \in Links |-> "none"]
    /\ stopping = [l \in Links |-> FALSE]
    /\ request = [l \in Links |-> "none"]
    /\ late = [l \in Links |-> FALSE]

GoTo(l, p) == phase' = [phase EXCEPT ![l] = p]
LineIs(l, c) == line' = [line EXCEPT ![l] = c]

\* Only the position client subscribes.
ConnectionOpens(l) ==
    /\ phase[l] = "connect"
    /\ GoTo(l, IF l = "position" THEN "subscribe" ELSE "receive")
    /\ LineIs(l, "alive")
    /\ UNCHANGED <<stopping, request, late>>

AfterLoss(l) == IF stopping[l] THEN "ended" ELSE "wait"

OpeningFails(l) ==
    /\ phase[l] = "connect"
    /\ GoTo(l, AfterLoss(l))
    /\ UNCHANGED <<line, stopping, request, late>>

\* A slip: the position client does not look at _stopping before it receives.
LeavesLoopOnLoss(l) == FALSE
\* The position client looks at _stopping before each recv; the other one only when its
\* connection has ended.
LeavesLoop(l) == l = "position" /\ stopping[l]

\* Go on to the next recv, or leave the loop and close the connection.
NextRecv(l) ==
    /\ GoTo(l, IF LeavesLoop(l) THEN "ended" ELSE "receive")
    /\ LineIs(l, IF LeavesLoop(l) THEN "none" ELSE "alive")
    /\ UNCHANGED <<stopping, request, late>>

Subscribed(l) == phase[l] = "subscribe" /\ line[l] = "alive" /\ NextRecv(l)
MessageArrives(l) == phase[l] = "receive" /\ line[l] = "alive" /\ NextRecv(l)

\* An await fails: the connection is closed or broken.  The position client also gives up
\* one on which nothing was received for some time.
Loss(l) ==
    /\ Open(l)
    /\ line[l] # "alive" \/ (l = "position" /\ phase[l] = "receive")
    /\ GoTo(l, AfterLoss(l))
    /\ LineIs(l, "none")
    /\ UNCHANGED <<stopping, request, late>>

\* on_disconnected tells of the loss unless the program is stopping.
LossIsTold(l) == ~stopping[l]

\* The time between two attempts is over, or _stop_async is set.
WaitOver(l) ==
    /\ phase[l] = "wait"
    /\ GoTo(l, IF stopping[l] THEN "ended" ELSE "connect")
    /\ UNCHANGED <<line, stopping, request, late>>

\* stop, up to the join.
Stop(l) ==
    /\ ~stopping[l]
    /\ stopping' = [stopping EXCEPT ![l] = TRUE]
    /\ request' = [request EXCEPT ![l] = IF phase[l] = "ended" THEN "none" ELSE "asked"]
    /\ UNCHANGED <<phase, line, late>>

\* _request_shutdown closes the connection, if it is open by now.
RequestShutdown(l) ==
    /\ request[l] = "asked" /\ phase[l] # "ended"
    /\ request' = [request EXCEPT ![l] = "done"]
    /\ LineIs(l, IF Open(l) THEN "closing" ELSE line[l])
    /\ late' = [late EXCEPT ![l] = phase[l] = "connect"]
    /\ UNCHANGED <<phase, stopping>>

\* The other side closes the connection, or is gone without a word.
Breaks(l) ==
    /\ line[l] = "alive"
    /\ LineIs(l, "dead")
    /\ UNCHANGED <<phase, stopping, request, late>>
=============================================================================
