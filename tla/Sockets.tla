------------------------------- MODULE Sockets -------------------------------
(***************************************************************************)
(* Inbound WebSockets of a tenant on a node: the hub and the sessions      *)
(* (rs2-core/src/sockets.rs), the upgrade (rs2-core/src/runtime.rs) and    *)
(* the tasks that own the wire (rs2-server/src/websocket.rs).              *)
(*                                                                         *)
(* Three kinds of task touch a socket at once: its pump with its writer, a *)
(* task for each message event, and the requests that send to or close a   *)
(* selection of sockets.  closed is an atomic flag, the outgoing queue a   *)
(* bounded channel; a look at one and a use of the other are two steps.    *)
(***************************************************************************)
EXTENDS Naturals, Sequences, FiniteSets

CONSTANTS
    Sockets,
    Tasks,          \* message events and requests that send
    Cap,            \* ws_sockets_per_tenant
    Queue,          \* OUTGOING_QUEUE
    MaxInFlight     \* ws_messages_in_flight

ASSUME SocketsAssumption ==
    /\ Cap \in Nat /\ Queue \in Nat \ {0} /\ MaxInFlight \in Nat

None == "none"

VARIABLES
    stage,          \* where the socket's upgrade and pump are
    hub,            \* the registered sockets
    closed,         \* Entry.closed
    closer,         \* the steps left of the one close_entry that won
    kill,           \* Entry.kill has a permit
    queue, wire,    \* items queued, and handed by the writer to the connection
    writer,         \* not started, waiting, with an item in hand, or over
    closing,        \* the writer told the pump it is through
    teardown,       \* the grace period runs
    stalled,        \* the peer has stopped reading
    gone,           \* the connection has failed
    inFlight,       \* Entry.in_flight
    task            \* per task: its step, its socket, whether it is a message event

vars == <<stage, hub, closed, closer, kill, queue, wire, writer, closing, teardown,
          stalled, gone, inFlight, task>>

Idle == [at |-> "idle", of |-> None, event |-> FALSE]

Init ==
    /\ stage = [s \in Sockets |-> "idle"]
    /\ hub = {}
    /\ closed = [s \in Sockets |-> FALSE]
    /\ closer = [s \in Sockets |-> None]
    /\ kill = [s \in Sockets |-> FALSE]
    /\ queue = [s \in Sockets |-> << >>]
    /\ wire = [s \in Sockets |-> << >>]
    /\ writer = [s \in Sockets |-> "off"]
    /\ closing = [s \in Sockets |-> FALSE]
    /\ teardown = [s \in Sockets |-> FALSE]
    /\ stalled = [s \in Sockets |-> FALSE]
    /\ gone = [s \in Sockets |-> FALSE]
    /\ inFlight = [s \in Sockets |-> 0]
    /\ task = [t \in Tasks |-> Idle]

\* The receiver of the queue is dropped with the writer, or with a pump that
\* never started one.
ReceiverGone(s) == writer[s] = "over" \/ stage[s] = "done"

\* Mutation of Full: the queue has no bound.
FullNever(s) == ReceiverGone(s)

Full(s) == Len(queue[s]) = Queue \/ ReceiverGone(s)

(***************************************************************************)
(* The upgrade.                                                            *)
(***************************************************************************)
\* accept_upgrade: the ceiling as it is now.
Accept(s) ==
    /\ stage[s] = "idle"
    /\ stage' = [stage EXCEPT ![s] = IF Cardinality(hub) < Cap THEN "accepted" ELSE "refused"]
    /\ UNCHANGED <<hub, closed, closer, kill, queue, wire, writer, closing, teardown,
                   stalled, gone, inFlight, task>>

\* Mutation of Start: the ceiling is not looked at again.
StartUnchecked(s) ==
    /\ stage[s] = "accepted"
    /\ stage' = [stage EXCEPT ![s] = "registered"]
    /\ hub' = hub \cup {s}
    /\ UNCHANGED <<closed, closer, kill, queue, wire, writer, closing, teardown,
                   stalled, gone, inFlight, task>>

\* SocketSession::start: counts and registers under one lock.
Start(s) ==
    /\ stage[s] = "accepted"
    /\ IF Cardinality(hub) < Cap
       THEN stage' = [stage EXCEPT ![s] = "registered"] /\ hub' = hub \cup {s}
       ELSE stage' = [stage EXCEPT ![s] = "refused"] /\ UNCHANGED hub
    /\ UNCHANGED <<closed, closer, kill, queue, wire, writer, closing, teardown,
                   stalled, gone, inFlight, task>>

\* pump: the connection is there, the writer starts, then open is dispatched.
Upgraded(s) ==
    /\ stage[s] = "registered"
    /\ stage' = [stage EXCEPT ![s] = "opening"]
    /\ writer' = [writer EXCEPT ![s] = "waiting"]
    /\ UNCHANGED <<hub, closed, closer, kill, queue, wire, closing, teardown, stalled, gone,
                   inFlight, task>>

\* Mutation of UpgradeFailed: the pump returns at once.
UpgradeFailedReturns(s) ==
    /\ stage[s] = "registered"
    /\ stage' = [stage EXCEPT ![s] = "done"]
    /\ gone' = [gone EXCEPT ![s] = TRUE]
    /\ UNCHANGED <<hub, closed, closer, kill, queue, wire, writer, closing, teardown,
                   stalled, inFlight, task>>

\* pump: the connection never came; the session still has to be closed.
UpgradeFailed(s) ==
    /\ stage[s] = "registered"
    /\ stage' = [stage EXCEPT ![s] = "ended"]
    /\ gone' = [gone EXCEPT ![s] = TRUE]
    /\ UNCHANGED <<hub, closed, closer, kill, queue, wire, writer, closing, teardown,
                   stalled, inFlight, task>>

\* opened: the open event has run and its response is drained.
Opened(s) ==
    /\ stage[s] = "opening"
    /\ stage' = [stage EXCEPT ![s] = "reading"]
    /\ UNCHANGED <<hub, closed, closer, kill, queue, wire, writer, closing, teardown,
                   stalled, gone, inFlight, task>>

(***************************************************************************)
(* close_entry and push.                                                   *)
(***************************************************************************)
\* close_entry, its swap: the first to close goes on to the other two steps.
CloseSwap(s) ==
    /\ ~closed[s]
    /\ closed' = [closed EXCEPT ![s] = TRUE]
    /\ closer' = [closer EXCEPT ![s] = "remove"]

\* close and close_tenant: a registered socket is closed by a request.
Close(s) ==
    /\ s \in hub
    /\ CloseSwap(s)
    /\ UNCHANGED <<stage, hub, kill, queue, wire, writer, closing, teardown, stalled, gone,
                   inFlight, task>>

\* frame, when the frame breaks a limit (breach).
Breach(s) ==
    /\ stage[s] = "reading"
    /\ CloseSwap(s)
    /\ UNCHANGED <<stage, hub, kill, queue, wire, writer, closing, teardown, stalled, gone,
                   inFlight, task>>

\* The token expires while no close is under way (expire).
Expire(s) ==
    /\ stage[s] = "reading"
    /\ ~teardown[s]
    /\ CloseSwap(s)
    /\ UNCHANGED <<stage, hub, kill, queue, wire, writer, closing, teardown, stalled, gone,
                   inFlight, task>>

CloseRemove(s) ==
    /\ closer[s] = "remove"
    /\ hub' = hub \ {s}
    /\ closer' = [closer EXCEPT ![s] = "send"]
    /\ UNCHANGED <<stage, closed, kill, queue, wire, writer, closing, teardown, stalled, gone,
                   inFlight, task>>

\* Mutation of CloseSend: a full queue is left as it is.
CloseSendOrNot(s) ==
    /\ closer[s] = "send"
    /\ closer' = [closer EXCEPT ![s] = None]
    /\ queue' = IF Full(s) THEN queue ELSE [queue EXCEPT ![s] = Append(@, "close")]
    /\ UNCHANGED <<stage, hub, closed, kill, wire, writer, closing, teardown, stalled, gone,
                   inFlight, task>>

CloseSend(s) ==
    /\ closer[s] = "send"
    /\ closer' = [closer EXCEPT ![s] = None]
    /\ IF Full(s)
       THEN kill' = [kill EXCEPT ![s] = TRUE] /\ UNCHANGED queue
       ELSE queue' = [queue EXCEPT ![s] = Append(@, "close")] /\ UNCHANGED kill
    /\ UNCHANGED <<stage, hub, closed, wire, writer, closing, teardown, stalled, gone,
                   inFlight, task>>

\* send: the sockets that match are those registered and not closed.
Send(t, s) ==
    /\ task[t].at = "idle"
    /\ s \in hub
    /\ ~closed[s]
    /\ task' = [task EXCEPT ![t] = [at |-> "push", of |-> s, event |-> FALSE]]
    /\ UNCHANGED <<stage, hub, closed, closer, kill, queue, wire, writer, closing,
                   teardown, stalled, gone, inFlight>>

\* The task is over; one for a message event gives its place back.
Finished(t) ==
    /\ task' = [task EXCEPT ![t].at = "done"]
    /\ inFlight' = IF task[t].event THEN [inFlight EXCEPT ![task[t].of] = @ - 1]
                   ELSE inFlight

\* push, up to its look at closed.
PushCheck(t) ==
    /\ task[t].at = "push"
    /\ IF closed[task[t].of]
       THEN Finished(t)
       ELSE task' = [task EXCEPT ![t].at = "checked"] /\ UNCHANGED inFlight
    /\ UNCHANGED <<stage, hub, closed, closer, kill, queue, wire, writer, closing,
                   teardown, stalled, gone>>

\* push, its try_send: a socket whose queue is full is dropped.
PushSend(t) ==
    LET s == task[t].of IN
    /\ task[t].at = "checked"
    /\ Finished(t)
    /\ IF Full(s)
       THEN /\ closed' = [closed EXCEPT ![s] = TRUE]
            /\ hub' = hub \ {s}
            /\ kill' = [kill EXCEPT ![s] = TRUE]
            /\ UNCHANGED queue
       ELSE /\ queue' = [queue EXCEPT ![s] = Append(@, "frame")]
            /\ UNCHANGED <<closed, hub, kill>>
    /\ UNCHANGED <<stage, closer, wire, writer, closing, teardown, stalled, gone>>

(***************************************************************************)
(* The session: frames in, replies out.                                    *)
(***************************************************************************)
\* frame: within the limits, its event is dispatched on a task of its own.
FrameIn(s, t) ==
    /\ stage[s] = "reading"
    /\ ~closed[s]
    /\ inFlight[s] < MaxInFlight
    /\ task[t].at = "idle"
    /\ task' = [task EXCEPT ![t] = [at |-> "event", of |-> s, event |-> TRUE]]
    /\ inFlight' = [inFlight EXCEPT ![s] = @ + 1]
    /\ UNCHANGED <<stage, hub, closed, closer, kill, queue, wire, writer, closing,
                   teardown, stalled, gone>>

\* deliver_reply: a body is pushed, as a frame.
Reply(t) ==
    /\ task[t].at = "event"
    /\ task' = [task EXCEPT ![t].at = "push"]
    /\ UNCHANGED <<stage, hub, closed, closer, kill, queue, wire, writer, closing,
                   teardown, stalled, gone, inFlight>>

\* deliver_reply: the problem is a limit_exceeded, which closes the socket; the
\* task goes on when the close is through.
ReplyClose(t) ==
    /\ task[t].at = "event"
    /\ CloseSwap(task[t].of)
    /\ task' = [task EXCEPT ![t].at = "closing"]
    /\ UNCHANGED <<stage, hub, kill, queue, wire, writer, closing, teardown, stalled, gone,
                   inFlight>>

ReplyClosed(t) ==
    /\ task[t].at = "closing"
    /\ closer[task[t].of] = None
    /\ Finished(t)
    /\ UNCHANGED <<stage, hub, closed, closer, kill, queue, wire, writer, closing,
                   teardown, stalled, gone>>

\* deliver_reply: there is nothing to send, or the socket is closed already.
ReplyNothing(t) ==
    /\ task[t].at = "event"
    /\ Finished(t)
    /\ UNCHANGED <<stage, hub, closed, closer, kill, queue, wire, writer, closing,
                   teardown, stalled, gone>>

\* External: the service panics in a message event.  The task ends there, and
\* its place in in_flight is not given back.
Panic(t) ==
    /\ task[t].at = "event"
    /\ task' = [task EXCEPT ![t].at = "done"]
    /\ UNCHANGED <<stage, hub, closed, closer, kill, queue, wire, writer, closing,
                   teardown, stalled, gone, inFlight>>

(***************************************************************************)
(* The wire.                                                               *)
(***************************************************************************)
Busy(s) == writer[s] \in {"frame", "close"}

\* pump_writer: takes the next item, which makes room for another.
Take(s) ==
    /\ writer[s] = "waiting"
    /\ queue[s] # << >>
    /\ writer' = [writer EXCEPT ![s] = Head(queue[s])]
    /\ queue' = [queue EXCEPT ![s] = Tail(@)]
    /\ UNCHANGED <<stage, hub, closed, closer, kill, wire, closing, teardown, stalled,
                   gone, inFlight, task>>

\* Mutation of Write: the writer does not stop at a close.
WriteOn(s) ==
    /\ Busy(s)
    /\ ~stalled[s]
    /\ wire' = [wire EXCEPT ![s] = Append(@, writer[s])]
    /\ writer' = [writer EXCEPT ![s] = "waiting"]
    /\ closing' = [closing EXCEPT ![s] = @ \/ writer[s] = "close"]
    /\ UNCHANGED <<stage, hub, closed, closer, kill, queue, teardown, stalled, gone,
                   inFlight, task>>

\* pump_writer: the item in hand is sent; a close is the last.
Write(s) ==
    /\ Busy(s)
    /\ ~stalled[s]
    /\ wire' = [wire EXCEPT ![s] = Append(@, writer[s])]
    /\ LET last == writer[s] = "close" IN
       /\ writer' = [writer EXCEPT ![s] = IF last THEN "over" ELSE "waiting"]
       /\ closing' = [closing EXCEPT ![s] = last]
    /\ UNCHANGED <<stage, hub, closed, closer, kill, queue, teardown, stalled, gone,
                   inFlight, task>>

WriteFailed(s) ==
    /\ Busy(s)
    /\ writer' = [writer EXCEPT ![s] = "over"]
    /\ closing' = [closing EXCEPT ![s] = TRUE]
    /\ UNCHANGED <<stage, hub, closed, closer, kill, queue, wire, teardown, stalled,
                   gone, inFlight, task>>

\* pump: the writer is through, or the peer closed: the grace period starts.
Teardown(s) ==
    /\ stage[s] = "reading"
    /\ closing[s]
    /\ ~teardown[s]
    /\ teardown' = [teardown EXCEPT ![s] = TRUE]
    /\ UNCHANGED <<stage, hub, closed, closer, kill, queue, wire, writer, closing,
                   stalled, gone, inFlight, task>>

PeerClose(s) ==
    /\ stage[s] = "reading"
    /\ teardown' = [teardown EXCEPT ![s] = TRUE]
    /\ UNCHANGED <<stage, hub, closed, closer, kill, queue, wire, writer, closing,
                   stalled, gone, inFlight, task>>

\* The pump's loop ends and the writer with it.
End(s) ==
    /\ stage' = [stage EXCEPT ![s] = "ended"]
    /\ writer' = [writer EXCEPT ![s] = "over"]
    /\ UNCHANGED <<hub, closed, closer, kill, queue, wire, closing, teardown, stalled, gone,
                   inFlight, task>>

Killed(s) == stage[s] = "reading" /\ kill[s] /\ End(s)

GraceOver(s) == stage[s] = "reading" /\ teardown[s] /\ End(s)

\* The read side reports that the connection has failed or that it is over.
PeerGone(s) == stage[s] = "reading" /\ gone[s] /\ End(s)

\* External: the connection fails or ends, at whatever stage the pump is.
PeerLost(s) ==
    /\ stage[s] \in {"registered", "opening", "reading"}
    /\ ~gone[s]
    /\ gone' = [gone EXCEPT ![s] = TRUE]
    /\ UNCHANGED <<stage, hub, closed, closer, kill, queue, wire, writer, closing,
                   teardown, stalled, inFlight, task>>

\* External: the peer reads no more and the connection stays up.
PeerStall(s) ==
    /\ stage[s] \in {"opening", "reading"}
    /\ ~stalled[s]
    /\ stalled' = [stalled EXCEPT ![s] = TRUE]
    /\ UNCHANGED <<stage, hub, closed, closer, kill, queue, wire, writer, closing,
                   teardown, gone, inFlight, task>>

\* closed: release the socket, then dispatch the close event.
Closed(s) ==
    /\ stage[s] = "ended"
    /\ stage' = [stage EXCEPT ![s] = "done"]
    /\ closed' = [closed EXCEPT ![s] = TRUE]
    /\ hub' = hub \ {s}
    /\ UNCHANGED <<closer, kill, queue, wire, writer, closing, teardown, stalled, gone,
                   inFlight, task>>

Next ==
    \/ \E s \in Sockets :
         \/ Accept(s) \/ Start(s) \/ Upgraded(s) \/ UpgradeFailed(s) \/ Opened(s)
         \/ Close(s) \/ Breach(s) \/ Expire(s) \/ CloseRemove(s) \/ CloseSend(s)
         \/ Take(s) \/ Write(s) \/ WriteFailed(s) \/ Teardown(s) \/ PeerClose(s)
         \/ Killed(s) \/ GraceOver(s) \/ PeerGone(s) \/ PeerLost(s) \/ PeerStall(s)
         \/ Closed(s)
         \/ \E t \in Tasks : Send(t, s) \/ FrameIn(s, t)
    \/ \E t \in Tasks :
         \/ PushCheck(t) \/ PushSend(t) \/ Reply(t) \/ Panic(t)
         \/ ReplyNothing(t) \/ ReplyClose(t) \/ ReplyClosed(t)

Spec == Init /\ [][Next]_vars

\* Tasks that can run are polled, an upgrade comes or fails, the grace period
\* ends, and a failed connection is reported to its reader.  Nothing is assumed
\* of the peer, nor of the services: the open event's response is drained
\* outside the wall clock, and a message event may run for ever.
Fairness ==
    \A s \in Sockets :
        /\ WF_vars(Upgraded(s) \/ UpgradeFailed(s))
        /\ WF_vars(CloseRemove(s)) /\ WF_vars(CloseSend(s))
        /\ WF_vars(Take(s)) /\ WF_vars(Write(s)) /\ WF_vars(Teardown(s))
        /\ WF_vars(Killed(s)) /\ WF_vars(GraceOver(s)) /\ WF_vars(PeerGone(s))
        /\ WF_vars(Closed(s))

FairSpec == Spec /\ Fairness

(***************************************************************************)
(* Properties.                                                             *)
(***************************************************************************)
\* Every variable keeps its type; the queue is never over its bound.
TypeOK ==
    /\ stage \in [Sockets -> {"idle", "accepted", "refused", "registered", "opening",
                              "reading", "ended", "done"}]
    /\ hub \subseteq Sockets
    /\ closer \in [Sockets -> {None, "remove", "send"}]
    /\ \A s \in Sockets : Len(queue[s]) <= Queue
    /\ writer \in [Sockets -> {"off", "waiting", "frame", "close", "over"}]
    /\ \A f \in {closed, kill, closing, teardown, stalled, gone} :
         f \in [Sockets -> BOOLEAN]
    /\ inFlight \in [Sockets -> Nat]
    /\ \A t \in Tasks : task[t].at \in {"idle", "event", "push", "checked", "closing", "done"}

\* The tenant's sockets stay within the ceiling although upgrades are accepted
\* against a count that is stale by the time they register.
Ceiling == Cardinality(hub) <= Cap

\* The writer hands nothing to the connection after a close, and one close at
\* most, although a task that looked at closed before the close was queued may
\* queue its frame behind it.
NothingAfterClose ==
    \A s \in Sockets : \A i \in 1 .. Len(wire[s]) :
        wire[s][i] = "close" => i = Len(wire[s])

\* A socket that is closed, for whatever reason, comes to its end and its close
\* event, unless its peer stopped reading on a connection that stays up, or its
\* open event is not over.
ClosedEnds ==
    \A s \in Sockets :
        closed[s] ~> \/ stage[s] = "done"
                     \/ stalled[s] /\ ~gone[s]
                     \/ stage[s] = "opening"

\* A registered socket whose connection fails, in the upgrade, during the open
\* event or while it is read, leaves the hub: its place under the ceiling comes
\* back and no send takes it for a recipient, unless its open event is not over.
GoneIsReleased ==
    \A s \in Sockets : gone[s] ~> (s \notin hub \/ stage[s] = "opening")
=============================================================================
