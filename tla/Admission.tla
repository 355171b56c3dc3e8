------------------------------ MODULE Admission ------------------------------
(***************************************************************************)
(* What lets a tenant's requests in (rs2-core/src/wrapper/mod.rs and       *)
(* rs2-core/src/runtime.rs): the call depth, the circuit breaker that      *)
(* dispatch checks first, the concurrency permits it takes next, and the   *)
(* breaches that invoke and the socket sessions record.                    *)
(*                                                                         *)
(* All of it is kept per tenant, so one tenant is modelled.  A service may *)
(* dispatch further requests of the tenant.  The steps of a pipeline are   *)
(* awaited by it, and a request dropped or timed out drops them.  The      *)
(* requests of a JavaScript guest and of a tee branch are dispatched from  *)
(* tasks of their own (engines/js.rs, pipeline/executor.rs), which go on   *)
(* when the request that started them is over.                             *)
(***************************************************************************)
EXTENDS Naturals, Sequences, FiniteSets

CONSTANTS
    Requests,
    Guests,       \* requests served by a JavaScript guest
    Tees,         \* requests served by a pipeline with a tee branch
    Cap,          \* tenant_concurrency
    MaxDepth,     \* max_depth
    Threshold,    \* breaker_threshold
    Window,       \* breaker_window
    Cooldown,     \* breaker_cooldown
    MaxTime       \* bound on the clock

ASSUME AdmissionAssumption ==
    /\ IsFiniteSet(Requests)
    /\ Guests \subseteq Requests /\ Tees \subseteq Requests \ Guests
    /\ Cap \in Nat /\ MaxDepth \in Nat
    /\ Threshold \in Nat \ {0}
    /\ Window \in Nat /\ Cooldown \in Nat \ {0} /\ MaxTime \in Nat

VARIABLES
    now,          \* the monotonic clock
    breaches,     \* recent_breaches
    openUntil,    \* open_until, 0 when None
    permits,      \* free permits of the tenant's semaphore
    pc,           \* where each request is; "left" when it is over and a task it
                  \* started may go on
    above,        \* the requests a request was dispatched below, outermost included
    detached,     \* requests dispatched from a task of their own
    spell,        \* breaches recorded since the breaker last tripped
    atTrip,       \* requests and sockets in being when it did
    sinceClear    \* breaches recorded since it was last cleared

vars == <<now, breaches, openUntil, permits, pc, above, detached, spell, atTrip,
          sinceClear>>

\* A request in being: past the breaker and not over, or an open socket.
InBeing == {r \in Requests : pc[r] \in {"checked", "executing", "socket"}}

Executing == {r \in Requests : pc[r] = "executing"}

Called(r) == {q \in Requests : r \in above[q] /\ above[q] = above[r] \cup {r}}

\* What is dropped with r: the requests below it, down to the detached ones.
Below(r) ==
    {q \in Requests :
        /\ r \in above[q]
        /\ \A p \in above[q] \cup {q} : r \in above[p] => p \notin detached}

Open == openUntil > now

Init ==
    /\ now = 1
    /\ breaches = << >>
    /\ openUntil = 0
    /\ permits = Cap
    /\ pc = [r \in Requests |-> "idle"]
    /\ above = [r \in Requests |-> {}]
    /\ detached = {}
    /\ spell = 0
    /\ atTrip = 0
    /\ sinceClear = 0

(***************************************************************************)
(* The breaker.                                                            *)
(***************************************************************************)
\* check: half-open once the cooldown is over, with the breaches forgotten.
Check ==
    IF openUntil = 0 \/ Open
    THEN UNCHANGED <<breaches, openUntil, sinceClear>>
    ELSE openUntil' = 0 /\ breaches' = << >> /\ sinceClear' = 0

\* Mutation of Recent: breaches never leave the window.
RecentAll(seq) == seq

\* record_breach drops from the front the breaches that left the window; the
\* queue is in order of time, so that is all of them.
Recent(seq) == SelectSeq(seq, LAMBDA at : now - at <= Window)

\* record_breach, with the number of requests in being when it trips.
RecordBreach(remaining) ==
    /\ breaches' = Recent(Append(breaches, now))
    /\ sinceClear' = sinceClear + 1
    /\ IF Len(breaches') >= Threshold
       THEN /\ openUntil' = now + Cooldown
            /\ IF Open
               THEN spell' = spell + 1 /\ UNCHANGED atTrip
               ELSE spell' = 0 /\ atTrip' = remaining
       ELSE /\ UNCHANGED <<openUntil, atTrip>>
            /\ spell' = IF Open THEN spell + 1 ELSE spell

(***************************************************************************)
(* dispatch.                                                               *)
(***************************************************************************)
Reject(q) == pc' = [pc EXCEPT ![q] = "over"] /\ UNCHANGED <<above, detached>>

\* Mutation of Enter: the breaker is not consulted for a call from inside.
EnterFromInside(q, outer, apart) ==
    /\ pc[q] = "idle"
    /\ IF Cardinality(outer) > MaxDepth
       THEN Reject(q) /\ UNCHANGED <<breaches, openUntil, sinceClear>>
       ELSE /\ Check
            /\ IF Open /\ outer = {}
               THEN Reject(q)
               ELSE /\ pc' = [pc EXCEPT ![q] = "checked"]
                    /\ above' = [above EXCEPT ![q] = outer]
                    /\ detached' = detached \cup apart
    /\ UNCHANGED <<now, permits, spell, atTrip>>

\* A request comes in below the requests in outer: its depth, then the breaker.
Enter(q, outer, apart) ==
    /\ pc[q] = "idle"
    /\ IF Cardinality(outer) > MaxDepth
       THEN Reject(q) /\ UNCHANGED <<breaches, openUntil, sinceClear>>
       ELSE /\ Check
            /\ IF Open
               THEN Reject(q)
               ELSE /\ pc' = [pc EXCEPT ![q] = "checked"]
                    /\ above' = [above EXCEPT ![q] = outer]
                    /\ detached' = detached \cup apart
    /\ UNCHANGED <<now, permits, spell, atTrip>>

Arrive(q) == Enter(q, {}, {})

\* A step of a pipeline: the executing service awaits the request.
Call(r, q) ==
    /\ pc[r] = "executing"
    /\ r \notin Guests
    /\ Enter(q, above[r] \cup {r}, {})

\* A guest's host request: the isolate thread parks until it is answered.  The
\* thread runs on when the request it serves was dropped, timed out or has
\* begun to stream its response.
HostRequest(r, q) ==
    /\ r \in Guests
    /\ pc[r] \in {"executing", "left"}
    /\ Called(r) \cap InBeing = {}
    /\ Enter(q, above[r] \cup {r}, {q})

\* A step of a tee branch, which nobody waits for.
TeeStep(r, q) ==
    /\ r \in Tees
    /\ pc[r] \in {"executing", "left"}
    /\ Enter(q, above[r] \cup {r}, {q})

\* Mutation of Admit: the request waits for a permit.
AdmitWaits(r) ==
    /\ pc[r] = "checked"
    /\ permits > 0
    /\ permits' = permits - 1
    /\ pc' = [pc EXCEPT ![r] = "executing"]
    /\ UNCHANGED <<now, breaches, openUntil, above, detached, spell, atTrip, sinceClear>>

\* admit: a permit at once, or the request fails.
Admit(r) ==
    /\ pc[r] = "checked"
    /\ IF permits > 0
       THEN /\ permits' = permits - 1
            /\ pc' = [pc EXCEPT ![r] = "executing"]
       ELSE /\ pc' = [pc EXCEPT ![r] = "over"]
            /\ UNCHANGED permits
    /\ UNCHANGED <<now, breaches, openUntil, above, detached, spell, atTrip, sinceClear>>

\* Between the breaker and the permit: the tenant does not load, the path has no
\* mount, access is denied, the body is too large; or the host itself answers
\* (a preflight, discovery, OPTIONS, the sockets subtree).
AnswerEarly(r) ==
    /\ pc[r] = "checked"
    /\ pc' = [pc EXCEPT ![r] = "over"]
    /\ UNCHANGED <<now, breaches, openUntil, permits, above, detached, spell, atTrip,
                   sinceClear>>

\* An upgrade is answered before any permit is taken.
Upgrade(r) ==
    /\ pc[r] = "checked"
    /\ above[r] = {}
    /\ pc' = [pc EXCEPT ![r] = "socket"]
    /\ UNCHANGED <<now, breaches, openUntil, permits, above, detached, spell, atTrip,
                   sinceClear>>

\* accept_upgrade or SocketSession::start at the socket ceiling: the refusal is
\* a breach, recorded outside invoke.
UpgradeRefused(r) ==
    /\ pc[r] = "checked"
    /\ above[r] = {}
    /\ pc' = [pc EXCEPT ![r] = "over"]
    /\ RecordBreach(Cardinality(InBeing \ {r}))
    /\ UNCHANGED <<now, permits, above, detached>>

\* A request cut off: the isolate thread and the tee branches run on.
CutOff(q) ==
    IF pc[q] = "executing" /\ q \in Guests \cup Tees THEN "left" ELSE "over"

\* Mutation of Leave: only the request that ends returns its permit.
LeaveAlone(r, how) ==
    /\ pc' = [q \in Requests |->
                IF q = r THEN how
                ELSE IF q \in Below(r) \cap InBeing THEN CutOff(q)
                ELSE pc[q]]
    /\ permits' = permits + Cardinality({r} \cap Executing)

\* Mutation of Leave: a permit comes back for everything dropped.
LeaveTwice(r, how) ==
    /\ pc' = [q \in Requests |->
                IF q = r THEN how
                ELSE IF q \in Below(r) \cap InBeing THEN CutOff(q)
                ELSE pc[q]]
    /\ permits' = permits + Cardinality((Below(r) \cup {r}) \cap InBeing)

\* r ends: its permit comes back, and so do those of the requests below it that
\* are dropped with it; the detached ones keep theirs and go on.
Leave(r, how) ==
    /\ pc' = [q \in Requests |->
                IF q = r THEN how
                ELSE IF q \in Below(r) \cap InBeing THEN CutOff(q)
                ELSE pc[q]]
    /\ permits' = permits + Cardinality((Below(r) \cup {r}) \cap Executing)

\* The service returns, with the calls it waits for returned: its own, not
\* those of a tee branch.
Finish(r) ==
    /\ pc[r] = "executing"
    /\ (IF r \in Guests THEN Called(r) ELSE Called(r) \ detached) \cap InBeing = {}
    /\ Leave(r, IF r \in Tees THEN "left" ELSE "over")
    /\ UNCHANGED <<now, breaches, openUntil, above, detached, spell, atTrip, sinceClear>>

\* A guest begins to stream: the response is out, the handler runs on.
BeginStream(r) ==
    /\ r \in Guests
    /\ pc[r] = "executing"
    /\ Leave(r, CutOff(r))
    /\ UNCHANGED <<now, breaches, openUntil, above, detached, spell, atTrip, sinceClear>>

\* invoke: the wall clock elapsed, or the service broke another limit.
Breach(r) ==
    /\ pc[r] = "executing"
    /\ Leave(r, CutOff(r))
    /\ RecordBreach(Cardinality(InBeing \ (Below(r) \cup {r})))
    /\ UNCHANGED <<now, above, detached>>

\* The listener lets the connection go.
Drop(r) ==
    /\ pc[r] \in {"checked", "executing"}
    /\ above[r] = {}
    /\ Leave(r, CutOff(r))
    /\ UNCHANGED <<now, breaches, openUntil, above, detached, spell, atTrip, sinceClear>>

\* A socket breaks a per-frame limit: it is closed and the breach recorded.
SocketBreach(r) ==
    /\ pc[r] = "socket"
    /\ pc' = [pc EXCEPT ![r] = "over"]
    /\ RecordBreach(Cardinality(InBeing \ {r}))
    /\ UNCHANGED <<now, permits, above, detached>>

SocketClose(r) ==
    /\ pc[r] = "socket"
    /\ pc' = [pc EXCEPT ![r] = "over"]
    /\ UNCHANGED <<now, breaches, openUntil, permits, above, detached, spell, atTrip,
                   sinceClear>>

Tick ==
    /\ now < MaxTime
    /\ now' = now + 1
    /\ UNCHANGED <<breaches, openUntil, permits, pc, above, detached, spell, atTrip,
                   sinceClear>>

Next ==
    \/ \E r \in Requests :
         \/ Arrive(r) \/ AnswerEarly(r) \/ Admit(r) \/ Upgrade(r) \/ Finish(r) \/ Breach(r)
         \/ Drop(r) \/ BeginStream(r) \/ UpgradeRefused(r) \/ SocketBreach(r) \/ SocketClose(r)
         \/ \E q \in Requests : Call(r, q) \/ HostRequest(r, q) \/ TeeStep(r, q)
    \/ Tick

Spec == Init /\ [][Next]_vars

\* The executor polls what is ready, and a service whose calls have returned
\* returns.  The wall clock is not relied on.
Fairness ==
    \A r \in Requests : WF_vars(Admit(r)) /\ WF_vars(Finish(r))

FairSpec == Spec /\ Fairness

(***************************************************************************)
(* Properties.                                                             *)
(***************************************************************************)
\* Every variable keeps its type; there is no permit beyond the cap.
TypeOK ==
    /\ now \in Nat
    /\ breaches \in Seq(Nat)
    /\ openUntil \in Nat
    /\ permits \in 0 .. Cap
    /\ pc \in [Requests -> {"idle", "checked", "executing", "socket", "left", "over"}]
    /\ above \in [Requests -> SUBSET Requests]
    /\ detached \subseteq Requests
    /\ spell \in Nat /\ atTrip \in Nat /\ sinceClear \in Nat

\* No permit is lost or made, however requests nest, time out or are dropped,
\* and whichever of their calls go on without them: the free permits and the
\* executing requests always add up to the cap.
PermitsConserved == permits + Cardinality(Executing) = Cap

\* While the breaker is open only what was in being when it tripped can breach
\* again: the tripped tenant starts nothing, from outside, from inside or from
\* what a request that is over has left running, so the open spell cannot be
\* prolonged without end.
OpenSpellIsBounded == Open => spell + Cardinality(InBeing) <= atTrip

\* The breaker trips only on Threshold breaches since it was last cleared, and
\* all of them within the window.
TripIsDeserved ==
    [][openUntil' > now /\ ~Open
         => /\ sinceClear' >= Threshold
            /\ \A i \in 1 .. Len(breaches') : now - breaches'[i] <= Window]_vars

\* A request past the breaker ends, without its wall clock: at the cap a call
\* from inside fails at once instead of waiting for the permit its own caller
\* holds.
AdmittedEnds ==
    \A r \in Requests :
        pc[r] \in {"checked", "executing"} ~> pc[r] \notin {"checked", "executing"}
=============================================================================
