---------------------------- MODULE Idempotency ----------------------------
(***************************************************************************)
(* The in-memory idempotency store (rs2-core/src/idempotency.rs) and the   *)
(* way Runtime::dispatch brackets a service invocation with it             *)
(* (rs2-core/src/runtime.rs): begin, invoke, then complete or abandon.     *)
(*                                                                         *)
(* A slot is a (scope, key) pair.  A request is one dispatch that carries  *)
(* an Idempotency-Key.  A stored response is named by the request whose    *)
(* execution produced it, which is all that replaying it must preserve.    *)
(* Every store call holds the map's mutex and never awaits, so each is one *)
(* step; the awaits of dispatch (the service call, reading the response    *)
(* body) separate the steps of a request.                                  *)
(***************************************************************************)
EXTENDS Naturals, FiniteSetsExt

CONSTANTS
    Requests,     \* dispatches that carry a key
    Slots,        \* (scope, key) pairs
    Payloads,     \* request bodies, told apart by their SHA-256
    NoHash,       \* payload_hash of a streamed body: None
    NoRequest,    \* no stored response
    NoSlot,       \* the slot of a request that has not arrived
    Droppable,    \* requests whose future may be dropped before it resolves
    Window,       \* replay window
    MaxEntries,   \* max_entries
    SweepEvery,   \* SWEEP_EVERY
    MaxTime       \* bound on the clock

ASSUME ConstantsAssumption ==
    /\ Window \in Nat
    /\ MaxTime \in Nat
    /\ MaxEntries \in Nat
    /\ SweepEvery \in Nat \ {0}
    /\ Droppable \subseteq Requests
    /\ NoHash \notin Payloads
    /\ NoRequest \notin Requests
    /\ NoSlot \notin Slots

VARIABLES
    entries,      \* the map of the store, total over Slots
    begins,       \* number of begins, modulo SweepEvery
    now,          \* the monotonic clock
    pc,           \* where each request is
    slot,         \* the slot a request addresses
    hash,         \* what payload_hash computed for it
    outcome,      \* what dispatch answered
    answer,       \* the execution whose response it was answered with
    answeredAt,   \* when it was answered
    evicted       \* requests whose stored response the cap evicted

vars == <<entries, begins, now, pc, slot, hash, outcome, answer,
          answeredAt, evicted>>

Hashes == Payloads \cup {NoHash}

Entry == [state : {"absent", "inFlight", "done"}, hash : Hashes,
          resp : Requests \cup {NoRequest}, at : Nat]

Absent == [state |-> "absent", hash |-> NoHash, resp |-> NoRequest, at |-> 0]

Running(r) == pc[r] \in {"executing", "capturing"}

(***************************************************************************)
(* The store.                                                              *)
(***************************************************************************)
Live(es) == {s \in Slots : es[s].state # "absent"}

Done(es) == {s \in Slots : es[s].state = "done"}

\* Mutation of Expired: an entry outlives the window by one.
ExpiredLate(e) == e.state = "done" /\ now - e.at > Window + 1

\* Mutation of Expired: an entry expires with the window's last instant.
ExpiredEarly(e) == e.state = "done" /\ now - e.at >= Window

Expired(e) == e.state = "done" /\ now - e.at > Window

Drop(es, victims) == [s \in Slots |-> IF s \in victims THEN Absent ELSE es[s]]

\* Mutation of EvictionSets: the batch is taken from every entry.
EvictionSetsAnyState(es) ==
    IF Cardinality(Live(es)) < MaxEntries
    THEN {{}}
    ELSE {v \in SUBSET Live(es) :
            Cardinality(v) = Min({MaxEntries \div 8 + 1, Cardinality(Live(es))})}

\* Mutation of EvictionSets: the batch rounds down to an eighth of the cap.
EvictionSetsNoPlusOne(es) ==
    IF Cardinality(Live(es)) < MaxEntries
    THEN {{}}
    ELSE {v \in SUBSET Done(es) :
            Cardinality(v) = Min({MaxEntries \div 8, Cardinality(Done(es))})}

\* The batches sweep may evict once expired entries are gone: nothing below
\* the cap, else the oldest completed entries (ties fall in hash-map order).
EvictionSets(es) ==
    IF Cardinality(Live(es)) < MaxEntries
    THEN {{}}
    ELSE {v \in SUBSET Done(es) :
            /\ Cardinality(v) = Min({MaxEntries \div 8 + 1, Cardinality(Done(es))})
            /\ \A s \in v, t \in Done(es) \ v : es[s].at <= es[t].at}

\* begin sweeps on every SWEEP_EVERY-th call and whenever the map is at its cap.
SweepDue == begins = 0 \/ Cardinality(Live(entries)) >= MaxEntries

\* The entries with every expired one dropped.
Unexpired(es) == Drop(es, {s \in Slots : Expired(es[s])})

\* The victims begin's sweep takes from the map, beyond the expired entries.
Victims == IF SweepDue THEN EvictionSets(Unexpired(entries)) ELSE {{}}

\* The map as begin sees it at the lookup of slot s: swept if a sweep is due,
\* and s itself dropped when expired.
Looked(s, victims) ==
    LET swept == IF SweepDue THEN Drop(Unexpired(entries), victims) ELSE entries
    IN  IF Expired(swept[s]) THEN Drop(swept, {s}) ELSE swept

\* Hashes are compared only when both sides have one.
Mismatch(stored, incoming) ==
    stored # NoHash /\ incoming # NoHash /\ stored # incoming

\* Mutation of Completed: the entry is backdated by the window.
CompletedBackdated(es, s, r) ==
    IF es[s].state = "absent" THEN es
    ELSE [es EXCEPT ![s] = [state |-> "done", hash |-> @.hash, resp |-> r,
                            at |-> now - Window]]

\* complete: an entry that is still there turns Done, keeping its hash.
Completed(es, s, r) ==
    IF es[s].state = "absent" THEN es
    ELSE [es EXCEPT ![s] = [state |-> "done", hash |-> @.hash, resp |-> r,
                            at |-> now]]

\* abandon: the entry is removed, whatever it is.
Abandoned(es, s) == Drop(es, {s})

(***************************************************************************)
(* The requests.                                                           *)
(***************************************************************************)
Init ==
    /\ entries = [s \in Slots |-> Absent]
    /\ begins = 0
    /\ now = 0
    /\ pc = [r \in Requests |-> "idle"]
    /\ slot = [r \in Requests |-> NoSlot]
    /\ hash = [r \in Requests |-> NoHash]
    /\ outcome = [r \in Requests |-> "none"]
    /\ answer = [r \in Requests |-> NoRequest]
    /\ answeredAt = [r \in Requests |-> 0]
    /\ evicted = {}

\* What every answer of dispatch records.
Answer(r, what, whose) ==
    /\ pc' = [pc EXCEPT ![r] = "answered"]
    /\ outcome' = [outcome EXCEPT ![r] = what]
    /\ answer' = [answer EXCEPT ![r] = whose]
    /\ answeredAt' = [answeredAt EXCEPT ![r] = now]

\* The four results of begin for slot s and hash h on the looked-up map.

\* Mutation of Fresh: the payload hash is not kept.
FreshUnhashed(r, s, h, es) ==
    /\ es[s].state = "absent"
    /\ entries' = [es EXCEPT ![s] = [state |-> "inFlight", hash |-> NoHash,
                                     resp |-> NoRequest, at |-> 0]]
    /\ pc' = [pc EXCEPT ![r] = "executing"]
    /\ UNCHANGED <<outcome, answer, answeredAt>>

Fresh(r, s, h, es) ==
    /\ es[s].state = "absent"
    /\ entries' = [es EXCEPT ![s] = [state |-> "inFlight", hash |-> h,
                                     resp |-> NoRequest, at |-> 0]]
    /\ pc' = [pc EXCEPT ![r] = "executing"]
    /\ UNCHANGED <<outcome, answer, answeredAt>>

PayloadMismatch(r, s, h, es) ==
    /\ es[s].state # "absent"
    /\ Mismatch(es[s].hash, h)
    /\ entries' = es
    /\ Answer(r, "mismatch", NoRequest)

InFlight(r, s, h, es) ==
    /\ es[s].state = "inFlight"
    /\ ~Mismatch(es[s].hash, h)
    /\ entries' = es
    /\ Answer(r, "conflict", NoRequest)

Replay(r, s, h, es) ==
    /\ es[s].state = "done"
    /\ ~Mismatch(es[s].hash, h)
    /\ entries' = es
    /\ Answer(r, "replay", es[s].resp)

\* Request r arrives for slot s with a body whose payload_hash is h.
Begin(r, s, h) ==
    /\ pc[r] = "idle"
    /\ begins' = (begins + 1) % SweepEvery
    /\ slot' = [slot EXCEPT ![r] = s]
    /\ hash' = [hash EXCEPT ![r] = h]
    /\ \E victims \in Victims :
         /\ evicted' = evicted \cup {entries[v].resp : v \in victims}
         /\ \/ Fresh(r, s, h, Looked(s, victims))
            \/ PayloadMismatch(r, s, h, Looked(s, victims))
            \/ InFlight(r, s, h, Looked(s, victims))
            \/ Replay(r, s, h, Looked(s, victims))
    /\ UNCHANGED now

\* The service returns a response, whose body capture_response then reads.
InvokeOk(r) ==
    /\ pc[r] = "executing"
    /\ pc' = [pc EXCEPT ![r] = "capturing"]
    /\ UNCHANGED <<entries, begins, now, slot, hash, outcome, answer,
                   answeredAt, evicted>>

\* Mutation of InvokeErr: the error path forgets to abandon.
InvokeErrKeeps(r) ==
    /\ pc[r] = "executing"
    /\ Answer(r, "error", NoRequest)
    /\ UNCHANGED <<entries, begins, now, slot, hash, evicted>>

\* The service fails, or outlives its wall clock: the slot is released.
InvokeErr(r) ==
    /\ pc[r] = "executing"
    /\ entries' = Abandoned(entries, slot[r])
    /\ Answer(r, "error", NoRequest)
    /\ UNCHANGED <<begins, now, slot, hash, evicted>>

\* The response was captured: it is stored and returned.
CaptureOk(r) ==
    /\ pc[r] = "capturing"
    /\ entries' = Completed(entries, slot[r], r)
    /\ Answer(r, "stored", r)
    /\ UNCHANGED <<begins, now, slot, hash, evicted>>

\* Its body is over the cap or unreadable: returned, the slot released.
CaptureTooLarge(r) ==
    /\ pc[r] = "capturing"
    /\ entries' = Abandoned(entries, slot[r])
    /\ Answer(r, "unstored", r)
    /\ UNCHANGED <<begins, now, slot, hash, evicted>>

\* The future of the dispatch is dropped at an await: an enclosing wall clock
\* elapsed, or the listener let the connection go.  Nothing runs for it.
Cancel(r) ==
    /\ r \in Droppable
    /\ Running(r)
    /\ pc' = [pc EXCEPT ![r] = "cancelled"]
    /\ UNCHANGED <<entries, begins, now, slot, hash, outcome, answer,
                   answeredAt, evicted>>

Tick ==
    /\ now < MaxTime
    /\ now' = now + 1
    /\ UNCHANGED <<entries, begins, pc, slot, hash, outcome, answer,
                   answeredAt, evicted>>

Next ==
    \/ \E r \in Requests :
         \/ \E s \in Slots, h \in Hashes : Begin(r, s, h)
         \/ InvokeOk(r)
         \/ InvokeErr(r)
         \/ CaptureOk(r)
         \/ CaptureTooLarge(r)
         \/ Cancel(r)
    \/ Tick

Spec == Init /\ [][Next]_vars

(***************************************************************************)
(* Properties.                                                             *)
(***************************************************************************)
\* Every variable keeps its type.
TypeOK ==
    /\ entries \in [Slots -> Entry]
    /\ begins \in 0 .. (SweepEvery - 1)
    /\ now \in Nat
    /\ pc \in [Requests -> {"idle", "executing", "capturing", "answered", "cancelled"}]
    /\ slot \in [Requests -> Slots \cup {NoSlot}]
    /\ hash \in [Requests -> Hashes]
    /\ outcome \in [Requests -> {"none", "stored", "unstored", "error", "conflict",
                                 "mismatch", "replay"}]
    /\ answer \in [Requests -> Requests \cup {NoRequest}]
    /\ answeredAt \in [Requests -> Nat]
    /\ evicted \in SUBSET (Requests \cup {NoRequest})

\* No two requests execute under the same key at the same time: what the 409
\* of a duplicate in flight is there for.
SingleExecution ==
    \A r, q \in Requests :
        Running(r) /\ Running(q) /\ slot[r] = slot[q] => r = q

\* The entry of a running request stays in flight, with its payload hash, until
\* that request ends: neither the sweep, the cap, nor another request's
\* complete or abandon touches it, so its own complete never misses.
InFlightKept ==
    \A r \in Requests :
        Running(r) => /\ entries[slot[r]].state = "inFlight"
                      /\ entries[slot[r]].hash = hash[r]

\* A replayed response is the stored response of an execution under the same
\* key, no older than the window, of a request whose hash did not differ.
ReplayIsOriginal ==
    \A r \in Requests : outcome[r] = "replay" =>
        \E q \in Requests :
            /\ answer[r] = q
            /\ outcome[q] = "stored"
            /\ slot[q] = slot[r]
            /\ ~(hash[q] # NoHash /\ hash[r] # NoHash /\ hash[q] # hash[r])
            /\ answeredAt[r] - answeredAt[q] <= Window

\* A key executes anew after a stored response only when that response has
\* outlived the window or the cap evicted it.
ReExecutionOnlyAfterLoss ==
    [][\A r, q \in Requests :
          /\ pc[r] = "idle" /\ pc'[r] = "executing"
          /\ outcome[q] = "stored" /\ slot[q] = slot'[r]
          => now - answeredAt[q] > Window \/ q \in evicted']_vars

\* At the cap, a begin that finds a completed entry to evict does not grow the
\* map, so stored responses cannot push it past the cap.
CapHolds ==
    [][Cardinality(Live(entries)) >= MaxEntries /\ Done(entries) # {}
         => Cardinality(Live(entries')) <= Cardinality(Live(entries))]_vars

\* A key is in flight only for a request that is executing, whose invoke its
\* wall clock ends, or for one whose future was dropped: no error path, no
\* uncaptured response and no eviction leaves a key behind that answers 409
\* to every retry.
InFlightIsOwned ==
    \A s \in Slots : entries[s].state = "inFlight" =>
        \E q \in Requests : slot[q] = s /\ (Running(q) \/ pc[q] = "cancelled")
=============================================================================
