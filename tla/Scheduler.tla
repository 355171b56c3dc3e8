------------------------------ MODULE Scheduler ------------------------------
(***************************************************************************)
(* The scheduler task of a node (rs2-core/src/runtime.rs) and the store    *)
(* the nodes claim occurrences in (rs2-core/src/scheduler.rs).             *)
(*                                                                         *)
(* One scheduled mount is modelled: entries of different mounts share only *)
(* the loop, whose delays are the lag below.  Wall and monotonic clock are *)
(* one clock.  A cron schedule is one whose minutes are Period apart.  The  *)
(* nodes share a store, or there is one node, and Init chooses.             *)
(***************************************************************************)
EXTENDS Integers, FiniteSets

CONSTANTS
    Nodes,
    Period,       \* minutes between cron matches, or the interval
    CronTtl,      \* claim_ttl of a cron schedule: 2 minutes
    MaxLag,       \* how far behind an occurrence a node may check or claim it
    MaxEdits,     \* bound on config edits
    MaxRestarts,  \* bound on restarts
    MaxTime       \* bound on the clock

ASSUME SchedulerAssumption ==
    /\ IsFiniteSet(Nodes)
    /\ Period \in Nat \ {0} /\ CronTtl \in Nat /\ MaxLag \in Nat
    /\ MaxEdits \in Nat /\ MaxRestarts \in Nat /\ MaxTime \in Nat

Occurrences == {t \in 0 .. MaxTime : t % Period = 0}

Never == -1

VARIABLES
    cron,         \* TRUE: the mount has a cron schedule; FALSE: an interval
    up,           \* the nodes there are
    now,
    version,      \* of the stored config
    scheduled,    \* the stored config gives the mount its schedule
    claims,       \* per occurrence, when the claim expires
    seen,         \* per node, config_versions: the version armed, 0 before the first
    cursor,       \* per node, last_fired of an interval or next_due of a cron
    armedAt,      \* per node, when the entry was made
    pc,           \* per node, where the loop is
    wall,         \* per node, the now and now_wall of its iteration
    due,          \* per node, the occurrence it is claiming
    inFlight,     \* per node, the mount's in-flight marker
    running,      \* per node, the fires that run
    fires,        \* per occurrence, how often it was fired
    excused,      \* occurrences of a cron schedule a node passes over because its
                  \* previous fire runs, the store fails or its loop is late
    restarts

fixed == <<cron, up>>

vars == <<fixed, now, version, scheduled, claims, seen, cursor, armedAt, pc, wall, due,
          inFlight, running, fires, excused, restarts>>

\* interval_bucket_ms
Bucket(t) == t - (t % Period)

\* next_occurrence_after: the first match strictly later.
NextAfter(t) == Bucket(t) + Period

\* claim_ttl: twice the interval, at least a minute, or two minutes.
Ttl == IF cron THEN CronTtl ELSE 2 * Period

\* Several nodes are given one store; a node on its own keeps the in-memory
\* one, which a restart empties.
Init ==
    /\ cron \in BOOLEAN
    /\ up \in {{n} : n \in Nodes} \cup {Nodes}
    /\ now = 1
    /\ version = 1
    /\ scheduled = TRUE
    /\ claims = [o \in Occurrences |-> Never]
    /\ seen = [n \in Nodes |-> 0]
    /\ cursor = [n \in Nodes |-> Never]
    /\ armedAt = [n \in Nodes |-> Never]
    /\ pc = [n \in Nodes |-> "sleep"]
    /\ wall = [n \in Nodes |-> Never]
    /\ due = [n \in Nodes |-> Never]
    /\ inFlight = [n \in Nodes |-> FALSE]
    /\ running = [n \in Nodes |-> 0]
    /\ fires = [o \in Occurrences |-> 0]
    /\ excused = {}
    /\ restarts = 0

(***************************************************************************)
(* The loop of a node.                                                     *)
(***************************************************************************)
\* reconcile_schedules: a version not seen yet drops the entry and, if there
\* still is a schedule, makes it anew.
Reconcile(n) ==
    /\ pc[n] = "sleep"
    /\ seen[n] # version
    /\ seen' = [seen EXCEPT ![n] = version]
    /\ cursor' = [cursor EXCEPT ![n] = CASE ~scheduled -> Never
                                         [] scheduled /\ cron -> NextAfter(now)
                                         [] OTHER -> now]
    /\ armedAt' = [armedAt EXCEPT ![n] = IF scheduled THEN now ELSE Never]
    /\ UNCHANGED <<fixed, now, version, scheduled, claims, pc, wall, due, inFlight,
                   running, fires, excused, restarts>>

\* reconcile_schedules: the tenant is not among the watched ones, for one
\* because the loader could not list them; its entry and version are dropped.
Unwatch(n) ==
    /\ pc[n] = "sleep"
    /\ seen[n] # 0
    /\ seen' = [seen EXCEPT ![n] = 0]
    /\ cursor' = [cursor EXCEPT ![n] = Never]
    /\ armedAt' = [armedAt EXCEPT ![n] = Never]
    /\ UNCHANGED <<fixed, now, version, scheduled, claims, pc, wall, due, inFlight,
                   running, fires, excused, restarts>>

\* The iteration goes on to its due checks, with the time as it is now.
Wake(n) ==
    /\ pc[n] = "sleep"
    /\ pc' = [pc EXCEPT ![n] = "due"]
    /\ wall' = [wall EXCEPT ![n] = now]
    /\ UNCHANGED <<fixed, now, version, scheduled, claims, seen, cursor, armedAt,
                   due, inFlight, running, fires, excused, restarts>>

IsDue(n) ==
    /\ cursor[n] # Never
    /\ IF cron THEN wall[n] >= cursor[n] ELSE wall[n] - cursor[n] >= Period

\* Mutation of DueOccurrence: an occurrence is named by the time it is seen.
DueOccurrenceRaw(n) == wall[n]

\* due_occurrence: the name every node gives the occurrence.
DueOccurrence(n) == IF cron THEN cursor[n] ELSE Bucket(wall[n])

\* due_occurrence: where the cursor goes before anything else can fail.
CursorAfter(n) == IF cron THEN NextAfter(wall[n]) ELSE wall[n]

NotDue(n) ==
    /\ pc[n] = "due"
    /\ ~IsDue(n)
    /\ pc' = [pc EXCEPT ![n] = "sleep"]
    /\ wall' = [wall EXCEPT ![n] = Never]
    /\ UNCHANGED <<fixed, now, version, scheduled, claims, seen, cursor, armedAt,
                   due, inFlight, running, fires, excused, restarts>>

\* Mutation of Overlap: the in-flight marker is not looked at.
OverlapNever(n) == FALSE

Overlap(n) == inFlight[n]

\* A loop that comes a period late or more passes over the occurrences after
\* the due one.
Jumped(n) == {o \in Occurrences : cron /\ cursor[n] < o /\ o <= wall[n]}

Excuse(n, occs) == excused' = excused \cup {<<n, o>> : o \in IF cron THEN occs ELSE {}}

\* The overlap guard: the occurrence passes while the previous fire runs.
Skip(n) ==
    /\ pc[n] = "due"
    /\ IsDue(n)
    /\ Overlap(n)
    /\ cursor' = [cursor EXCEPT ![n] = CursorAfter(n)]
    /\ Excuse(n, Jumped(n) \cup IF running[n] > 0 THEN {DueOccurrence(n)} ELSE {})
    /\ pc' = [pc EXCEPT ![n] = "sleep"]
    /\ wall' = [wall EXCEPT ![n] = Never]
    /\ UNCHANGED <<fixed, now, version, scheduled, claims, seen, armedAt, due,
                   inFlight, running, fires, restarts>>

Mark(n) ==
    /\ pc[n] = "due"
    /\ IsDue(n)
    /\ ~Overlap(n)
    /\ cursor' = [cursor EXCEPT ![n] = CursorAfter(n)]
    /\ due' = [due EXCEPT ![n] = DueOccurrence(n)]
    /\ inFlight' = [inFlight EXCEPT ![n] = TRUE]
    /\ pc' = [pc EXCEPT ![n] = "claim"]
    /\ Excuse(n, Jumped(n))
    /\ UNCHANGED <<fixed, now, version, scheduled, claims, seen, armedAt, wall,
                   running, fires, restarts>>

\* Mutation of Claimed: a claim that was made is not looked at.
ClaimedByNone(n) == FALSE

\* claim: expired claims go first.
Claimed(n) == claims[due[n]] > now

\* The claim is won: the fire is spawned.
Claim(n) ==
    /\ pc[n] = "claim"
    /\ ~Claimed(n)
    /\ claims' = [claims EXCEPT ![due[n]] = now + Ttl]
    /\ fires' = [fires EXCEPT ![due[n]] = @ + 1]
    /\ running' = [running EXCEPT ![n] = @ + 1]
    /\ due' = [due EXCEPT ![n] = Never]
    /\ pc' = [pc EXCEPT ![n] = "sleep"]
    /\ wall' = [wall EXCEPT ![n] = Never]
    /\ UNCHANGED <<fixed, now, version, scheduled, seen, cursor, armedAt, inFlight,
                   excused, restarts>>

\* Mutation of Lose: the in-flight marker stays behind.
LoseMarked(n) ==
    /\ pc[n] = "claim"
    /\ Excuse(n, IF Claimed(n) THEN {} ELSE {due[n]})
    /\ due' = [due EXCEPT ![n] = Never]
    /\ pc' = [pc EXCEPT ![n] = "sleep"]
    /\ wall' = [wall EXCEPT ![n] = Never]
    /\ UNCHANGED <<fixed, now, version, scheduled, claims, seen, cursor, armedAt,
                   inFlight, running, fires, restarts>>

\* The claim is another's, or the store fails.
Lose(n) ==
    /\ pc[n] = "claim"
    /\ Excuse(n, IF Claimed(n) THEN {} ELSE {due[n]})
    /\ inFlight' = [inFlight EXCEPT ![n] = FALSE]
    /\ due' = [due EXCEPT ![n] = Never]
    /\ pc' = [pc EXCEPT ![n] = "sleep"]
    /\ wall' = [wall EXCEPT ![n] = Never]
    /\ UNCHANGED <<fixed, now, version, scheduled, claims, seen, cursor, armedAt,
                   running, fires, restarts>>

\* The fire ends, or panics: InFlightGuard is dropped.
FireEnd(n) ==
    /\ running[n] > 0
    /\ running' = [running EXCEPT ![n] = @ - 1]
    /\ inFlight' = [inFlight EXCEPT ![n] = FALSE]
    /\ UNCHANGED <<fixed, now, version, scheduled, claims, seen, cursor, armedAt,
                   pc, wall, due, fires, excused, restarts>>

(***************************************************************************)
(* Around the loop.                                                        *)
(***************************************************************************)
\* A config is stored: it keeps, drops or adds the schedule.
Edit ==
    /\ version <= MaxEdits
    /\ version' = version + 1
    /\ scheduled' \in BOOLEAN
    /\ UNCHANGED <<fixed, now, claims, seen, cursor, armedAt, pc, wall, due,
                   inFlight, running, fires, excused, restarts>>

\* The node restarts; a store of its own goes with it.
Restart(n) ==
    /\ restarts < MaxRestarts
    /\ restarts' = restarts + 1
    /\ seen' = [seen EXCEPT ![n] = 0]
    /\ cursor' = [cursor EXCEPT ![n] = Never]
    /\ armedAt' = [armedAt EXCEPT ![n] = Never]
    /\ pc' = [pc EXCEPT ![n] = "sleep"]
    /\ wall' = [wall EXCEPT ![n] = Never]
    /\ due' = [due EXCEPT ![n] = Never]
    /\ inFlight' = [inFlight EXCEPT ![n] = FALSE]
    /\ running' = [running EXCEPT ![n] = 0]
    /\ claims' = IF up = {n} THEN [o \in Occurrences |-> Never] ELSE claims
    /\ UNCHANGED <<fixed, now, version, scheduled, fires, excused>>

\* The time since when a node has something to check or to claim.
Pending(n) ==
    (IF pc[n] = "claim" THEN {IF cron THEN due[n] ELSE cursor[n]} ELSE {})
    \cup (IF cursor[n] = Never THEN {}
          ELSE {IF cron THEN cursor[n] ELSE cursor[n] + Period})

\* Time passes, and no node falls further behind than MaxLag.
Tick ==
    /\ now < MaxTime
    /\ \A n \in up : \A t \in Pending(n) : now + 1 - t <= MaxLag
    /\ now' = now + 1
    /\ UNCHANGED <<fixed, version, scheduled, claims, seen, cursor, armedAt, pc,
                   wall, due, inFlight, running, fires, excused, restarts>>

Next ==
    \/ \E n \in up :
         \/ Reconcile(n) \/ Unwatch(n) \/ Wake(n) \/ NotDue(n) \/ Skip(n) \/ Mark(n)
         \/ Claim(n) \/ Lose(n) \/ FireEnd(n) \/ Restart(n)
    \/ Edit
    \/ Tick

Spec == Init /\ [][Next]_vars

(***************************************************************************)
(* Properties.                                                             *)
(***************************************************************************)
\* Every variable keeps its type.
TypeOK ==
    /\ cron \in BOOLEAN /\ up \subseteq Nodes
    /\ now \in Nat
    /\ version \in Nat
    /\ claims \in [Occurrences -> Int]
    /\ seen \in [Nodes -> Nat]
    /\ cursor \in [Nodes -> Int] /\ armedAt \in [Nodes -> Int]
    /\ pc \in [Nodes -> {"sleep", "due", "claim"}]
    /\ scheduled \in BOOLEAN
    /\ wall \in [Nodes -> Int]
    /\ due \in [Nodes -> Occurrences \cup {Never}]
    /\ inFlight \in [Nodes -> BOOLEAN]
    /\ running \in [Nodes -> Nat]
    /\ fires \in [Occurrences -> Nat]
    /\ excused \subseteq Nodes \X Occurrences
    /\ restarts \in Nat

\* ScheduleStore: however the nodes' loops interleave, are edited under or
\* restart, an occurrence is fired at most once.
FiredOnce == \A o \in Occurrences : fires[o] <= 1

\* The overlap guard: a node never runs two fires of the mount at once.
NoOverlap == \A n \in Nodes : running[n] <= 1

\* The cursor moves before the overlap guard and the claim can fail, and what it
\* passes is never tried again.  An occurrence of a cron schedule that a standing
\* entry has passed was nevertheless fired, by this node or another, unless this
\* node itself had a reason for it outside the loop: its previous fire was really
\* running, the store failed, or the loop came after the next occurrence too.
NothingLost ==
    cron => \A n \in Nodes : \A o \in Occurrences :
              /\ armedAt[n] # Never
              /\ armedAt[n] < o /\ o < cursor[n]
              /\ due[n] # o
              => fires[o] > 0 \/ <<n, o>> \in excused
=============================================================================
