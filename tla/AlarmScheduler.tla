---------------------------- MODULE AlarmScheduler ----------------------------
(***************************************************************************)
(* The scheduler of a tenant's Durable Object (rs2-worker/src/             *)
(* tenant-object.ts and runtime/scheduler.ts): one alarm, armed at the     *)
(* earliest due time of all scheduled mounts, whose handler derives what   *)
(* is due from the clock alone and claims it in the schedule_claims table. *)
(*                                                                         *)
(* Time is in minutes.  A mount has a cron schedule, whose minutes are its *)
(* period apart, or an interval.  The platform is external: it delivers an *)
(* alarm at or after its time and again when the handler did not finish,   *)
(* it may drop an alarm whose retries are exhausted, and it may evict the  *)
(* object, which loses its memory and keeps its storage and alarm.  While  *)
(* the object awaits its storage the platform delivers no other event to   *)
(* it, so alarm() up to its wait for the fires, a config write up to its   *)
(* alarm, and deleteAll are not interleaved with one another; an eviction  *)
(* can come between any two of their writes.                               *)
(***************************************************************************)
EXTENDS Integers, FiniteSets, FiniteSetsExt

CONSTANTS
    CronMounts, IntervalMounts,
    Period,       \* the period of each mount's schedule
    Ttl,          \* claimTtlMs of each mount
    Grace,        \* CRON_GRACE_MS
    MaxFaults,    \* bound on evictions and lost alarms
    MaxTime       \* bound on the clock

Mounts == CronMounts \cup IntervalMounts

ASSUME AlarmAssumption ==
    /\ Period \in [Mounts -> Nat \ {0}]
    /\ Ttl \in [Mounts -> Nat]
    /\ Grace \in Nat /\ MaxFaults \in Nat /\ MaxTime \in Nat

Minutes == 0 .. MaxTime

Never == -1

VARIABLES
    now,
    scheduled,    \* the mounts of the stored config that carry a schedule
    alarm,        \* when the alarm is due, Never when none is set
    handler,      \* where alarm() is: none, claimed (not re-armed yet), waiting
    nowMs,        \* the time the handler works with, until it has re-armed
    claims,       \* schedule_claims: expires_ms per mount and occurrence
    inFlight,     \* schedInFlight
    known,        \* tenantName, in memory
    named,        \* tenant.name, in storage
    write,        \* what a config write or deleteAll has left to do
    fires,        \* how often each occurrence of each mount was fired
    gap,          \* the fault that has left the schedules without an alarm
    faults

name == <<known, named>>

vars == <<now, scheduled, alarm, handler, nowMs, claims, inFlight, name, write,
          fires, gap, faults>>

Matches(m, t) == t % Period[m] = 0

\* Mutation of NextDue: the occurrence after the next one.
NextDueSkips(m, t) == t - (t % Period[m]) + 2 * Period[m]

\* nextDueMs
NextDue(m, t) == t - (t % Period[m]) + Period[m]

\* earliestNextDueMs, of a config that has a schedule.
EarliestNextDue(ms, t) == Min({NextDue(m, t) : m \in ms})

\* A new tenant, or one configured before names were persisted.
Init ==
    /\ now = 1
    /\ scheduled \in {{}, Mounts}
    /\ alarm = IF scheduled = {} THEN Never ELSE EarliestNextDue(scheduled, now)
    /\ handler = "none"
    /\ nowMs = Never
    /\ claims = [m \in Mounts |-> [o \in Minutes |-> Never]]
    /\ inFlight = {}
    /\ known = FALSE
    /\ named = FALSE
    /\ write = "none"
    /\ fires = [m \in Mounts |-> [o \in Minutes |-> 0]]
    /\ gap = "none"
    /\ faults = 0

\* dueOccurrenceMs: the current bucket of an interval, the latest matching
\* minute of a cron within the grace window.
Due(m) ==
    IF m \in IntervalMounts THEN {now - (now % Period[m])}
    ELSE LET past == {t \in Minutes : now - Grace <= t /\ t <= now /\ Matches(m, t)}
         IN  IF past = {} THEN {} ELSE {Max(past)}

\* Mutation of Claimed: a claim counts for nothing.
ClaimedNever(m, o) == FALSE

\* claimOccurrence deletes the expired claims, then inserts or ignores.
Claimed(m, o) == claims[m][o] # Never /\ claims[m][o] >= now

\* The mounts the handler fires, each with its occurrence.
Firing == {<<m, o>> \in scheduled \X Minutes :
              o \in Due(m) /\ m \notin inFlight /\ ~Claimed(m, o)}

\* alarm() up to its setAlarm: claim and start what is due.
Alarm ==
    /\ handler = "none" /\ write = "none"
    /\ alarm # Never
    /\ alarm <= now
    /\ known \/ named
    /\ claims' = [m \in Mounts |-> [o \in Minutes |->
                    IF <<m, o>> \in Firing THEN now + Ttl[m] ELSE claims[m][o]]]
    /\ fires' = [m \in Mounts |-> [o \in Minutes |->
                    IF <<m, o>> \in Firing THEN fires[m][o] + 1 ELSE fires[m][o]]]
    /\ inFlight' = inFlight \cup {f[1] : f \in Firing}
    /\ known' = (known \/ Firing # {})
    /\ handler' = "claimed"
    /\ nowMs' = now
    /\ alarm' = Never
    /\ UNCHANGED <<now, scheduled, named, write, gap, faults>>

\* alarm() of an object that does not know its tenant's name: it returns.
AlarmNameless ==
    /\ handler = "none" /\ write = "none"
    /\ alarm # Never
    /\ alarm <= now
    /\ ~known /\ ~named
    /\ alarm' = Never
    /\ gap' = "nameless"
    /\ UNCHANGED <<now, scheduled, handler, nowMs, claims, inFlight, name, write,
                   fires, faults>>

\* Mutation of ReArm: the alarm is set after the fires have settled.
ReArmLate ==
    /\ handler = "claimed"
    /\ alarm' = IF inFlight = {} /\ scheduled # {} THEN EarliestNextDue(scheduled, nowMs)
                ELSE alarm
    /\ handler' = "waiting"
    /\ nowMs' = Never
    /\ gap' = "none"
    /\ UNCHANGED <<now, scheduled, claims, inFlight, name, write, fires,
                   faults>>

\* The next alarm is set before the fires are awaited.
ReArm ==
    /\ handler = "claimed"
    /\ alarm' = IF scheduled # {} THEN EarliestNextDue(scheduled, nowMs) ELSE alarm
    /\ handler' = "waiting"
    /\ nowMs' = Never
    /\ gap' = "none"
    /\ UNCHANGED <<now, scheduled, claims, inFlight, name, write, fires,
                   faults>>

\* Promise.allSettled: the handler ends with its fires.
Settle ==
    /\ handler = "waiting"
    /\ inFlight = {}
    /\ handler' = "none"
    /\ UNCHANGED <<now, scheduled, alarm, nowMs, claims, inFlight, name, write,
                   fires, gap, faults>>

FireEnd(m) ==
    /\ m \in inFlight
    /\ inFlight' = inFlight \ {m}
    /\ UNCHANGED <<now, scheduled, alarm, handler, nowMs, claims, name, write,
                   fires, gap, faults>>

\* Any request of the tenant: runtimeFor learns the name.
Request ==
    /\ ~known
    /\ known' = TRUE
    /\ UNCHANGED <<now, scheduled, alarm, handler, nowMs, claims, inFlight, named, write,
                   fires, gap, faults>>

\* A config write, one storage write after another: the config, the tenant's
\* name, then the alarm.
PutConfig(ms) ==
    /\ handler # "claimed" /\ write = "none"
    /\ scheduled' = ms
    /\ known' = TRUE
    /\ write' = "name"
    /\ UNCHANGED <<now, alarm, handler, nowMs, claims, inFlight, named, fires,
                   gap, faults>>

PutName ==
    /\ write = "name"
    /\ named' = TRUE
    /\ write' = "arm"
    /\ UNCHANGED <<now, scheduled, alarm, handler, nowMs, claims, inFlight, known,
                   fires, gap, faults>>

\* armSchedules with force: the alarm moves to the new schedules.
ArmSchedules ==
    /\ write = "arm"
    /\ alarm' = IF scheduled = {} THEN Never ELSE EarliestNextDue(scheduled, now)
    /\ write' = "none"
    /\ gap' = "none"
    /\ UNCHANGED <<now, scheduled, handler, nowMs, claims, inFlight, name, fires,
                   faults>>

\* The cron trigger has the tenants on the registry's list arm a missing alarm
\* or move one earlier.  The list is kept by calls that may fail, so whether a
\* reconcile ever comes is left open.
Reconcile ==
    /\ handler # "claimed" /\ write = "none"
    /\ \/ /\ scheduled = {}
          /\ alarm' = Never
       \/ /\ scheduled # {}
          /\ alarm = Never \/ EarliestNextDue(scheduled, now) < alarm
          /\ alarm' = EarliestNextDue(scheduled, now)
    /\ gap' = "none"
    /\ UNCHANGED <<now, scheduled, handler, nowMs, claims, inFlight, name, write,
                   fires, faults>>

\* The deletion of a tenant: its object deletes its alarm and after it its
\* storage; what it fired is history.
DeleteAlarm ==
    /\ handler # "claimed" /\ write = "none"
    /\ alarm' = Never
    /\ write' = "delete"
    /\ UNCHANGED <<now, scheduled, handler, nowMs, claims, inFlight, name, fires,
                   gap, faults>>

DeleteAll ==
    /\ write = "delete"
    /\ scheduled' = {}
    /\ named' = FALSE
    /\ write' = "none"
    /\ claims' = [m \in Mounts |-> [o \in Minutes |-> Never]]
    /\ fires' = [m \in Mounts |-> [o \in Minutes |-> 0]]
    /\ gap' = "none"
    /\ UNCHANGED <<now, alarm, handler, nowMs, inFlight, known, faults>>

\* External: the object is evicted; an unfinished handler is delivered again, an
\* unfinished write is not.
Evict ==
    /\ faults < MaxFaults
    /\ faults' = faults + 1
    /\ inFlight' = {}
    /\ known' = FALSE
    /\ write' = "none"
    /\ handler' = "none"
    /\ nowMs' = Never
    /\ alarm' \in CASE handler = "none" -> {alarm}
                  [] handler = "claimed" -> {now}
                  [] handler = "waiting" -> {alarm, now}
    /\ gap' = IF write # "none" /\ alarm' = Never THEN "cut" ELSE gap
    /\ UNCHANGED <<now, scheduled, claims, named, fires>>

\* External: the alarm's retries are exhausted.
LoseAlarm ==
    /\ faults < MaxFaults
    /\ faults' = faults + 1
    /\ handler = "none" /\ write = "none"
    /\ alarm # Never
    /\ alarm' = Never
    /\ gap' = "lost"
    /\ UNCHANGED <<now, scheduled, handler, nowMs, claims, inFlight, name, write,
                   fires>>

Tick ==
    /\ now < MaxTime
    /\ now' = now + 1
    /\ UNCHANGED <<scheduled, alarm, handler, nowMs, claims, inFlight, name, write,
                   fires, gap, faults>>

Next ==
    \/ Alarm \/ AlarmNameless \/ ReArm \/ Settle \/ Request
    \/ PutName \/ ArmSchedules \/ Reconcile \/ DeleteAlarm \/ DeleteAll
    \/ Evict \/ LoseAlarm \/ Tick
    \/ \E ms \in SUBSET Mounts : PutConfig(ms)
    \/ \E m \in Mounts : FireEnd(m)

Spec == Init /\ [][Next]_vars

(***************************************************************************)
(* Properties.                                                             *)
(***************************************************************************)
\* Every variable keeps its type; the alarm is at most a period ahead of the
\* last minute.
TypeOK ==
    /\ now \in Minutes
    /\ scheduled \subseteq Mounts
    /\ alarm \in {Never} \cup 0 .. MaxTime + Max({Period[m] : m \in Mounts})
    /\ handler \in {"none", "claimed", "waiting"}
    /\ nowMs \in Minutes \cup {Never}
    /\ claims \in [Mounts -> [Minutes -> Int]]
    /\ inFlight \subseteq Mounts
    /\ fires \in [Mounts -> [Minutes -> Nat]]
    /\ known \in BOOLEAN /\ named \in BOOLEAN
    /\ write \in {"none", "name", "arm", "delete"}
    /\ gap \in {"none", "lost", "cut", "nameless"}
    /\ faults \in Nat

FiredOnceOf(ms) == \A m \in ms : \A o \in Minutes : fires[m][o] <= 1

\* A retried or duplicated alarm never fires an occurrence of an interval
\* again: its claim outlives the bucket it is in.
IntervalFiredOnce == FiredOnceOf(IntervalMounts)

\* The same of every scheduled mount, cron schedules included.
FiredOnce == FiredOnceOf(Mounts)

\* The chain of alarms does not break: while a mount is scheduled an alarm is
\* set, being handled or about to be set, whatever moment of alarm() the object
\* is evicted in.  What breaks it is named: the platform dropped the alarm, an
\* eviction cut off the config write that was to set the first one or a deletion
\* that had removed it, or the alarm found no name to fire under.
ChainArmed ==
    \/ scheduled = {}
    \/ alarm # Never \/ handler = "claimed" \/ write # "none"
    \/ gap # "none"
=============================================================================
