----------------------------- MODULE TenantCache -----------------------------
(***************************************************************************)
(* The runtime's cache of built tenants, for one tenant name               *)
(* (rs2-core/src/runtime.rs): Runtime::tenant with its per-tenant load     *)
(* guards, the purge that ends put_config, and reload_infras.              *)
(*                                                                         *)
(* The config on disk and the infra source are version numbers, raised by  *)
(* a save or an operator's edit; a built tenant is the pair of versions it *)
(* was built from.  A lock taken for one map access is one step; the guard *)
(* held across the load is not.                                            *)
(***************************************************************************)
EXTENDS Naturals, FiniteSets

CONSTANTS
    Requests,     \* requests that resolve the tenant
    Editors,      \* PUTs of the config
    Reloads,      \* calls of reload_infras
    None,         \* no tenant, no guard
    Droppable,    \* requests, PUTs and reloads whose future may be dropped
    MaxInfra      \* bound on the versions of the infra source

ASSUME TenantCacheAssumption ==
    /\ IsFiniteSet(Requests) /\ IsFiniteSet(Editors) /\ IsFiniteSet(Reloads)
    /\ None \notin Requests
    /\ Droppable \subseteq Requests \cup Editors \cup Reloads
    /\ MaxInfra \in Nat

VARIABLES
    disk,       \* version of the persisted config
    source,     \* version of the infra source
    infras,     \* version of the live infra set
    cached,     \* the built tenant, or None
    guard,      \* the tenant's entry in load_guards, or None
    holder,     \* which request holds each guard's mutex
    pc,         \* where each request, PUT and reload is
    mine,       \* the guard a request cloned, while it is in tenant()
    config,     \* the config version a request has loaded, until it is built
    served,     \* the tenant a request was given
    floor,      \* the last version acknowledged when a request started
    acked,      \* the last config version acknowledged to an editor
    loaded,     \* the infra version a reload has read
    crossed,    \* whether a load was in flight across a purge
    setbacks    \* loads that failed and purges so far

vars == <<disk, source, infras, cached, guard, holder, pc, mine, config, served,
          floor, acked, loaded, crossed, setbacks>>

\* A guard is named by the request that inserted it.
Guards == Requests

Loading(r) == pc[r] \in {"building", "inserting"}

Init ==
    /\ disk = 1
    /\ source = 1
    /\ infras = 1
    /\ cached = None
    /\ guard = None
    /\ holder = [g \in Guards |-> None]
    /\ pc = [x \in Requests \cup Editors \cup Reloads |-> "idle"]
    /\ mine = [r \in Requests |-> None]
    /\ config = [r \in Requests |-> 0]
    /\ served = [r \in Requests |-> None]
    /\ floor = [r \in Requests |-> 0]
    /\ acked = 1
    /\ loaded = [l \in Reloads |-> 0]
    /\ crossed = FALSE
    /\ setbacks = 0

Go(x, where) == pc' = [pc EXCEPT ![x] = where]

\* tenant(): the fast path, a read of the map.
Lookup(r) ==
    /\ pc[r] = "idle"
    /\ floor' = [floor EXCEPT ![r] = acked]
    /\ IF cached # None
       THEN Go(r, "served") /\ served' = [served EXCEPT ![r] = cached]
       ELSE Go(r, "guarding") /\ UNCHANGED served
    /\ UNCHANGED <<disk, source, infras, cached, guard, holder, mine, config, acked,
                   loaded, crossed, setbacks>>

\* The tenant's entry in load_guards, inserted when absent, and cloned.
TakeGuard(r) ==
    /\ pc[r] = "guarding"
    /\ guard' = IF guard = None THEN r ELSE guard
    /\ mine' = [mine EXCEPT ![r] = guard']
    /\ Go(r, "locking")
    /\ UNCHANGED <<disk, source, infras, cached, holder, config, served, floor, acked,
                   loaded, crossed, setbacks>>

\* The guard is acquired; another request may have loaded meanwhile.
Lock(r) ==
    /\ pc[r] = "locking"
    /\ holder[mine[r]] = None
    /\ holder' = [holder EXCEPT ![mine[r]] = r]
    /\ IF cached # None
       THEN Go(r, "releasing") /\ served' = [served EXCEPT ![r] = cached]
       ELSE Go(r, "loading") /\ UNCHANGED served
    /\ UNCHANGED <<disk, source, infras, cached, guard, mine, config, floor, acked,
                   loaded, crossed, setbacks>>

\* load_tenant: the persisted config.
Load(r) ==
    /\ pc[r] = "loading"
    /\ config' = [config EXCEPT ![r] = disk]
    /\ Go(r, "building")
    /\ UNCHANGED <<disk, source, infras, cached, guard, holder, mine, served, floor,
                   acked, loaded, crossed, setbacks>>

\* load_tenant fails, or the config does not build against the live infras: the
\* error leaves the guarded block, nothing is inserted.
LoadFails(r) ==
    /\ pc[r] \in {"loading", "building"}
    /\ setbacks' = setbacks + 1
    /\ config' = [config EXCEPT ![r] = 0]
    /\ Go(r, "releasing")
    /\ UNCHANGED <<disk, source, infras, cached, guard, holder, mine, served, floor,
                   acked, loaded, crossed>>

\* Tenant::build against one snapshot of the infras.
Build(r) ==
    /\ pc[r] = "building"
    /\ Go(r, "inserting")
    /\ served' = [served EXCEPT ![r] = [config |-> config[r], infras |-> infras]]
    /\ config' = [config EXCEPT ![r] = 0]
    /\ UNCHANGED <<disk, source, infras, cached, guard, holder, mine, floor, acked,
                   loaded, crossed, setbacks>>

\* Mutation of Insert: the config goes into the map without its infras.
InsertUnbuilt(r) ==
    /\ pc[r] = "inserting"
    /\ cached' = [served[r] EXCEPT !.infras = None]
    /\ Go(r, "releasing")
    /\ UNCHANGED <<disk, source, infras, guard, holder, mine, config, served, floor,
                   acked, loaded, crossed, setbacks>>

Insert(r) ==
    /\ pc[r] = "inserting"
    /\ cached' = served[r]
    /\ Go(r, "releasing")
    /\ UNCHANGED <<disk, source, infras, guard, holder, mine, config, served, floor,
                   acked, loaded, crossed, setbacks>>

\* Mutation of RemoveGuard: the entry stays behind.
RemoveGuardNot(r) ==
    /\ pc[r] = "releasing"
    /\ Go(r, "unlocking")
    /\ UNCHANGED <<disk, source, infras, cached, guard, holder, mine, config, served,
                   floor, acked, loaded, crossed, setbacks>>

\* The entry leaves load_guards, whosever guard it is by now, and then the
\* guard is unlocked.
RemoveGuard(r) ==
    /\ pc[r] = "releasing"
    /\ guard' = None
    /\ Go(r, "unlocking")
    /\ UNCHANGED <<disk, source, infras, cached, holder, mine, config, served, floor,
                   acked, loaded, crossed, setbacks>>

Unlock(r) ==
    /\ pc[r] = "unlocking"
    /\ holder' = [holder EXCEPT ![mine[r]] = None]
    /\ mine' = [mine EXCEPT ![r] = None]
    /\ Go(r, IF served[r] = None THEN "failed" ELSE "served")
    /\ UNCHANGED <<disk, source, infras, cached, guard, config, served, floor, acked,
                   loaded, crossed, setbacks>>

\* Mutation of Drop: the dropped request also takes the entry out of load_guards.
DropCleansUp(r) ==
    /\ r \in Droppable
    /\ pc[r] \in {"guarding", "locking", "loading", "building", "inserting", "releasing"}
    /\ holder' = [g \in Guards |-> IF holder[g] = r THEN None ELSE holder[g]]
    /\ guard' = None
    /\ mine' = [mine EXCEPT ![r] = None]
    /\ config' = [config EXCEPT ![r] = 0]
    /\ served' = [served EXCEPT ![r] = None]
    /\ Go(r, "dropped")
    /\ UNCHANGED <<disk, source, infras, cached, floor, acked, loaded, crossed, setbacks>>

\* The request's future is dropped at an await: a guard it holds unlocks, and
\* the rest of tenant() never runs.
Drop(r) ==
    /\ r \in Droppable
    /\ pc[r] \in {"guarding", "locking", "loading", "building", "inserting", "releasing"}
    /\ holder' = [g \in Guards |-> IF holder[g] = r THEN None ELSE holder[g]]
    /\ mine' = [mine EXCEPT ![r] = None]
    /\ config' = [config EXCEPT ![r] = 0]
    /\ served' = [served EXCEPT ![r] = None]
    /\ Go(r, "dropped")
    /\ UNCHANGED <<disk, source, infras, cached, guard, floor, acked, loaded, crossed,
                   setbacks>>

\* put_config dry-builds the config against the live infras; an invalid one
\* touches nothing.
DryBuild(e) ==
    /\ pc[e] = "idle"
    /\ \E verdict \in {"saving", "rejected"} : Go(e, verdict)
    /\ UNCHANGED <<disk, source, infras, cached, guard, holder, mine, config, served,
                   floor, acked, loaded, crossed, setbacks>>

\* It then persists the config, purges the built tenant and answers.
Save(e) ==
    /\ pc[e] = "saving"
    /\ disk' = disk + 1
    /\ Go(e, "purging")
    /\ UNCHANGED <<source, infras, cached, guard, holder, mine, config, served, floor,
                   acked, loaded, crossed, setbacks>>

\* save_raw fails: a version mismatch or an error of the file.
SaveFails(e) ==
    /\ pc[e] = "saving"
    /\ Go(e, "rejected")
    /\ UNCHANGED <<disk, source, infras, cached, guard, holder, mine, config, served,
                   floor, acked, loaded, crossed, setbacks>>

\* The PUT's or the reload's future is dropped at its save or at its purge,
\* which then does not happen.
DropChange(x) ==
    /\ x \in Droppable
    /\ pc[x] \in {"saving", "purging", "purgingAll"}
    /\ Go(x, "dropped")
    /\ UNCHANGED <<disk, source, infras, cached, guard, holder, mine, config, served,
                   floor, acked, loaded, crossed, setbacks>>

\* A purge while a load is past its read of the config or of the infras.
Cross ==
    /\ crossed' = (crossed \/ \E r \in Requests : Loading(r))
    /\ setbacks' = setbacks + 1

\* Mutation of Purge: the built tenant is kept.
PurgeNot(e) ==
    /\ pc[e] = "purging"
    /\ acked' = disk
    /\ Cross
    /\ Go(e, "done")
    /\ UNCHANGED <<disk, source, infras, cached, guard, holder, mine, config, served,
                   floor, loaded>>

Purge(e) ==
    /\ pc[e] = "purging"
    /\ cached' = None
    /\ acked' = disk
    /\ Cross
    /\ Go(e, "done")
    /\ UNCHANGED <<disk, source, infras, guard, holder, mine, config, served, floor,
                   loaded>>

\* The operator edits the infra source.
EditInfras ==
    /\ source < MaxInfra
    /\ source' = source + 1
    /\ UNCHANGED <<disk, infras, cached, guard, holder, pc, mine, config, served, floor,
                   acked, loaded, crossed, setbacks>>

\* reload_infras: read the source, swap the live set, purge every tenant.
ReadInfras(l) ==
    /\ pc[l] = "idle"
    /\ loaded' = [loaded EXCEPT ![l] = source]
    /\ Go(l, "swapping")
    /\ UNCHANGED <<disk, source, infras, cached, guard, holder, mine, config, served,
                   floor, acked, crossed, setbacks>>

\* A malformed source: the running set is left untouched.
ReadFails(l) ==
    /\ pc[l] = "idle"
    /\ Go(l, "rejected")
    /\ UNCHANGED <<disk, source, infras, cached, guard, holder, mine, config, served,
                   floor, acked, loaded, crossed, setbacks>>

SwapInfras(l) ==
    /\ pc[l] = "swapping"
    /\ infras' = loaded[l]
    /\ Go(l, "purgingAll")
    /\ UNCHANGED <<disk, source, cached, guard, holder, mine, config, served, floor,
                   acked, loaded, crossed, setbacks>>


PurgeAll(l) ==
    /\ pc[l] = "purgingAll"
    /\ cached' = None
    /\ Cross
    /\ Go(l, "done")
    /\ UNCHANGED <<disk, source, infras, guard, holder, mine, config, served, floor,
                   acked, loaded>>

Next ==
    \/ \E r \in Requests :
         \/ Lookup(r) \/ TakeGuard(r) \/ Lock(r) \/ Load(r) \/ LoadFails(r) \/ Build(r)
         \/ Insert(r) \/ RemoveGuard(r) \/ Unlock(r) \/ Drop(r)
    \/ \E e \in Editors : DryBuild(e) \/ Save(e) \/ SaveFails(e) \/ Purge(e)
    \/ \E l \in Reloads : ReadInfras(l) \/ ReadFails(l) \/ SwapInfras(l) \/ PurgeAll(l)
    \/ \E x \in Editors \cup Reloads : DropChange(x)
    \/ EditInfras

Spec == Init /\ [][Next]_vars

(***************************************************************************)
(* Properties.                                                             *)
(***************************************************************************)
Versions == [config : Nat, infras : Nat]

\* Every variable keeps its type.
TypeOK ==
    /\ disk \in Nat /\ source \in Nat /\ infras \in Nat /\ acked \in Nat
    /\ cached \in Versions \cup {None}
    /\ guard \in Guards \cup {None}
    /\ holder \in [Guards -> Requests \cup {None}]
    /\ pc \in [Requests \cup Editors \cup Reloads ->
                 {"idle", "guarding", "locking", "loading", "building", "inserting",
                  "releasing", "unlocking", "served", "failed", "dropped", "saving",
                  "rejected", "purging", "swapping", "purgingAll", "done"}]
    /\ mine \in [Requests -> Guards \cup {None}]
    /\ config \in [Requests -> Nat]
    /\ served \in [Requests -> Versions \cup {None}]
    /\ floor \in [Requests -> Nat]
    /\ loaded \in [Reloads -> Nat]
    /\ crossed \in BOOLEAN
    /\ setbacks \in Nat

\* tenant() loads a name once however many first requests arrive together and
\* whichever of them are dropped.  Taking the guard entry out of load_guards
\* while others wait on the guard puts a second guard in use only after a load
\* that failed or a purge, and each of those adds at most one load to the ones
\* that run at the same time.
LoadsAreShared ==
    Cardinality({r \in Requests : pc[r] \in {"loading", "building", "inserting"}})
        <= 1 + setbacks

\* A request that starts after a PUT was answered is served a tenant built
\* from that config or a later one, unless a load was in flight across the
\* purge: nothing else can bring back an older tenant.
FreshUnlessCrossed ==
    \A r \in Requests :
        pc[r] = "served" => served[r].config >= floor[r] \/ crossed

\* The same without the exception: what put_config's comment says.
FreshAfterPut ==
    \A r \in Requests : pc[r] = "served" => served[r].config >= floor[r]


\* load_guards keeps no entry for a name nobody is loading, unless a request
\* was dropped at its guard.
GuardsDoNotAccumulate ==
    guard # None =>
        \E r \in Requests : pc[r] \in {"locking", "loading", "building", "inserting",
                                       "releasing", "dropped"}
=============================================================================
