-------------------------- MODULE WorkspaceRuntime --------------------------
(***************************************************************************)
(* What one process serves: the workspace it is bound to, the services     *)
(* that are replaced one by one when it is bound again, and the engine     *)
(* that scans, imports and bindings put in place under two different locks *)
(* or none (backend/app/runtime.py, with the tables of storage.py).        *)
(*                                                                         *)
(* A snapshot is known by the order in which it was collected (its         *)
(* generated_at), the workspaces its targets and imported sources were     *)
(* read from, and how many changes of imported sources it saw.  Of the     *)
(* stored snapshots only the newest matters here; the retention keeps it.  *)
(***************************************************************************)
EXTENDS Integers

CONSTANTS
    Workspace,
    Thread,       \* request threads and the scan scheduler
    Home,         \* the workspace that is active at first
    MaxRequests,  \* bound on requests (a scheduled scan is one)
    MaxFaults     \* bound on exceptions and crashes together

ASSUME HomeAssumption == Home \in Workspace

ASSUME BoundAssumption == MaxRequests \in Nat /\ MaxFaults \in Nat

VARIABLES
    control,    \* the active workspace in the control database
    stored,     \* the newest snapshot in the database of each workspace
    indexed,    \* the snapshot whose engine calculated its indexes
    targets,    \* whether a workspace has targets, and enabled ones
    imports,    \* changes of the imported sources of each workspace
    mem,        \* the attributes of RuntimeState
    task,       \* what each thread is doing
    collected,  \* snapshots collected so far
    requests,
    faults,
    mixed,      \* history: workspaces in which unserialised work has met
    missed,     \* history: workspaces where the refresh after an import was cut short
    behind,     \* history: an exception left an engine that is not the newest
    broken      \* history: an exception ended the last binding

history == <<mixed, missed, behind, broken>>
disk == <<control, stored, indexed, targets, imports>>
vars == <<disk, mem, task, collected, requests, faults, history>>

None == [at |-> -1, of |-> {}, saw |-> 0]
Snapshots == [at : Int, of : SUBSET Workspace, saw : Nat]

\* _empty_engine_snapshot: no target, but the imported sources; never stored.
EmptySnapshot(w) == [at |-> 0, of |-> {w}, saw |-> imports[w]]

Off == [up |-> FALSE, bound |-> Home, storage |-> Home, indexService |-> Home,
        services |-> Home, engine |-> None]

(* kind: who asks for a refresh.  to: the workspace of a binding or an       *)
(* import.  of, snap: what a collection has read.  locked: under _scan_lock. *)
Task(kind, stage, w) ==
    [kind |-> kind, stage |-> stage, to |-> w, of |-> {}, snap |-> None,
     locked |-> FALSE, clash |-> FALSE]
Idle == Task("none", "idle", Home)

Kinds == {"none", "scan", "import", "bind"}
RefreshStages == {"collect", "save", "swap", "index"}
BindStages == {"bindStorage", "bindLoad", "bindEngine", "rebuild"}
Stages == {"idle", "decide", "wait"} \cup RefreshStages \cup BindStages

------------------------------------------------------------------------------
(* The two locks, and work that neither of them keeps apart.               *)

ScanLockFree == \A t \in Thread : ~ task[t].locked
WorkspaceLockFree == \A t \in Thread : task[t].kind # "bind"

AtWork(r) == r.kind = "bind" \/ r.stage \in RefreshStages
Unserialised(r) == r.kind = "bind" \/ (AtWork(r) /\ ~ r.locked)

Met(t, r) ==
    {u \in Thread \ {t} : AtWork(task[u]) /\ (Unserialised(r) \/ Unserialised(task[u]))}

BoundTo(r) == IF r.kind = "bind" THEN {r.to} ELSE {}

\* Thread t begins work r; whom it meets is remembered on both sides.
Begin(t, r) ==
    LET met == Met(t, r)
    IN  /\ task' = [u \in Thread |->
              IF u = t THEN [r EXCEPT !.clash = (@ \/ met # {})]
              ELSE [task[u] EXCEPT !.clash = (@ \/ u \in met)]]
        /\ mixed' = IF met = {} THEN mixed
                    ELSE mixed \cup {mem.storage} \cup BoundTo(r)
                               \cup UNION {BoundTo(task[u]) : u \in met}

Go(t, stage) == task' = [task EXCEPT ![t].stage = stage]

------------------------------------------------------------------------------

Init ==
    /\ control = Home
    /\ stored = [w \in Workspace |-> None]
    /\ indexed = [w \in Workspace |-> None]
    /\ targets = [w \in Workspace |-> "none"]
    /\ imports = [w \in Workspace |-> 0]
    /\ mem = Off
    /\ task = [t \in Thread |-> Idle]
    /\ collected = 0 /\ requests = 0 /\ faults = 0
    /\ mixed = {} /\ missed = {} /\ behind = FALSE /\ broken = FALSE

\* Thread t takes up a request.
Asked(t) ==
    /\ mem.up /\ task[t] = Idle
    /\ requests < MaxRequests
    /\ requests' = requests + 1

\* A request, or the scheduler.
RequestScan(t) ==
    /\ Asked(t)
    /\ task' = [task EXCEPT ![t] = Task("scan", "wait", Home)]
    /\ UNCHANGED <<disk, mem, collected, faults, history>>

\* create_, update_ or delete_imported_source: the row, then the refresh.
Import(t) ==
    /\ Asked(t)
    /\ imports' = [imports EXCEPT ![mem.storage] = @ + 1]
    /\ task' = [task EXCEPT ![t] = Task("import", "decide", mem.storage)]
    /\ UNCHANGED <<control, stored, indexed, targets, mem, collected, faults, history>>

\* update_target, which triggers nothing.
SetTargets(t) ==
    /\ Asked(t) /\ targets[mem.storage] # "none"
    /\ targets' = [targets EXCEPT ![mem.storage] = IF @ = "on" THEN "off" ELSE "on"]
    /\ UNCHANGED <<control, stored, indexed, imports, mem, task, collected, faults, history>>

------------------------------------------------------------------------------
(* run_scan and _refresh_runtime_snapshot *)

\* Mutant: an import leaves the refresh to a scan in progress.
DecideRefreshUnlessScanning(t) ==
    /\ task[t].stage = "decide"
    /\ IF ~ ScanLockFree
       THEN task' = [task EXCEPT ![t] = Idle] /\ mixed' = mixed
       ELSE IF targets[mem.storage] = "on"
       THEN task' = [task EXCEPT ![t].stage = "wait", ![t].of = {mem.storage}] /\ mixed' = mixed
       ELSE Begin(t, [task[t] EXCEPT !.stage = "collect", !.of = {mem.storage}])
    /\ missed' = IF mem.storage = task[t].to THEN missed ELSE missed \cup {task[t].to}
    /\ UNCHANGED <<disk, mem, collected, requests, faults, behind, broken>>

\* With enabled targets the refresh is a scan of them, else it takes no lock.
DecideRefresh(t) ==
    /\ task[t].stage = "decide"
    /\ IF targets[mem.storage] = "on"
       THEN task' = [task EXCEPT ![t].stage = "wait", ![t].of = {mem.storage}] /\ mixed' = mixed
       ELSE Begin(t, [task[t] EXCEPT !.stage = "collect", !.of = {mem.storage}])
    /\ missed' = IF mem.storage = task[t].to THEN missed ELSE missed \cup {task[t].to}
    /\ UNCHANGED <<disk, mem, collected, requests, faults, behind, broken>>

\* _resolve_targets: those enabled now, or those an import has named before.
TargetsFound(t) ==
    IF task[t].kind = "import" THEN task[t].of = {mem.storage} ELSE targets[mem.storage] = "on"

\* Mutant: scans are not serialised.
AcquireAtOnce(t) ==
    /\ task[t].stage = "wait"
    /\ TargetsFound(t)
    /\ Begin(t, [task[t] EXCEPT !.stage = "collect", !.of = {mem.storage}, !.locked = TRUE])
    /\ UNCHANGED <<disk, mem, collected, requests, faults, missed, behind, broken>>

\* Mutant: a scan also waits until no workspace is being bound.
AcquireBoth(t) ==
    /\ task[t].stage = "wait" /\ ScanLockFree /\ WorkspaceLockFree
    /\ TargetsFound(t)
    /\ Begin(t, [task[t] EXCEPT !.stage = "collect", !.of = {mem.storage}, !.locked = TRUE])
    /\ UNCHANGED <<disk, mem, collected, requests, faults, missed, behind, broken>>

Acquire(t) ==
    /\ task[t].stage = "wait" /\ ScanLockFree
    /\ TargetsFound(t)
    /\ Begin(t, [task[t] EXCEPT !.stage = "collect", !.of = {mem.storage}, !.locked = TRUE])
    /\ UNCHANGED <<disk, mem, collected, requests, faults, missed, behind, broken>>

\* What an exception leaves: it ends a binding and is swallowed after an import.
GiveUp(t) ==
    /\ task' = [task EXCEPT ![t] = Idle]
    /\ mem' = IF task[t].kind = "bind" /\ ~ mem.up THEN Off ELSE mem
    /\ broken' = (broken \/ task[t].kind = "bind")
    /\ missed' = IF task[t].kind = "import" THEN missed \cup {task[t].to} ELSE missed

\* No targets: run_scan raises.
Refuse(t) ==
    /\ task[t].stage = "wait" /\ ScanLockFree
    /\ ~ TargetsFound(t)
    /\ GiveUp(t)
    /\ UNCHANGED <<disk, collected, requests, faults, mixed, behind>>

\* _collect_snapshot_payload
Collect(t) ==
    /\ task[t].stage = "collect"
    /\ collected' = collected + 1
    /\ task' = [task EXCEPT ![t].stage = "save",
                            ![t].snap = [at  |-> collected + 1,
                                         of  |-> task[t].of \cup {mem.storage},
                                         saw |-> imports[mem.storage]]]
    /\ UNCHANGED <<disk, mem, requests, faults, history>>

\* save_snapshot, into the storage bound by now.
Save(t) ==
    /\ task[t].stage = "save"
    /\ IF task[t].snap.at > stored[mem.storage].at
       THEN /\ stored' = [stored EXCEPT ![mem.storage] = task[t].snap]
            /\ indexed' = [indexed EXCEPT ![mem.storage] = None]
       ELSE UNCHANGED <<stored, indexed>>
    /\ Go(t, "swap")
    /\ UNCHANGED <<control, targets, imports, mem, collected, requests, faults, history>>

Swap(t) ==
    /\ task[t].stage = "swap"
    /\ mem' = [mem EXCEPT !.engine = task[t].snap]
    /\ Go(t, "index")
    /\ UNCHANGED <<disk, collected, requests, faults, history>>

\* ensure_indexes with the engine of this moment; what exists is left alone.
Ensure(snap) ==
    indexed' = [indexed EXCEPT ![mem.indexService] =
        IF snap = stored[mem.indexService] /\ @ = None THEN mem.engine ELSE @]

\* A collection that met nobody, unlike a binding, leaves nothing mixed behind.
Unmixed(t) ==
    IF task[t].clash \/ (task[t].kind = "bind" /\ ~ task[t].locked)
    THEN mixed ELSE mixed \ {mem.storage}

Index(t) ==
    /\ task[t].stage = "index"
    /\ Ensure(task[t].snap)
    /\ task' = [task EXCEPT ![t] =
          IF @.kind = "bind" THEN [@ EXCEPT !.stage = "rebuild", !.locked = FALSE] ELSE Idle]
    /\ mixed' = Unmixed(t)
    /\ behind' = (behind /\ task[t].clash)
    /\ UNCHANGED <<control, stored, targets, imports, mem, collected, requests, faults, missed, broken>>

------------------------------------------------------------------------------
(* activate_workspace, update_workspace and _bind_workspace *)

Activate(t, w) ==
    /\ Asked(t) /\ WorkspaceLockFree
    /\ control' = w
    /\ Begin(t, Task("bind", "bindStorage", w))
    /\ UNCHANGED <<stored, indexed, targets, imports, mem, collected, faults, missed, behind, broken>>

\* An update of the bound workspace binds it again.
Update(t) ==
    /\ Asked(t) /\ WorkspaceLockFree
    /\ Begin(t, Task("bind", "bindStorage", mem.bound))
    /\ UNCHANGED <<disk, mem, collected, faults, missed, behind, broken>>

\* The constructor, before there are other threads.
Start(t) ==
    /\ ~ mem.up /\ \A u \in Thread : task[u] = Idle
    /\ task' = [task EXCEPT ![t] = Task("bind", "bindStorage", control)]
    /\ UNCHANGED <<disk, mem, collected, requests, faults, history>>

BindStorage(t) ==
    /\ task[t].stage = "bindStorage"
    /\ mem' = [mem EXCEPT !.bound = task[t].to, !.storage = task[t].to]
    /\ Go(t, "bindLoad")
    /\ UNCHANGED <<disk, collected, requests, faults, history>>

\* Mutant: the index service keeps the storage it has.
BindLoadOnly(t) ==
    /\ task[t].stage = "bindLoad"
    /\ mem' = mem
    /\ targets' = [targets EXCEPT ![mem.storage] = IF @ = "none" THEN "on" ELSE @]
    /\ task' = [task EXCEPT ![t].stage = "bindEngine", ![t].snap = stored[mem.storage]]
    /\ UNCHANGED <<control, stored, indexed, imports, collected, requests, faults, history>>

\* The index service, _ensure_default_targets and load_latest_snapshot.
BindLoad(t) ==
    /\ task[t].stage = "bindLoad"
    /\ mem' = [mem EXCEPT !.indexService = mem.storage]
    /\ targets' = [targets EXCEPT ![mem.storage] = IF @ = "none" THEN "on" ELSE @]
    /\ task' = [task EXCEPT ![t].stage = "bindEngine", ![t].snap = stored[mem.storage]]
    /\ UNCHANGED <<control, stored, indexed, imports, collected, requests, faults, history>>

\* A workspace without snapshot is scanned at once.
BindEngine(t) ==
    /\ task[t].stage = "bindEngine"
    /\ IF task[t].snap = None
       THEN mem' = [mem EXCEPT !.engine = EmptySnapshot(mem.storage)] /\ Go(t, "wait")
       ELSE mem' = [mem EXCEPT !.engine = task[t].snap] /\ Go(t, "index")
    /\ UNCHANGED <<disk, collected, requests, faults, history>>

\* _rebuild_workspace_services; the end of a start lets requests in.
Rebuild(t) ==
    /\ task[t].stage = "rebuild"
    /\ mem' = [mem EXCEPT !.services = mem.storage, !.up = TRUE]
    /\ broken' = (broken /\ task[t].to # control)
    /\ task' = [task EXCEPT ![t] = Idle]
    /\ UNCHANGED <<disk, collected, requests, faults, mixed, missed, behind>>

------------------------------------------------------------------------------
(* Exceptions and crashes. *)

Fault(t) ==
    /\ faults < MaxFaults
    /\ faults' = faults + 1
    /\ AtWork(task[t]) /\ task[t].stage # "wait"
    /\ GiveUp(t)
    /\ behind' = (behind \/ task[t].kind = "bind" \/ task[t].stage \in {"swap", "index"})
    /\ UNCHANGED <<disk, collected, requests, mixed>>

Crash ==
    /\ faults < MaxFaults /\ mem # Off
    /\ faults' = faults + 1
    /\ mem' = Off
    /\ task' = [t \in Thread |-> Idle]
    /\ missed' = missed \cup {task[t].to : t \in {u \in Thread : task[u].kind = "import"}}
    /\ behind' = FALSE /\ broken' = FALSE
    /\ UNCHANGED <<disk, collected, requests, mixed>>

------------------------------------------------------------------------------

RefreshStep(t) ==
    \/ DecideRefresh(t) \/ Refuse(t) \/ Collect(t) \/ Save(t) \/ Swap(t) \/ Index(t)

BindStep(t) == BindStorage(t) \/ BindLoad(t) \/ BindEngine(t) \/ Rebuild(t)

Next ==
    \/ \E t \in Thread :
          \/ RequestScan(t) \/ Import(t) \/ SetTargets(t)
          \/ Acquire(t) \/ RefreshStep(t)
          \/ \E w \in Workspace : Activate(t, w)
          \/ Update(t) \/ Start(t) \/ BindStep(t)
          \/ Fault(t)
    \/ Crash

\* Nothing in a refresh or a binding waits but for the scan lock, which a
\* thread that asks again and again gets in the end.
Fairness ==
    \A t \in Thread :
        /\ WF_vars(RefreshStep(t)) /\ WF_vars(BindStep(t))
        /\ SF_vars(Acquire(t) \/ Refuse(t))

Spec == Init /\ [][Next]_vars
FairSpec == Spec /\ Fairness
------------------------------------------------------------------------------

TypeOK ==
    /\ control \in Workspace
    /\ stored \in [Workspace -> Snapshots] /\ indexed \in [Workspace -> Snapshots]
    /\ targets \in [Workspace -> {"none", "on", "off"}]
    /\ imports \in [Workspace -> Nat]
    /\ mem \in [up : BOOLEAN, bound : Workspace, storage : Workspace, indexService : Workspace,
                services : Workspace, engine : Snapshots]
    /\ task \in [Thread -> [kind : Kinds, stage : Stages, to : Workspace, of : SUBSET Workspace,
                            snap : Snapshots, locked : BOOLEAN, clash : BOOLEAN]]
    /\ \A t \in Thread : task[t].locked => task[t].stage \in RefreshStages
    /\ collected \in Nat /\ requests \in Nat /\ faults \in Nat
    /\ mixed \subseteq Workspace /\ missed \subseteq Workspace
    /\ behind \in BOOLEAN /\ broken \in BOOLEAN

(* Outside a binding everything that is bound is bound to the workspace the  *)
(* control database names, whatever scans and imports did meanwhile: the      *)
(* attributes of RuntimeState are replaced one by one in _bind_workspace.     *)
(* Except after a binding that raised, until that workspace is bound.        *)
BoundTogether ==
    mem.up /\ WorkspaceLockFree /\ ~ broken
        => control = mem.bound /\ control = mem.storage
              /\ control = mem.indexService /\ control = mem.services

\* One binding at a time.
OneBinding == \A t, u \in Thread : task[t].kind = "bind" /\ task[u].kind = "bind" => t = u

\* A binding is in its own stages or in those of the scan inside it.
StagesOfKinds ==
    \A t \in Thread :
        /\ task[t].stage \in BindStages => task[t].kind = "bind"
        /\ task[t].kind = "bind" => task[t].stage \in BindStages \cup RefreshStages \cup {"wait"}

\* How far a binding has come, attribute by attribute.
BindingSoFar ==
    \A t \in Thread : task[t].kind = "bind" =>
        /\ task[t].to # control => broken
        /\ task[t].stage # "bindStorage" => mem.bound = task[t].to /\ mem.storage = task[t].to
        /\ task[t].stage \notin {"bindStorage", "bindLoad"} => mem.indexService = task[t].to

\* The inductive invariant of bindings: with it BoundTogether survives every step.
\* The code: _bind_workspace, which replaces attribute after attribute.
BindingInv == TypeOK /\ OneBinding /\ StagesOfKinds /\ BindingSoFar /\ BoundTogether

Quiet == mem.up /\ \A t \in Thread : task[t] = Idle

(* When nothing is in progress, there is a newest snapshot of the bound       *)
(* workspace, queries are answered from it, it was collected from that        *)
(* workspace alone and its indexes come from its own engine: after            *)
(* activations, restarts in the middle of a scan, and scans that waited while *)
(* a workspace was bound.  Except where a binding or a refresh without lock   *)
(* ran beside a refresh (mixed, until the next complete one) and after an     *)
(* exception (behind, broken).                                                *)
EngineIsNewest ==
    Quiet /\ mem.bound \notin mixed /\ ~ behind /\ ~ broken
        => /\ stored[mem.bound] # None
           /\ mem.engine = stored[mem.bound] /\ mem.engine = indexed[mem.bound]
           /\ mem.engine.of = {mem.bound}

(* When nothing is in progress, the engine shows every change of an imported  *)
(* source of the bound workspace: an import that found a scan in progress     *)
(* has waited and collected again (_refresh_runtime_snapshot).                *)
ImportsAreShown ==
    Quiet /\ mem.bound \notin mixed \cup missed /\ ~ behind /\ ~ broken
        => mem.engine.saw = imports[mem.bound]

(* An activation ends, with the first scan of a new workspace inside it: that *)
(* takes _scan_lock under _workspace_lock, and nobody takes them the other    *)
(* way round.                                                                 *)
BindingEnds == \A t \in Thread : task[t].kind = "bind" ~> task[t].kind # "bind"
=============================================================================
