----------------------- MODULE WorkspaceRuntime_proofs -----------------------
(* What a process is bound to, for any workspaces and threads.                *)
EXTENDS WorkspaceRuntime, TLAPS

TaskType == [kind : Kinds, stage : Stages, to : Workspace, of : SUBSET Workspace,
             snap : Snapshots, locked : BOOLEAN, clash : BOOLEAN]

(* The records that the actions build have their types. *)
LEMMA ConstantTypes ==
    ASSUME NEW w \in Workspace, NEW kind \in Kinds, NEW stage \in Stages
    PROVE  /\ Task(kind, stage, w) \in TaskType
           /\ Idle \in TaskType
           /\ None \in Snapshots
           /\ Idle.kind = "none" /\ Idle.stage = "idle" /\ ~ Idle.locked
           /\ Task(kind, stage, w).kind = kind /\ Task(kind, stage, w).stage = stage
           /\ Task(kind, stage, w).to = w /\ ~ Task(kind, stage, w).locked
<1>1. None \in Snapshots
  BY DEF None, Snapshots
<1>2. Task(kind, stage, w) \in TaskType
  BY <1>1 DEF Task, TaskType
<1>3. Task("none", "idle", Home) \in TaskType
  BY <1>1, HomeAssumption DEF Task, TaskType, Kinds, Stages
<1> QED
  BY <1>1, <1>2, <1>3 DEF Idle, Task

(* Begin sets the clash marks and starts r; nothing else of a task changes. *)
LEMMA BeginChanges ==
    ASSUME TypeOK, NEW t \in Thread, NEW r \in TaskType, Begin(t, r)
    PROVE  /\ task' \in [Thread -> TaskType]
           /\ mixed' \subseteq Workspace
           /\ task'[t].kind = r.kind /\ task'[t].stage = r.stage
           /\ task'[t].to = r.to /\ task'[t].locked = r.locked
           /\ \A u \in Thread \ {t} :
                 /\ task'[u].kind = task[u].kind /\ task'[u].stage = task[u].stage
                 /\ task'[u].to = task[u].to /\ task'[u].locked = task[u].locked
<1> DEFINE met == Met(t, r)
<1>1. met \subseteq Thread
  BY DEF Met
<1> HIDE DEF met
<1>2. task \in [Thread -> TaskType] /\ mem.storage \in Workspace /\ mixed \subseteq Workspace
  BY DEF TypeOK, TaskType
<1>3. /\ task' = [u \in Thread |->
            IF u = t THEN [r EXCEPT !.clash = (r.clash \/ met # {})]
            ELSE [task[u] EXCEPT !.clash = (task[u].clash \/ u \in met)]]
      /\ mixed' = IF met = {} THEN mixed
                  ELSE mixed \cup {mem.storage} \cup BoundTo(r) \cup UNION {BoundTo(task[u]) : u \in met}
  BY DEF Begin, met
<1>4. ASSUME NEW q \in TaskType, NEW b \in BOOLEAN
      PROVE  /\ [q EXCEPT !.clash = b] \in TaskType
             /\ [q EXCEPT !.clash = b].kind = q.kind /\ [q EXCEPT !.clash = b].stage = q.stage
             /\ [q EXCEPT !.clash = b].to = q.to /\ [q EXCEPT !.clash = b].locked = q.locked
  BY <1>4 DEF TaskType
<1>5. /\ (r.clash \/ met # {}) \in BOOLEAN
      /\ \A u \in Thread : (task[u].clash \/ u \in met) \in BOOLEAN
  OBVIOUS
<1>6. task'[t] = [r EXCEPT !.clash = (r.clash \/ met # {})]
  BY <1>3
<1>7. \A u \in Thread \ {t} : task'[u] = [task[u] EXCEPT !.clash = (task[u].clash \/ u \in met)]
  BY <1>3
<1>8. /\ task'[t] \in TaskType
      /\ task'[t].kind = r.kind /\ task'[t].stage = r.stage
      /\ task'[t].to = r.to /\ task'[t].locked = r.locked
  BY <1>4, <1>5, <1>6
<1>9. ASSUME NEW u \in Thread \ {t}
      PROVE  /\ task'[u] \in TaskType
             /\ task'[u].kind = task[u].kind /\ task'[u].stage = task[u].stage
             /\ task'[u].to = task[u].to /\ task'[u].locked = task[u].locked
  <2> DEFINE b == task[u].clash \/ u \in met
  <2>1. task[u] \in TaskType /\ b \in BOOLEAN
    BY <1>2
  <2>2. task'[u] = [task[u] EXCEPT !.clash = b]
    BY <1>7
  <2> HIDE DEF b
  <2> QED
    BY <2>1, <2>2, <1>4
<1>10. task' \in [Thread -> TaskType]
  <2>1. DOMAIN task' = Thread /\ task' = [u \in Thread |-> task'[u]]
    BY <1>3
  <2> QED
    BY <2>1, <1>8, <1>9
<1>11. mixed' \subseteq Workspace
  <2>1. \A q \in TaskType : BoundTo(q) \subseteq Workspace
    BY DEF BoundTo, TaskType
  <2> QED
    BY <1>1, <1>2, <1>3, <2>1
<1> QED
  BY <1>8, <1>9, <1>10, <1>11

------------------------------------------------------------------------------
(* Types.                                                                     *)

\* A request that only starts a task of its own, or none.
LEMMA RequestTypes ==
    ASSUME TypeOK, NEW t \in Thread, RequestScan(t) \/ Import(t) \/ SetTargets(t)
    PROVE  TypeOK'
<1> USE DEF TypeOK
<1>0. mem.storage \in Workspace
  OBVIOUS
<1>1. CASE RequestScan(t)
  <2>1. Task("scan", "wait", Home) \in TaskType /\ ~ Task("scan", "wait", Home).locked
    BY ConstantTypes, HomeAssumption DEF Kinds, Stages
  <2> QED
    BY <1>1, <2>1 DEF RequestScan, Asked, disk, history, TaskType
<1>2. CASE Import(t)
  <2>1. /\ Task("import", "decide", mem.storage) \in TaskType
        /\ ~ Task("import", "decide", mem.storage).locked
    BY <1>0, ConstantTypes DEF Kinds, Stages
  <2> QED
    BY <1>2, <2>1, <1>0 DEF Import, Asked, history, TaskType
<1>3. CASE SetTargets(t)
  BY <1>3, <1>0 DEF SetTargets, Asked, history
<1> QED
  BY <1>1, <1>2, <1>3

\* A step that begins work.
LEMMA BeginTypes ==
    ASSUME TypeOK, NEW t \in Thread, NEW r \in TaskType, Begin(t, r),
           r.locked => r.stage \in RefreshStages
    PROVE  /\ task' \in [Thread -> TaskType] /\ mixed' \subseteq Workspace
           /\ \A u \in Thread : task'[u].locked => task'[u].stage \in RefreshStages
BY BeginChanges DEF TypeOK, TaskType

LEMMA ScanTypes ==
    ASSUME TypeOK, NEW t \in Thread, DecideRefresh(t) \/ Acquire(t)
    PROVE  TypeOK'
<1> USE DEF TypeOK
<1>0. /\ task[t] \in TaskType /\ mem.storage \in Workspace
      /\ task[t].to \in Workspace
  BY DEF TaskType
<1>1. CASE DecideRefresh(t)
  <2>1. missed' \subseteq Workspace
    BY <1>0, <1>1 DEF DecideRefresh
  <2>2. UNCHANGED <<disk, mem, collected, requests, faults, behind, broken>>
    BY <1>1 DEF DecideRefresh
  <2>3. CASE targets[mem.storage] = "on"
    <3> DEFINE r == [task[t] EXCEPT !.stage = "wait", !.of = {mem.storage}]
    <3>1. task[t].stage = "decide" /\ ~ task[t].locked
      BY <1>1 DEF DecideRefresh, RefreshStages
    <3>2. r \in TaskType /\ ~ r.locked
      BY <1>0, <3>1 DEF TaskType, Stages
    <3>3. task' = [task EXCEPT ![t] = r] /\ mixed' = mixed
      BY <1>1, <2>3 DEF DecideRefresh
    <3> HIDE DEF r
    <3> QED
      BY <2>1, <2>2, <3>2, <3>3 DEF TaskType, disk
  <2>4. CASE targets[mem.storage] # "on"
    <3> DEFINE r == [task[t] EXCEPT !.stage = "collect", !.of = {mem.storage}]
    <3>1. r \in TaskType /\ r.stage \in RefreshStages
      BY <1>0 DEF TaskType, Stages, RefreshStages
    <3>2. Begin(t, r)
      BY <1>1, <2>4 DEF DecideRefresh
    <3> HIDE DEF r
    <3>3. /\ task' \in [Thread -> TaskType] /\ mixed' \subseteq Workspace
          /\ \A u \in Thread : task'[u].locked => task'[u].stage \in RefreshStages
      BY <3>1, <3>2, BeginTypes
    <3> QED
      BY <2>1, <2>2, <3>3 DEF TaskType, disk
  <2> QED
    BY <2>3, <2>4
<1>2. CASE Acquire(t)
  <2> DEFINE r == [task[t] EXCEPT !.stage = "collect", !.of = {mem.storage}, !.locked = TRUE]
  <2>1. r \in TaskType /\ r.stage \in RefreshStages
    BY <1>0 DEF TaskType, Stages, RefreshStages
  <2>2. Begin(t, r) /\ UNCHANGED <<disk, mem, collected, requests, faults, missed, behind, broken>>
    BY <1>2 DEF Acquire
  <2> HIDE DEF r
  <2>3. /\ task' \in [Thread -> TaskType] /\ mixed' \subseteq Workspace
        /\ \A u \in Thread : task'[u].locked => task'[u].stage \in RefreshStages
    BY <2>1, <2>2, BeginTypes
  <2> QED
    BY <2>2, <2>3 DEF TaskType, disk
<1> QED
  BY <1>1, <1>2

LEMMA OffType ==
    /\ Off \in [up : BOOLEAN, bound : Workspace, storage : Workspace, indexService : Workspace,
                services : Workspace, engine : Snapshots]
    /\ ~ Off.up
BY HomeAssumption DEF Off, None, Snapshots

LEMMA GiveUpTypes ==
    ASSUME TypeOK, NEW t \in Thread, GiveUp(t)
    PROVE  /\ task' \in [Thread -> TaskType]
           /\ \A u \in Thread : task'[u].locked => task'[u].stage \in RefreshStages
           /\ mem' \in [up : BOOLEAN, bound : Workspace, storage : Workspace,
                        indexService : Workspace, services : Workspace, engine : Snapshots]
           /\ broken' \in BOOLEAN /\ missed' \subseteq Workspace
<1>1. Idle \in TaskType /\ ~ Idle.locked
  BY ConstantTypes, HomeAssumption DEF Kinds, Stages
<1>2. task \in [Thread -> TaskType] /\ task[t].to \in Workspace
  BY DEF TypeOK, TaskType
<1>3. task' = [task EXCEPT ![t] = Idle]
  BY DEF GiveUp
<1>4. /\ task' \in [Thread -> TaskType]
      /\ \A u \in Thread : task'[u].locked => task'[u].stage \in RefreshStages
  BY <1>1, <1>2, <1>3 DEF TypeOK
<1>5. mem' \in [up : BOOLEAN, bound : Workspace, storage : Workspace,
                indexService : Workspace, services : Workspace, engine : Snapshots]
  BY OffType DEF GiveUp, TypeOK
<1>6. broken' \in BOOLEAN
  BY DEF GiveUp
<1>7. missed' \subseteq Workspace
  BY <1>2 DEF GiveUp, TypeOK
<1> QED
  BY <1>4, <1>5, <1>6, <1>7

LEMMA EndTypes ==
    ASSUME TypeOK, NEW t \in Thread, Refuse(t) \/ Fault(t)
    PROVE  TypeOK'
<1>1. GiveUp(t) /\ UNCHANGED <<disk, collected, requests, mixed>>
  BY DEF Refuse, Fault
<1>2. faults' \in Nat /\ behind' \in BOOLEAN
  <2>1. CASE Refuse(t)
    BY <2>1 DEF Refuse, TypeOK
  <2>2. CASE Fault(t)
    <3>1. behind' \in BOOLEAN
      BY <2>2 DEF Fault
    <3>2. faults' \in Nat
      BY <2>2 DEF Fault, TypeOK
    <3> QED
      BY <3>1, <3>2
  <2> QED
    BY <2>1, <2>2
<1> QED
  BY <1>1, <1>2, GiveUpTypes DEF TypeOK, TaskType, disk
\* A step of a refresh under way.
LEMMA RefreshTypes ==
    ASSUME TypeOK, NEW t \in Thread, Collect(t) \/ Save(t) \/ Swap(t) \/ Index(t)
    PROVE  TypeOK'
<1> USE DEF TypeOK
<1>0. /\ task[t] \in TaskType /\ task[t].snap \in Snapshots
      /\ mem.storage \in Workspace /\ mem.indexService \in Workspace /\ mem.engine \in Snapshots
      /\ None \in Snapshots /\ Idle \in TaskType /\ ~ Idle.locked
  BY ConstantTypes, HomeAssumption DEF TaskType, Kinds, Stages
<1>1. CASE Collect(t)
  <2> DEFINE q == [at |-> collected + 1, of |-> task[t].of \cup {mem.storage},
                   saw |-> imports[mem.storage]]
             r == [task[t] EXCEPT !.stage = "save", !.snap = q]
  <2>1. q \in Snapshots
    BY <1>0 DEF Snapshots, TaskType
  <2>2. task' = [task EXCEPT ![t] = r]
    BY <1>1 DEF Collect
  <2> HIDE DEF q
  <2>3. r \in TaskType /\ r.stage \in RefreshStages
    BY <1>0, <2>1 DEF TaskType, Stages, RefreshStages
  <2> HIDE DEF r
  <2>4. /\ task' \in [Thread -> TaskType]
        /\ \A u \in Thread : task'[u].locked => task'[u].stage \in RefreshStages
    BY <2>2, <2>3 DEF TaskType
  <2>5. collected' \in Nat /\ UNCHANGED <<disk, mem, requests, faults, history>>
    BY <1>1 DEF Collect
  <2> QED
    BY <2>4, <2>5 DEF TaskType, disk, history
<1>2. CASE Save(t)
  <2>1. task' = [task EXCEPT ![t] = [task[t] EXCEPT !.stage = "swap"]]
    BY <1>2 DEF Save, Go
  <2>2. [task[t] EXCEPT !.stage = "swap"] \in TaskType /\ "swap" \in RefreshStages
    BY <1>0 DEF TaskType, Stages, RefreshStages
  <2>3. stored' \in [Workspace -> Snapshots] /\ indexed' \in [Workspace -> Snapshots]
    BY <1>0, <1>2 DEF Save
  <2>4. UNCHANGED <<control, targets, imports, mem, collected, requests, faults, history>>
    BY <1>2 DEF Save
  <2>5. /\ task' \in [Thread -> TaskType]
        /\ \A u \in Thread : task'[u].locked => task'[u].stage \in RefreshStages
    BY <2>1, <2>2 DEF TaskType
  <2> QED
    BY <2>3, <2>4, <2>5 DEF TaskType, history
<1>3. CASE Swap(t)
  <2>1. task' = [task EXCEPT ![t] = [task[t] EXCEPT !.stage = "index"]]
    BY <1>3 DEF Swap, Go
  <2>2. [task[t] EXCEPT !.stage = "index"] \in TaskType /\ "index" \in RefreshStages
    BY <1>0 DEF TaskType, Stages, RefreshStages
  <2>3. /\ task' \in [Thread -> TaskType]
        /\ \A u \in Thread : task'[u].locked => task'[u].stage \in RefreshStages
    BY <2>1, <2>2 DEF TaskType
  <2> QED
    BY <1>0, <1>3, <2>3 DEF Swap, TaskType, disk, history
<1>4. CASE Index(t)
  <2>1. indexed' \in [Workspace -> Snapshots]
    BY <1>0, <1>4 DEF Index, Ensure
  <2>2. mixed' \subseteq Workspace
    BY <1>4 DEF Index, Unmixed
  <2>3. behind' \in BOOLEAN
    BY <1>4 DEF Index
  <2>4. /\ task' \in [Thread -> TaskType]
        /\ \A u \in Thread : task'[u].locked => task'[u].stage \in RefreshStages
    <3> DEFINE r == [task[t] EXCEPT !.stage = "rebuild", !.locked = FALSE]
    <3>1. r \in TaskType /\ ~ r.locked
      BY <1>0 DEF TaskType, Stages, BindStages
    <3>2. task' = [task EXCEPT ![t] = r] \/ task' = [task EXCEPT ![t] = Idle]
      BY <1>4 DEF Index
    <3> HIDE DEF r
    <3> QED
      BY <1>0, <3>1, <3>2 DEF TaskType
  <2>5. UNCHANGED <<control, stored, targets, imports, mem, collected, requests, faults, missed, broken>>
    BY <1>4 DEF Index
  <2> QED
    BY <2>1, <2>2, <2>3, <2>4, <2>5 DEF TaskType
<1> QED
  BY <1>1, <1>2, <1>3, <1>4

\* A binding begins.
LEMMA BindingBeginsTypes ==
    ASSUME TypeOK, NEW t \in Thread, Update(t) \/ Start(t) \/ \E w \in Workspace : Activate(t, w)
    PROVE  TypeOK'
<1> USE DEF TypeOK
<1>0. ASSUME NEW w \in Workspace
      PROVE  Task("bind", "bindStorage", w) \in TaskType /\ ~ Task("bind", "bindStorage", w).locked
  BY ConstantTypes DEF Kinds, Stages, BindStages
<1>1. CASE Update(t)
  <2> DEFINE r == Task("bind", "bindStorage", mem.bound)
  <2>1. r \in TaskType /\ ~ r.locked
    BY <1>0
  <2>2. Begin(t, r) /\ UNCHANGED <<disk, mem, collected, faults, missed, behind, broken>>
    BY <1>1 DEF Update
  <2> HIDE DEF r
  <2>3. requests' \in Nat
    BY <1>1 DEF Update, Asked
  <2>4. /\ task' \in [Thread -> TaskType] /\ mixed' \subseteq Workspace
        /\ \A u \in Thread : task'[u].locked => task'[u].stage \in RefreshStages
    BY <2>1, <2>2, BeginTypes
  <2> QED
    BY <2>2, <2>3, <2>4 DEF TaskType, disk
<1>2. CASE Start(t)
  <2> DEFINE r == Task("bind", "bindStorage", control)
  <2>1. r \in TaskType /\ ~ r.locked
    BY <1>0
  <2>2. task' = [task EXCEPT ![t] = r]
    BY <1>2 DEF Start
  <2> HIDE DEF r
  <2> QED
    BY <1>2, <2>1, <2>2 DEF Start, TaskType, disk, history
<1>3. ASSUME NEW w \in Workspace, Activate(t, w) PROVE TypeOK'
  <2> DEFINE r == Task("bind", "bindStorage", w)
  <2>1. r \in TaskType /\ ~ r.locked
    BY <1>0
  <2>2. /\ Begin(t, r) /\ control' = w
        /\ UNCHANGED <<stored, indexed, targets, imports, mem, collected, faults, missed, behind, broken>>
    BY <1>3 DEF Activate
  <2> HIDE DEF r
  <2>3. requests' \in Nat
    BY <1>3 DEF Activate, Asked
  <2>4. /\ task' \in [Thread -> TaskType] /\ mixed' \subseteq Workspace
        /\ \A u \in Thread : task'[u].locked => task'[u].stage \in RefreshStages
    BY <2>1, <2>2, BeginTypes
  <2> QED
    BY <2>2, <2>3, <2>4 DEF TaskType
<1> QED
  BY <1>1, <1>2, <1>3
\* A binding moves on.
LEMMA BindingTypes ==
    ASSUME TypeOK, NEW t \in Thread, BindStep(t)
    PROVE  TypeOK'
<1> USE DEF TypeOK
<1> DEFINE MemType == [up : BOOLEAN, bound : Workspace, storage : Workspace,
                       indexService : Workspace, services : Workspace, engine : Snapshots]
<1>0. /\ task[t] \in TaskType /\ task[t].to \in Workspace /\ task[t].snap \in Snapshots
      /\ mem.storage \in Workspace /\ stored[mem.storage] \in Snapshots
      /\ Idle \in TaskType /\ ~ Idle.locked
  BY ConstantTypes, HomeAssumption DEF TaskType, Kinds, Stages
<1>1. CASE BindStorage(t)
  <2> DEFINE r == [task[t] EXCEPT !.stage = "bindLoad"]
  <2>1. r \in TaskType /\ ~ r.locked
    BY <1>0, <1>1 DEF BindStorage, TaskType, Stages, BindStages, RefreshStages
  <2>2. task' = [task EXCEPT ![t] = r]
    BY <1>1 DEF BindStorage, Go
  <2>3. mem' \in MemType
    BY <1>0, <1>1 DEF BindStorage
  <2> HIDE DEF r
  <2>4. /\ task' \in [Thread -> TaskType]
        /\ \A u \in Thread : task'[u].locked => task'[u].stage \in RefreshStages
    BY <2>1, <2>2 DEF TaskType
  <2>5. UNCHANGED <<disk, collected, requests, faults, history>>
    BY <1>1 DEF BindStorage
  <2> QED
    BY <2>3, <2>4, <2>5 DEF TaskType, disk, history
<1>2. CASE BindLoad(t)
  <2> DEFINE r == [task[t] EXCEPT !.stage = "bindEngine", !.snap = stored[mem.storage]]
  <2>1. r \in TaskType /\ ~ r.locked
    BY <1>0, <1>2 DEF BindLoad, TaskType, Stages, BindStages, RefreshStages
  <2>2. task' = [task EXCEPT ![t] = r]
    BY <1>2 DEF BindLoad
  <2>3. mem' \in MemType
    BY <1>0, <1>2 DEF BindLoad
  <2> HIDE DEF r
  <2>4. /\ task' \in [Thread -> TaskType]
        /\ \A u \in Thread : task'[u].locked => task'[u].stage \in RefreshStages
    BY <2>1, <2>2 DEF TaskType
  <2>5. targets' \in [Workspace -> {"none", "on", "off"}]
    BY <1>0, <1>2 DEF BindLoad
  <2>6. UNCHANGED <<control, stored, indexed, imports, collected, requests, faults, history>>
    BY <1>2 DEF BindLoad
  <2> QED
    BY <2>3, <2>4, <2>5, <2>6 DEF TaskType, history
<1>3. CASE BindEngine(t)
  <2>1. ASSUME NEW stage \in {"wait", "index"}
        PROVE  [task[t] EXCEPT !.stage = stage] \in TaskType /\ ~ [task[t] EXCEPT !.stage = stage].locked
    BY <1>0, <1>3, <2>1 DEF BindEngine, TaskType, Stages, RefreshStages
  <2>2. PICK stage \in {"wait", "index"} : task' = [task EXCEPT ![t] = [task[t] EXCEPT !.stage = stage]]
    BY <1>3 DEF BindEngine, Go
  <2> DEFINE r == [task[t] EXCEPT !.stage = stage]
  <2>3. r \in TaskType /\ ~ r.locked
    BY <2>1
  <2>4. task' = [task EXCEPT ![t] = r]
    BY <2>2
  <2> HIDE DEF r
  <2>5. /\ task' \in [Thread -> TaskType]
        /\ \A u \in Thread : task'[u].locked => task'[u].stage \in RefreshStages
    BY <2>3, <2>4 DEF TaskType
  <2>6. EmptySnapshot(mem.storage) \in Snapshots
    BY <1>0 DEF EmptySnapshot, Snapshots
  <2>7. mem' \in MemType
    BY <1>0, <1>3, <2>6 DEF BindEngine
  <2>8. UNCHANGED <<disk, collected, requests, faults, history>>
    BY <1>3 DEF BindEngine
  <2> QED
    BY <2>5, <2>7, <2>8 DEF TaskType, disk, history
<1>4. CASE Rebuild(t)
  <2>1. /\ task' \in [Thread -> TaskType]
        /\ \A u \in Thread : task'[u].locked => task'[u].stage \in RefreshStages
    BY <1>0, <1>4 DEF Rebuild, TaskType
  <2>2. mem' \in MemType
    BY <1>0, <1>4 DEF Rebuild
  <2>3. broken' \in BOOLEAN
    BY <1>4 DEF Rebuild
  <2>4. UNCHANGED <<disk, collected, requests, faults, mixed, missed, behind>>
    BY <1>4 DEF Rebuild
  <2> QED
    BY <2>1, <2>2, <2>3, <2>4 DEF TaskType, disk
<1> QED
  BY <1>1, <1>2, <1>3, <1>4 DEF BindStep

LEMMA CrashTypes ==
    ASSUME TypeOK, Crash
    PROVE  TypeOK'
<1>1. Idle \in TaskType /\ ~ Idle.locked
  BY ConstantTypes, HomeAssumption DEF Kinds, Stages
<1>2. /\ task' \in [Thread -> TaskType]
      /\ \A u \in Thread : task'[u].locked => task'[u].stage \in RefreshStages
  BY <1>1 DEF Crash
<1>3. missed' \subseteq Workspace
  BY DEF Crash, TypeOK
<1>4. /\ mem' \in [up : BOOLEAN, bound : Workspace, storage : Workspace, indexService : Workspace,
                    services : Workspace, engine : Snapshots]
      /\ faults' \in Nat
  BY OffType DEF Crash, TypeOK
<1>6. behind' \in BOOLEAN /\ broken' \in BOOLEAN
  BY DEF Crash
<1>5. UNCHANGED <<disk, collected, requests, mixed>>
  BY DEF Crash
<1> QED
  BY <1>2, <1>3, <1>4, <1>5, <1>6 DEF TypeOK, TaskType, disk

LEMMA TypeStep == TypeOK /\ [Next]_vars => TypeOK'
<1> SUFFICES ASSUME TypeOK, [Next]_vars PROVE TypeOK'
  OBVIOUS
<1>1. CASE Crash
  BY <1>1, CrashTypes
<1>2. CASE UNCHANGED vars
  BY <1>2 DEF TypeOK, vars, disk, history
<1>3. ASSUME NEW t \in Thread,
             \/ RequestScan(t) \/ Import(t) \/ SetTargets(t) \/ Acquire(t) \/ RefreshStep(t)
             \/ (\E w \in Workspace : Activate(t, w)) \/ Update(t) \/ Start(t) \/ BindStep(t) \/ Fault(t)
      PROVE  TypeOK'
  <2>1. CASE RequestScan(t) \/ Import(t) \/ SetTargets(t)
    BY <2>1, RequestTypes
  <2>2. CASE DecideRefresh(t) \/ Acquire(t)
    BY <2>2, ScanTypes
  <2>3. CASE Refuse(t) \/ Fault(t)
    BY <2>3, EndTypes
  <2>4. CASE Collect(t) \/ Save(t) \/ Swap(t) \/ Index(t)
    BY <2>4, RefreshTypes
  <2>5. CASE Update(t) \/ Start(t) \/ \E w \in Workspace : Activate(t, w)
    BY <2>5, BindingBeginsTypes
  <2>6. CASE BindStep(t)
    BY <2>6, BindingTypes
  <2> QED
    BY <1>3, <2>1, <2>2, <2>3, <2>4, <2>5, <2>6 DEF RefreshStep
<1> QED
  BY <1>1, <1>2, <1>3 DEF Next
LEMMA InitTypes == Init => TypeOK
<1> SUFFICES ASSUME Init PROVE TypeOK
  OBVIOUS
<1>1. Idle \in TaskType /\ ~ Idle.locked /\ None \in Snapshots
  BY ConstantTypes, HomeAssumption DEF Kinds, Stages
<1>2. task \in [Thread -> TaskType] /\ \A t \in Thread : ~ task[t].locked
  BY <1>1 DEF Init
<1>3. mem = Off /\ control \in Workspace
  BY HomeAssumption DEF Init
<1> QED
  BY <1>1, <1>2, <1>3, OffType DEF Init, TypeOK, TaskType

(* Every reachable state is typed, for any workspaces, threads and bounds.    *)
THEOREM TypeCorrect == Spec => []TypeOK
BY InitTypes, TypeStep, PTL DEF Spec

------------------------------------------------------------------------------
(* What is bound.                                                             *)

\* A step in which no binding begins, ends or assigns an attribute.
LEMMA NothingBound ==
    ASSUME BindingInv, TypeOK',
           control' = control, broken' = broken, mem'.up = mem.up, mem'.bound = mem.bound,
           mem'.storage = mem.storage, mem'.indexService = mem.indexService,
           mem'.services = mem.services,
           \A u \in Thread :
              \/ /\ task[u].kind # "bind" /\ task'[u].kind # "bind"
                 /\ task'[u].stage \notin BindStages
              \/ /\ task[u].kind = "bind" /\ task'[u].kind = "bind" /\ task'[u].to = task[u].to
                 /\ \/ task'[u].stage = task[u].stage
                    \/ /\ task[u].stage \notin {"bindStorage", "bindLoad"}
                       /\ task'[u].stage \in {"wait", "rebuild"} \cup RefreshStages
    PROVE  BindingInv'
<1> USE DEF BindingInv
<1>1. OneBinding'
  BY DEF OneBinding
<1>2. StagesOfKinds'
  BY DEF StagesOfKinds, BindStages, RefreshStages
<1>3. BindingSoFar'
  BY DEF BindingSoFar, RefreshStages
<1>4. WorkspaceLockFree' <=> WorkspaceLockFree
  BY DEF WorkspaceLockFree
<1>5. BoundTogether'
  BY <1>4 DEF BoundTogether
<1> QED
  BY <1>1, <1>2, <1>3, <1>5
\* Requests and refreshes bind nothing.
LEMMA RefreshBindsNothing ==
    ASSUME BindingInv, TypeOK', NEW t \in Thread,
           \/ RequestScan(t) \/ Import(t) \/ SetTargets(t) \/ DecideRefresh(t) \/ Acquire(t)
           \/ Collect(t) \/ Save(t) \/ Swap(t) \/ Index(t)
    PROVE  BindingInv'
<1> USE NothingBound
<1>0. /\ Idle.kind = "none" /\ Idle.stage = "idle" /\ Idle \in TaskType
      /\ task \in [Thread -> TaskType] /\ task[t] \in TaskType /\ mem.storage \in Workspace
  BY ConstantTypes, HomeAssumption DEF Kinds, Stages, BindingInv, TypeOK, TaskType
<1>1. CASE RequestScan(t)
  <2>1. Task("scan", "wait", Home).kind = "scan" /\ Task("scan", "wait", Home).stage = "wait"
    BY DEF Task
  <2> QED
    BY <1>0, <1>1, <2>1 DEF RequestScan, Asked, disk, history, BindStages, TaskType,
                            StagesOfKinds, BindingInv
<1>2. CASE Import(t)
  <2>1. /\ Task("import", "decide", mem.storage).kind = "import"
        /\ Task("import", "decide", mem.storage).stage = "decide"
    BY DEF Task
  <2> QED
    BY <1>0, <1>2, <2>1 DEF Import, Asked, history, BindStages, TaskType, StagesOfKinds, BindingInv
<1>3. CASE SetTargets(t)
  BY <1>3 DEF SetTargets, history, BindStages, StagesOfKinds, BindingInv
<1>4. CASE DecideRefresh(t)
  <2>1. task[t].stage = "decide" /\ task[t].kind # "bind"
    BY <1>4 DEF DecideRefresh, BindingInv, StagesOfKinds, BindStages, RefreshStages
  <2>2. CASE targets[mem.storage] = "on"
    BY <1>0, <1>4, <2>1, <2>2 DEF DecideRefresh, disk, BindStages, TaskType, StagesOfKinds, BindingInv
  <2>3. CASE targets[mem.storage] # "on"
    <3> DEFINE r == [task[t] EXCEPT !.stage = "collect", !.of = {mem.storage}]
    <3>1. r \in TaskType /\ r.stage = "collect" /\ r.kind = task[t].kind
      BY <1>0 DEF TaskType, Stages, RefreshStages
    <3>2. Begin(t, r) /\ UNCHANGED <<disk, mem, collected, requests, faults, behind, broken>>
      BY <1>4, <2>3 DEF DecideRefresh
    <3> HIDE DEF r
    <3>3. /\ task'[t].kind = r.kind /\ task'[t].stage = r.stage
          /\ \A u \in Thread \ {t} :
                task'[u].kind = task[u].kind /\ task'[u].stage = task[u].stage /\ task'[u].to = task[u].to
      BY <3>1, <3>2, BeginChanges DEF BindingInv
    <3> QED
      BY <2>1, <3>1, <3>2, <3>3 DEF disk, BindStages, StagesOfKinds, BindingInv
  <2> QED
    BY <2>2, <2>3
<1>5. CASE Acquire(t)
  <2> DEFINE r == [task[t] EXCEPT !.stage = "collect", !.of = {mem.storage}, !.locked = TRUE]
  <2>1. r \in TaskType /\ r.stage = "collect" /\ r.kind = task[t].kind /\ r.to = task[t].to
    BY <1>0 DEF TaskType, Stages, RefreshStages
  <2>2. /\ Begin(t, r) /\ UNCHANGED <<disk, mem, collected, requests, faults, missed, behind, broken>>
        /\ task[t].stage = "wait"
    BY <1>5 DEF Acquire
  <2> HIDE DEF r
  <2>3. /\ task'[t].kind = r.kind /\ task'[t].stage = r.stage /\ task'[t].to = r.to
        /\ \A u \in Thread \ {t} :
              task'[u].kind = task[u].kind /\ task'[u].stage = task[u].stage /\ task'[u].to = task[u].to
    BY <2>1, <2>2, BeginChanges DEF BindingInv
  <2> QED
    BY <2>1, <2>2, <2>3 DEF disk, BindStages, RefreshStages, StagesOfKinds, BindingInv
<1>6. CASE Collect(t)
  BY <1>0, <1>6 DEF Collect, disk, history, BindStages, RefreshStages, TaskType, StagesOfKinds, BindingInv
<1>7. CASE Save(t)
  BY <1>0, <1>7 DEF Save, Go, history, BindStages, RefreshStages, TaskType, StagesOfKinds, BindingInv
<1>8. CASE Swap(t)
  BY <1>0, <1>8 DEF Swap, Go, disk, history, BindStages, RefreshStages, TaskType, StagesOfKinds,
                    BindingInv, TypeOK
<1>9. CASE Index(t)
  <2>1. CASE task[t].kind = "bind"
    BY <1>0, <1>9, <2>1 DEF Index, BindStages, RefreshStages, TaskType, StagesOfKinds, BindingInv
  <2>2. CASE task[t].kind # "bind"
    BY <1>0, <1>9, <2>2 DEF Index, BindStages, RefreshStages, TaskType, StagesOfKinds, BindingInv
  <2> QED
    BY <2>1, <2>2
<1> QED
  BY <1>1, <1>2, <1>3, <1>4, <1>5, <1>6, <1>7, <1>8, <1>9
\* A binding begins with nothing bound yet, or what was bound before.
LEMMA BeginningsKeep ==
    ASSUME BindingInv, TypeOK', NEW t \in Thread,
           Update(t) \/ Start(t) \/ \E w \in Workspace : Activate(t, w)
    PROVE  BindingInv'
<1> USE DEF BindingInv
<1> DEFINE Named(w) == Task("bind", "bindStorage", w)
<1>0. \A w \in Workspace : /\ Named(w) \in TaskType /\ Named(w).kind = "bind"
                            /\ Named(w).stage = "bindStorage" /\ Named(w).to = w
  BY ConstantTypes DEF Kinds, Stages, BindStages
<1> HIDE DEF Named
<1>1. \A w \in Workspace :
        /\ WorkspaceLockFree
        /\ task'[t].kind = "bind" /\ task'[t].stage = "bindStorage" /\ task'[t].to = w
        /\ \A u \in Thread \ {t} : task'[u].kind = task[u].kind /\ task'[u].stage = task[u].stage
        /\ w # control' => broken'
        => OneBinding' /\ StagesOfKinds' /\ BindingSoFar' /\ BoundTogether'
  BY DEF WorkspaceLockFree, OneBinding, StagesOfKinds, BindingSoFar, BoundTogether, BindStages
<1>2. CASE Update(t)
  <2>1. mem.bound \in Workspace /\ mem.up /\ WorkspaceLockFree /\ Begin(t, Named(mem.bound))
    BY <1>2 DEF Update, Asked, Named, TypeOK
  <2>2. control' = control /\ broken' = broken
    BY <1>2 DEF Update, disk
  <2>3. mem.bound # control => broken
    BY <2>1 DEF BoundTogether
  <2> QED
    BY <1>0, <1>1, <2>1, <2>2, <2>3, BeginChanges
<1>3. CASE Start(t)
  <2>1. /\ control \in Workspace /\ control' = control
        /\ task' = [task EXCEPT ![t] = Named(control)]
        /\ \A u \in Thread : task[u] = Idle
    BY <1>3 DEF Start, Named, TypeOK, disk
  <2>2. WorkspaceLockFree
    BY <2>1 DEF WorkspaceLockFree, Idle, Task
  <2>3. /\ task'[t] = Named(control)
        /\ \A u \in Thread \ {t} : task'[u] = task[u]
    BY <2>1 DEF TypeOK
  <2> QED
    BY <1>0, <1>1, <2>1, <2>2, <2>3
<1>4. ASSUME NEW w \in Workspace, Activate(t, w)
      PROVE  BindingInv'
  <2>1. WorkspaceLockFree /\ Begin(t, Named(w)) /\ control' = w
    BY <1>4 DEF Activate, Named
  <2> QED
    BY <1>0, <1>1, <2>1, BeginChanges
<1> QED
  BY <1>2, <1>3, <1>4

\* Each step of a binding assigns what the next one relies on.
LEMMA BindingsKeep ==
    ASSUME BindingInv, TypeOK', NEW t \in Thread, BindStep(t)
    PROVE  BindingInv'
<1> USE DEF BindingInv
<1>0. /\ task \in [Thread -> TaskType] /\ task[t] \in TaskType
      /\ Idle.kind = "none" /\ Idle.stage = "idle"
      /\ mem.storage \in Workspace
  BY ConstantTypes, HomeAssumption DEF Kinds, Stages, TypeOK, TaskType
<1>a. task[t].kind = "bind"
  BY DEF BindStep, BindStorage, BindLoad, BindEngine, Rebuild, StagesOfKinds, BindStages
<1>b. \A u \in Thread \ {t} : task[u].kind # "bind"
  BY <1>a DEF OneBinding
<1>1. CASE BindStorage(t)
  <2>1. /\ task[t].stage = "bindStorage"
        /\ task' = [task EXCEPT ![t].stage = "bindLoad"]
        /\ mem'.bound = task[t].to /\ mem'.storage = task[t].to
        /\ control' = control /\ broken' = broken
    BY <1>1 DEF BindStorage, Go, disk, history, TypeOK
  <2>2. /\ task'[t].kind = "bind" /\ task'[t].stage = "bindLoad" /\ task'[t].to = task[t].to
        /\ \A u \in Thread \ {t} : task'[u] = task[u]
    BY <1>0, <1>a, <2>1 DEF TaskType
  <2> QED
    BY <1>a, <1>b, <2>1, <2>2
       DEF OneBinding, StagesOfKinds, BindingSoFar, BoundTogether, WorkspaceLockFree, BindStages
<1>2. CASE BindLoad(t)
  <2>1. /\ task[t].stage = "bindLoad"
        /\ mem'.bound = mem.bound /\ mem'.storage = mem.storage /\ mem'.indexService = mem.storage
        /\ control' = control /\ broken' = broken
    BY <1>2 DEF BindLoad, history, TypeOK
  <2>2. /\ task'[t].kind = "bind" /\ task'[t].stage = "bindEngine" /\ task'[t].to = task[t].to
        /\ \A u \in Thread \ {t} : task'[u] = task[u]
    BY <1>0, <1>2, <1>a DEF BindLoad, TaskType
  <2> QED
    BY <1>a, <1>b, <2>1, <2>2
       DEF OneBinding, StagesOfKinds, BindingSoFar, BoundTogether, WorkspaceLockFree, BindStages
<1>3. CASE BindEngine(t)
  <2>1. /\ task[t].stage = "bindEngine"
        /\ mem'.bound = mem.bound /\ mem'.storage = mem.storage
        /\ mem'.indexService = mem.indexService
        /\ control' = control /\ broken' = broken
    BY <1>3 DEF BindEngine, disk, history, TypeOK
  <2>2. /\ task'[t].kind = "bind" /\ task'[t].stage \in {"wait", "index"} /\ task'[t].to = task[t].to
        /\ \A u \in Thread \ {t} : task'[u] = task[u]
    BY <1>0, <1>3, <1>a DEF BindEngine, Go, TaskType
  <2> QED
    BY <1>a, <1>b, <2>1, <2>2
       DEF OneBinding, StagesOfKinds, BindingSoFar, BoundTogether, WorkspaceLockFree, BindStages,
           RefreshStages
<1>4. CASE Rebuild(t)
  <2>1. /\ task[t].stage = "rebuild" /\ control' = control
        /\ mem'.bound = mem.bound /\ mem'.storage = mem.storage
        /\ mem'.indexService = mem.indexService /\ mem'.services = mem.storage
    BY <1>4 DEF Rebuild, disk, TypeOK
  <2>2. task[t].to # control => broken'
    BY <1>4, <1>a DEF Rebuild, BindingSoFar
  <2>3. task'[t] = Idle /\ \A u \in Thread \ {t} : task'[u] = task[u]
    BY <1>0, <1>4 DEF Rebuild
  <2>4. mem.bound = task[t].to /\ mem.storage = task[t].to /\ mem.indexService = task[t].to
    BY <1>a, <2>1 DEF BindingSoFar
  <2>5. OneBinding' /\ StagesOfKinds' /\ BindingSoFar'
    BY <1>0, <1>b, <2>3 DEF OneBinding, StagesOfKinds, BindingSoFar, BindStages
  <2>6. BoundTogether'
    BY <2>1, <2>2, <2>4 DEF BoundTogether
  <2> QED
    BY <2>5, <2>6
<1> QED
  BY <1>1, <1>2, <1>3, <1>4 DEF BindStep

\* An exception: it ends a binding as broken, or a task that bound nothing.
LEMMA EndsKeep ==
    ASSUME BindingInv, TypeOK', NEW t \in Thread, Refuse(t) \/ Fault(t)
    PROVE  BindingInv'
<1> USE DEF BindingInv
<1>0. /\ task \in [Thread -> TaskType]
      /\ Idle.kind = "none" /\ Idle.stage = "idle"
  BY ConstantTypes, HomeAssumption DEF Kinds, Stages, TypeOK, TaskType
<1>1. GiveUp(t) /\ control' = control
  BY DEF Refuse, Fault, disk
<1>2. task'[t] = Idle /\ \A u \in Thread \ {t} : task'[u] = task[u]
  BY <1>0, <1>1 DEF GiveUp
<1>3. CASE task[t].kind = "bind"
  <2>1. broken'
    BY <1>1, <1>3 DEF GiveUp
  <2>2. \A u \in Thread : task'[u].kind # "bind"
    BY <1>0, <1>2, <1>3 DEF OneBinding
  <2> QED
    BY <1>0, <1>2, <2>1, <2>2 DEF OneBinding, StagesOfKinds, BindingSoFar, BoundTogether, BindStages
<1>4. CASE task[t].kind # "bind"
  <2>1. mem' = mem /\ broken' = broken
    BY <1>1, <1>4 DEF GiveUp, TypeOK
  <2> QED
    BY <1>0, <1>1, <1>2, <1>4, <2>1, NothingBound DEF BindStages, StagesOfKinds
<1> QED
  BY <1>3, <1>4

LEMMA BindingStep == BindingInv /\ [Next]_vars => BindingInv'
<1> SUFFICES ASSUME BindingInv, [Next]_vars PROVE BindingInv'
  OBVIOUS
<1>0. TypeOK'
  BY TypeStep DEF BindingInv
<1>1. CASE Crash
  <2>1. mem' = Off /\ ~ Off.up /\ \A t \in Thread : task'[t] = Idle
    BY <1>1, OffType DEF Crash
  <2>2. Idle.kind = "none" /\ Idle.stage = "idle"
    BY DEF Idle, Task
  <2> QED
    BY <1>0, <2>1, <2>2
       DEF BindingInv, OneBinding, StagesOfKinds, BindingSoFar, BoundTogether, BindStages
<1>2. CASE UNCHANGED vars
  BY <1>0, <1>2, NothingBound DEF vars, disk, history, BindingInv, StagesOfKinds, BindStages
<1>3. ASSUME NEW t \in Thread,
             \/ RequestScan(t) \/ Import(t) \/ SetTargets(t) \/ Acquire(t) \/ RefreshStep(t)
             \/ (\E w \in Workspace : Activate(t, w)) \/ Update(t) \/ Start(t) \/ BindStep(t) \/ Fault(t)
      PROVE  BindingInv'
  <2>1. CASE \/ RequestScan(t) \/ Import(t) \/ SetTargets(t) \/ DecideRefresh(t) \/ Acquire(t)
             \/ Collect(t) \/ Save(t) \/ Swap(t) \/ Index(t)
    BY <1>0, <2>1, RefreshBindsNothing
  <2>2. CASE Refuse(t) \/ Fault(t)
    BY <1>0, <2>2, EndsKeep
  <2>3. CASE Update(t) \/ Start(t) \/ \E w \in Workspace : Activate(t, w)
    BY <1>0, <2>3, BeginningsKeep
  <2>4. CASE BindStep(t)
    BY <1>0, <2>4, BindingsKeep
  <2> QED
    BY <1>3, <2>1, <2>2, <2>3, <2>4 DEF RefreshStep
<1> QED
  BY <1>1, <1>2, <1>3 DEF Next

(* Nothing is bound at first. *)
LEMMA InitBinding == Init => BindingInv
<1> SUFFICES ASSUME Init PROVE BindingInv
  OBVIOUS
<1>1. Idle.kind = "none" /\ Idle.stage = "idle" /\ ~ mem.up /\ \A t \in Thread : task[t] = Idle
  BY OffType DEF Init, Idle, Task
<1>2. TypeOK
  BY InitTypes
<1> QED
  BY <1>1, <1>2
     DEF BindingInv, OneBinding, StagesOfKinds, BindingSoFar, BoundTogether, BindStages

(* Bindings follow their discipline for any number of workspaces and threads: *)
(* one at a time, in its own stages, its attributes replaced in order.        *)
THEOREM BindingInvariant == Spec => []BindingInv
BY InitBinding, BindingStep, PTL DEF Spec

(* Outside a binding that has not failed, storage, index service and query    *)
(* services belong to the active workspace, for any number of threads: the    *)
(* attributes of RuntimeState that _bind_workspace replaces one by one.       *)
THEOREM AlwaysBoundTogether == Spec => []BoundTogether
<1>1. BindingInv => BoundTogether
  BY DEF BindingInv
<1> QED
  BY <1>1, BindingInvariant, PTL

------------------------------------------------------------------------------
(* What the engine shows.                                                     *)

\* A binding refreshes only in the scan of a new workspace inside it.
Refreshing(r) == r.kind # "bind" \/ r.locked

\* Work of a thread: whoever is not alone is marked.
MarksOf(t) ==
    /\ task[t].clash => AtWork(task[t])
    /\ ~ mem.up => task[t].stage = "idle" \/ task[t].kind = "bind"
    /\ task[t].kind = "bind" /\ task[t].stage \in {"collect", "save", "swap"} => task[t].locked
    /\ task[t].stage \in {"swap", "index"} => task[t].snap # None
    /\ \A u \in Thread \ {t} : AtWork(task[t]) /\ AtWork(task[u]) => task[t].clash

\* Snapshots are numbered, stored once and not before they are saved.
NumbersOf(t) ==
    task[t].stage = "save" =>
        /\ task[t].snap.at \in 1 .. collected
        /\ \A w \in Workspace : stored[w].at # task[t].snap.at
        /\ \A u \in Thread \ {t} : task[u].stage = "save" => task[u].snap.at # task[t].snap.at

Numbered ==
    \A w \in Workspace :
        /\ stored[w] = None \/ stored[w].at \in 1 .. collected
        /\ \A v \in Workspace \ {w} : stored[w] # None => stored[v] # stored[w]

\* Whatever work that has met other work touches is noted as mixed.
CoveredOf(t) ==
    task[t].clash =>
        /\ mem.storage \in mixed
        /\ BoundTo(task[t]) \subseteq mixed
        /\ task[t].kind = "import" => task[t].to \in mixed \cup missed
        /\ task[t].stage \in {"swap", "index", "bindEngine"} =>
              \A w \in Workspace : stored[w] # None /\ stored[w] = task[t].snap => w \in mixed

\* Changes of the imported sources that a snapshot does not show are followed
\* by an import under way, or one that was cut short.
Owing(w, t) ==
    w \in missed \/ \E u \in Thread \ {t} : task[u].kind = "import" /\ task[u].to = w

\* The engine is the newest snapshot of w.
Shows(w) ==
    /\ stored[w] # None /\ mem.engine = stored[w]
    /\ mem.engine = indexed[w] /\ mem.engine.of = {w}

\* How far work that has met nobody has come.
ProgressOf(t) ==
    AtWork(task[t]) /\ ~ task[t].clash =>
        /\ task[t].stage \in RefreshStages /\ Refreshing(task[t]) => task[t].of = {mem.storage}
        /\ task[t].stage = "save" =>
              /\ task[t].snap.of = {mem.storage}
              /\ \A w \in Workspace : stored[w].at < task[t].snap.at
              /\ task[t].snap.saw = imports[mem.storage] \/ Owing(mem.storage, t)
        /\ task[t].stage \in {"swap", "index", "bindEngine"} => stored[mem.storage] = task[t].snap
        /\ task[t].stage \in {"swap", "index"} /\ Refreshing(task[t]) =>
              /\ task[t].snap.of = {mem.storage}
              /\ task[t].snap.saw = imports[mem.storage] \/ Owing(mem.storage, t)
              /\ indexed[mem.storage] = None
        /\ task[t].stage = "index" => mem.engine = task[t].snap
        /\ task[t].stage = "rebuild" /\ mem.storage \notin mixed => Shows(mem.storage)

\* An import that is not cut short is about the workspace it has read targets of.
ImportOf(t) ==
    task[t].kind = "import" /\ task[t].stage # "decide" /\ task[t].to \notin missed
        => task[t].of = {task[t].to}

\* What the database of an unmixed workspace holds.
DiskOf(w) ==
    /\ indexed[w] = None \/ indexed[w] = stored[w]
    /\ stored[w] = None \/ stored[w].of = {w}
    /\ \/ w \in missed
       \/ \E t \in Thread : task[t].kind = "import" /\ task[t].to = w
       \/ stored[w] = None
       \/ stored[w].saw = imports[w]

Swapping(r) == r.kind = "bind" \/ r.stage \in {"swap", "index"}

EngineFollows ==
    mem.up /\ ~ behind /\ ~ broken /\ mem.storage \notin mixed /\ (\A t \in Thread : ~ Swapping(task[t]))
        => Shows(mem.storage)

Threads == \A t \in Thread : MarksOf(t) /\ NumbersOf(t) /\ CoveredOf(t) /\ ProgressOf(t) /\ ImportOf(t)

FollowInv ==
    BindingInv /\ Threads /\ Numbered /\ (\A w \in Workspace \ mixed : DiskOf(w)) /\ EngineFollows

\* Exactly the others at work are met, and noted.
LEMMA BeginMarks ==
    ASSUME TypeOK, NEW t \in Thread, NEW r \in TaskType, Begin(t, r), AtWork(r),
           r.locked => ScanLockFree
    PROVE  /\ \A u \in Thread \ {t} :
                 /\ task'[u].of = task[u].of /\ task'[u].snap = task[u].snap
                 /\ task'[u].clash = (task[u].clash \/ AtWork(task[u]))
           /\ task'[t].of = r.of /\ task'[t].snap = r.snap
           /\ task'[t].clash = (r.clash \/ \E u \in Thread \ {t} : AtWork(task[u]))
           /\ mixed \subseteq mixed'
           /\ (\E u \in Thread \ {t} : AtWork(task[u])) =>
                 /\ mem.storage \in mixed' /\ BoundTo(r) \subseteq mixed'
                 /\ \A u \in Thread \ {t} : AtWork(task[u]) => BoundTo(task[u]) \subseteq mixed'
           /\ ~ (\E u \in Thread \ {t} : AtWork(task[u])) => mixed' = mixed
<1> DEFINE met == Met(t, r)
<1>1. met = {u \in Thread \ {t} : AtWork(task[u])}
  <2>1. ASSUME NEW u \in Thread \ {t}, AtWork(task[u]) PROVE Unserialised(r) \/ Unserialised(task[u])
    BY <2>1 DEF Unserialised, ScanLockFree
  <2>. QED
    BY <2>1 DEF Met
<1>2. task \in [Thread -> TaskType]
  BY DEF TypeOK, TaskType
<1>3. /\ task' = [u \in Thread |->
            IF u = t THEN [r EXCEPT !.clash = (r.clash \/ met # {})]
            ELSE [task[u] EXCEPT !.clash = (task[u].clash \/ u \in met)]]
      /\ mixed' = IF met = {} THEN mixed
                  ELSE mixed \cup {mem.storage} \cup BoundTo(r) \cup UNION {BoundTo(task[u]) : u \in met}
  BY DEF Begin, met
<1> HIDE DEF met
<1>4. ASSUME NEW q \in TaskType, NEW b
      PROVE  /\ [q EXCEPT !.clash = b].of = q.of /\ [q EXCEPT !.clash = b].snap = q.snap
             /\ [q EXCEPT !.clash = b].clash = b
  BY DEF TaskType
<1>5. \A u \in Thread \ {t} : task'[u] = [task[u] EXCEPT !.clash = (task[u].clash \/ u \in met)]
  BY <1>3
<1>6. task'[t] = [r EXCEPT !.clash = (r.clash \/ met # {})]
  BY <1>3
<1>7. ASSUME NEW u \in Thread \ {t}
      PROVE  /\ task'[u].of = task[u].of /\ task'[u].snap = task[u].snap
             /\ task'[u].clash = (task[u].clash \/ AtWork(task[u]))
  <2> DEFINE b == task[u].clash \/ u \in met
  <2>1. task[u] \in TaskType /\ (u \in met <=> AtWork(task[u]))
    BY <1>1, <1>2
  <2>2. task'[u] = [task[u] EXCEPT !.clash = b]
    BY <1>5
  <2>3. b = (task[u].clash \/ AtWork(task[u]))
    BY <2>1
  <2> HIDE DEF b
  <2>4. /\ [task[u] EXCEPT !.clash = b].of = task[u].of
        /\ [task[u] EXCEPT !.clash = b].snap = task[u].snap
        /\ [task[u] EXCEPT !.clash = b].clash = b
    BY <2>1, <1>4
  <2>. QED
    BY <2>2, <2>3, <2>4
<1>8. /\ task'[t].of = r.of /\ task'[t].snap = r.snap
      /\ task'[t].clash = (r.clash \/ met # {})
  BY <1>4, <1>6
<1>9. met # {} <=> \E u \in Thread \ {t} : AtWork(task[u])
  BY <1>1
<1>10. task'[t].clash = (r.clash \/ \E u \in Thread \ {t} : AtWork(task[u]))
  BY <1>8, <1>9
<1>11. met # {} => \A u \in met : BoundTo(task[u]) \subseteq mixed'
  BY <1>3
<1>. QED
  BY <1>1, <1>3, <1>7, <1>8, <1>9, <1>10, <1>11

\* Work that begins: whom it meets is marked, and what they touch is noted.
LEMMA BeginKeeps ==
    ASSUME FollowInv, BindingInv', NEW t \in Thread, NEW r \in TaskType, Begin(t, r),
           UNCHANGED <<mem, stored, indexed, imports, collected, behind, broken>>,
           missed \subseteq missed',
           AtWork(r), r.clash = task[t].clash, r.locked => ScanLockFree,
           AtWork(task[t]) => task[t].kind = "bind" /\ r.kind = "bind" /\ r.to = task[t].to,
           mem.up \/ r.kind = "bind",
           \/ r.stage = "collect" /\ r.of = {mem.storage} /\ (r.kind = "bind" => r.locked)
           \/ r.stage = "bindStorage" /\ r.kind = "bind",
           r.kind = "import" => r.to = mem.storage \/ r.to \in missed',
           task[t].kind = "import" => r.kind = "import" /\ r.to = task[t].to
    PROVE  FollowInv'
<1>0. TypeOK /\ task[t] \in TaskType /\ TypeOK' /\ AtWork(task'[t]) /\ "collect" \in RefreshStages
  <2>1. TypeOK /\ TypeOK'
    BY DEF FollowInv, BindingInv
  <2>2. task'[t].kind = r.kind /\ task'[t].stage = r.stage
    BY <2>1, BeginChanges
  <2>. QED
    BY <2>1, <2>2 DEF AtWork, TypeOK, TaskType, RefreshStages
<1> DEFINE others == \E u \in Thread \ {t} : AtWork(task[u])
<1>1. /\ \A u \in Thread \ {t} :
           /\ task'[u].kind = task[u].kind /\ task'[u].stage = task[u].stage
           /\ task'[u].to = task[u].to /\ task'[u].locked = task[u].locked
           /\ task'[u].of = task[u].of /\ task'[u].snap = task[u].snap
           /\ task'[u].clash = (task[u].clash \/ AtWork(task[u]))
           /\ AtWork(task'[u]) = AtWork(task[u])
      /\ task'[t].kind = r.kind /\ task'[t].stage = r.stage
      /\ task'[t].to = r.to /\ task'[t].locked = r.locked
      /\ task'[t].of = r.of /\ task'[t].snap = r.snap
      /\ task'[t].clash = (r.clash \/ others)
  BY <1>0, BeginChanges, BeginMarks DEF AtWork
<1>2. /\ mixed \subseteq mixed'
      /\ others => /\ mem.storage \in mixed' /\ BoundTo(r) \subseteq mixed'
                    /\ \A u \in Thread \ {t} : AtWork(task[u]) => BoundTo(task[u]) \subseteq mixed'
      /\ ~ others => mixed' = mixed
  BY <1>0, BeginMarks
<1>3. \A u \in Thread : MarksOf(u) /\ NumbersOf(u) /\ CoveredOf(u) /\ ProgressOf(u) /\ ImportOf(u)
  BY DEF FollowInv, Threads
<1>4. task[t].clash => AtWork(task[t])
  BY <1>3 DEF MarksOf
<1>5. \A u \in Thread : MarksOf(u)'
  <2> SUFFICES ASSUME NEW u \in Thread PROVE MarksOf(u)'
    OBVIOUS
  <2>1. CASE u = t
    BY <1>0, <1>1, <1>2, <2>1 DEF MarksOf
  <2>2. CASE u # t
    <3>1. ASSUME NEW v \in Thread \ {u}, AtWork(task'[u]), AtWork(task'[v]) PROVE task'[u].clash
      BY <1>1, <2>2, <3>1
    <3>2. /\ ~ mem.up => task[u].stage = "idle" \/ task[u].kind = "bind"
          /\ task[u].kind = "bind" /\ task[u].stage \in {"collect", "save", "swap"} => task[u].locked
          /\ task[u].stage \in {"swap", "index"} => task[u].snap # None
          /\ task[u].clash => AtWork(task[u])
      BY <1>3 DEF MarksOf
    <3>3. /\ ~ mem'.up => task'[u].stage = "idle" \/ task'[u].kind = "bind"
          /\ task'[u].kind = "bind" /\ task'[u].stage \in {"collect", "save", "swap"} => task'[u].locked
          /\ task'[u].stage \in {"swap", "index"} => task'[u].snap # None
          /\ task'[u].clash => AtWork(task'[u])
      BY <1>1, <2>2, <3>2
    <3>. QED
      BY <3>1, <3>3 DEF MarksOf
  <2>. QED
    BY <2>1, <2>2
<1>6. \A u \in Thread : NumbersOf(u)'
  <2> SUFFICES ASSUME NEW u \in Thread PROVE NumbersOf(u)'
    OBVIOUS
  <2>1. r.stage # "save"
    OBVIOUS
  <2>. QED
    BY <1>1, <1>3, <2>1 DEF NumbersOf
<1>7. \A u \in Thread : ImportOf(u)'
  <2> SUFFICES ASSUME NEW u \in Thread PROVE ImportOf(u)'
    OBVIOUS
  <2>. QED
    BY <1>1, <1>3 DEF ImportOf
<1>8. \A u \in Thread : CoveredOf(u)'
  <2> SUFFICES ASSUME NEW u \in Thread, task'[u].clash PROVE CoveredOf(u)'
    BY DEF CoveredOf
  <2>1. CASE u = t
    <3>1. mem.storage \in mixed' /\ BoundTo(r) \subseteq mixed'
      <4>1. CASE others
        BY <1>2, <4>1
      <4>2. CASE ~ others
        <5>1. task[t].clash
          BY <1>1, <2>1, <4>2
        <5>2. BoundTo(r) = BoundTo(task[t])
          BY <5>1, <1>4 DEF BoundTo
        <5>. QED
          BY <5>1, <5>2, <1>2, <1>3 DEF CoveredOf
      <4>. QED
        BY <4>1, <4>2
    <3>2. BoundTo(task'[t]) = BoundTo(r)
      BY <1>1 DEF BoundTo
    <3>. QED
      BY <1>1, <2>1, <3>1, <3>2 DEF CoveredOf
  <2>2. CASE u # t /\ task[u].clash
    <3>1. BoundTo(task'[u]) = BoundTo(task[u])
      BY <1>1, <2>2 DEF BoundTo
    <3>. QED
      BY <1>1, <1>2, <1>3, <2>2, <3>1 DEF CoveredOf
  <2>3. CASE u # t /\ ~ task[u].clash
    <3>1. AtWork(task[u]) /\ others /\ ProgressOf(u) /\ ImportOf(u)
      BY <1>1, <1>3, <2>3
    <3>2. BoundTo(task'[u]) = BoundTo(task[u])
      BY <1>1, <2>3 DEF BoundTo
    <3>3. task[u].kind = "import" => task[u].to \in mixed' \cup missed'
      BY <3>1, <2>3, <1>2 DEF ProgressOf, ImportOf, AtWork, RefreshStages, Refreshing
    <3>4. ASSUME task[u].stage \in {"swap", "index", "bindEngine"}, NEW w \in Workspace,
                 stored[w] # None, stored[w] = task[u].snap
          PROVE  w \in mixed'
      <4>1. stored[mem.storage] = stored[w] /\ mem.storage \in Workspace
        BY <3>1, <3>4, <2>3, <1>0 DEF ProgressOf, TypeOK
      <4>2. w = mem.storage
        BY <3>4, <4>1 DEF FollowInv, Numbered
      <4>. QED
        BY <3>1, <4>2, <1>2
    <3>. QED
      BY <1>1, <1>2, <2>3, <3>1, <3>2, <3>3, <3>4 DEF CoveredOf
  <2>. QED
    BY <2>1, <2>2, <2>3
<1>9. \A w, u : Owing(w, u) /\ u \in Thread => Owing(w, u)'
  <2>1. \A u \in Thread : task[u].kind = "import" => task'[u].kind = "import" /\ task'[u].to = task[u].to
    BY <1>1
  <2>. QED
    BY <2>1 DEF Owing
<1>10. \A u \in Thread : ProgressOf(u)'
  <2> SUFFICES ASSUME NEW u \in Thread, AtWork(task'[u]), ~ task'[u].clash PROVE ProgressOf(u)'
    BY DEF ProgressOf
  <2>1. CASE u = t
    BY <1>1, <2>1 DEF ProgressOf, RefreshStages
  <2>2. CASE u # t
    <3>1. AtWork(task[u])
      BY <1>1, <2>2
    <3>2. task'[u].clash
      BY <1>1, <2>2, <3>1
    <3>. QED
      BY <3>2
  <2>. QED
    BY <2>1, <2>2
<1>11. Numbered'
  BY DEF FollowInv, Numbered
<1>12. \A w \in Workspace \ mixed' : DiskOf(w)'
  <2> SUFFICES ASSUME NEW w \in Workspace \ mixed' PROVE DiskOf(w)'
    OBVIOUS
  <2>1. DiskOf(w)
    BY <1>2 DEF FollowInv
  <2>2. \A u \in Thread : task[u].kind = "import" => task'[u].kind = "import" /\ task'[u].to = task[u].to
    BY <1>1
  <2>. QED
    BY <2>1, <2>2 DEF DiskOf
<1>13. EngineFollows'
  <2> SUFFICES ASSUME mem.up, ~ behind, ~ broken, mem.storage \notin mixed',
                      \A u \in Thread : ~ Swapping(task'[u])
               PROVE  Shows(mem.storage)'
    BY DEF EngineFollows
  <2>1. ~ Swapping(task[t])
    <3>1. task'[t].kind # "bind"
      BY DEF Swapping
    <3>. QED
      BY <3>1, <1>1 DEF Swapping, AtWork, RefreshStages
  <2>2. \A u \in Thread : ~ Swapping(task[u])
    BY <1>1, <2>1 DEF Swapping
  <2>. QED
    BY <2>2, <1>2 DEF FollowInv, EngineFollows, Shows
<1>. QED
  BY <1>5, <1>6, <1>7, <1>8, <1>10, <1>11, <1>12, <1>13 DEF FollowInv, Threads

\* A step beside all work: a thread that is not at work stays so.
LEMMA AsideKeeps ==
    ASSUME FollowInv, BindingInv', NEW t \in Thread,
           UNCHANGED <<mem, stored, indexed, collected, mixed, behind, broken>>,
           missed \subseteq missed',
           \A u \in Thread \ {t} : task'[u] = task[u],
           ~ AtWork(task[t]), ~ AtWork(task'[t]), ~ task'[t].clash,
           mem.up \/ task'[t].stage = "idle",
           task'[t].kind = "import" /\ task'[t].stage # "decide" =>
              task'[t].of = {task'[t].to} \/ task'[t].to \in missed',
           task[t].kind = "import" =>
              \/ task'[t].kind = "import" /\ task'[t].to = task[t].to
              \/ task[t].to \in missed',
           \A w \in Workspace : imports'[w] = imports[w] \/ (task'[t].kind = "import" /\ task'[t].to = w)
    PROVE  FollowInv'
<1>1. task'[t].kind # "bind" /\ task'[t].stage \notin RefreshStages /\ task[t].kind # "bind"
  BY DEF AtWork, RefreshStages
<1>2. \A u \in Thread : MarksOf(u) /\ NumbersOf(u) /\ CoveredOf(u) /\ ProgressOf(u) /\ ImportOf(u)
  BY DEF FollowInv, Threads
<1>3. \A u \in Thread : MarksOf(u)'
  <2> SUFFICES ASSUME NEW u \in Thread PROVE MarksOf(u)'
    OBVIOUS
  <2>1. CASE u = t
    BY <1>1, <2>1 DEF MarksOf, RefreshStages
  <2>2. CASE u # t
    BY <1>2, <2>2 DEF MarksOf
  <2>. QED
    BY <2>1, <2>2
<1>4. \A u \in Thread : NumbersOf(u)'
  BY <1>1, <1>2 DEF NumbersOf, RefreshStages
<1>5. \A u \in Thread : CoveredOf(u)'
  <2> SUFFICES ASSUME NEW u \in Thread, task'[u].clash PROVE CoveredOf(u)'
    BY DEF CoveredOf
  <2>1. u # t /\ task'[u] = task[u]
    OBVIOUS
  <2>. QED
    BY <1>2, <2>1 DEF CoveredOf
<1>6. \A u \in Thread \ {t} : Owing(mem.storage, u) => Owing(mem.storage, u)'
  BY DEF Owing
<1>7. mem.storage \in Workspace
  BY DEF FollowInv, BindingInv, TypeOK
<1>8. \A u \in Thread : ProgressOf(u)'
  <2> SUFFICES ASSUME NEW u \in Thread, AtWork(task'[u]), ~ task'[u].clash PROVE ProgressOf(u)'
    BY DEF ProgressOf
  <2>1. u # t /\ task'[u] = task[u] /\ ProgressOf(u)
    BY <1>2
  <2>2. task[u].snap.saw = imports[mem.storage] \/ Owing(mem.storage, u)
           => task[u].snap.saw = imports'[mem.storage] \/ Owing(mem.storage, u)'
    BY <1>6, <1>7, <2>1 DEF Owing
  <2>3. Shows(mem.storage) => Shows(mem.storage)'
    BY DEF Shows
  <2>. QED
    BY <2>1, <2>2, <2>3 DEF ProgressOf, Refreshing
<1>9. \A u \in Thread : ImportOf(u)'
  BY <1>1, <1>2 DEF ImportOf
<1>10. Numbered'
  BY DEF FollowInv, Numbered
<1>11. \A w \in Workspace \ mixed' : DiskOf(w)'
  <2> SUFFICES ASSUME NEW w \in Workspace \ mixed' PROVE DiskOf(w)'
    OBVIOUS
  <2>1. DiskOf(w)
    BY DEF FollowInv
  <2>2. (\E u \in Thread : task[u].kind = "import" /\ task[u].to = w)
           => w \in missed' \/ \E u \in Thread : task'[u].kind = "import" /\ task'[u].to = w
    OBVIOUS
  <2>. QED
    BY <2>1, <2>2 DEF DiskOf
<1>12. EngineFollows'
  <2>1. ~ Swapping(task[t])
    BY DEF Swapping, AtWork, RefreshStages
  <2>2. (\A u \in Thread : ~ Swapping(task'[u])) => \A u \in Thread : ~ Swapping(task[u])
    BY <2>1
  <2>3. Shows(mem.storage) => Shows(mem.storage)'
    BY DEF Shows
  <2>. QED
    BY <2>2, <2>3 DEF FollowInv, EngineFollows
<1>. QED
  BY <1>3, <1>4, <1>5, <1>8, <1>9, <1>10, <1>11, <1>12 DEF FollowInv, Threads

\* What a step of a thread at work leaves alone: whoever is at work beside it
\* is marked, so nothing is claimed of its progress.
LEMMA OthersKeep ==
    ASSUME FollowInv, NEW t \in Thread, AtWork(task[t]),
           \A u \in Thread \ {t} : task'[u] = task[u],
           mem.up => mem'.up, missed \subseteq missed', collected \in Nat, collected' \in Nat,
           collected' >= collected,
           (\E u \in Thread \ {t} : task[u].clash) =>
              /\ mixed \subseteq mixed' /\ mem'.storage \in mixed'
              /\ \A w \in Workspace : stored'[w] = stored[w] \/ w \in mixed',
           \A w \in Workspace :
              stored'[w] = stored[w]
              \/ (task[t].stage = "save" /\ stored'[w] = task[t].snap),
           task'[t].stage = "save" => task'[t].snap.at \notin 1 .. collected
    PROVE  \A u \in Thread \ {t} : MarksOf(u)' /\ NumbersOf(u)' /\ CoveredOf(u)' /\ ProgressOf(u)' /\ ImportOf(u)'
<1> SUFFICES ASSUME NEW u \in Thread \ {t}
             PROVE  MarksOf(u)' /\ NumbersOf(u)' /\ CoveredOf(u)' /\ ProgressOf(u)' /\ ImportOf(u)'
  OBVIOUS
<1>1. /\ MarksOf(u) /\ NumbersOf(u) /\ CoveredOf(u) /\ ProgressOf(u) /\ ImportOf(u)
      /\ NumbersOf(t) /\ task'[u] = task[u]
  BY DEF FollowInv, Threads
<1>2. AtWork(task[u]) => task[u].clash
  BY <1>1 DEF MarksOf
<1>3. MarksOf(u)'
  BY <1>1, <1>2 DEF MarksOf
<1>4. NumbersOf(u)'
  <2> SUFFICES ASSUME task[u].stage = "save" PROVE NumbersOf(u)'
    BY <1>1 DEF NumbersOf
  <2>1. task[u].snap.at \in 1 .. collected /\ task[u].snap.at \in 1 .. collected'
    BY <1>1 DEF NumbersOf
  <2>2. \A w \in Workspace : stored'[w].at # task[u].snap.at
    BY <1>1 DEF NumbersOf
  <2>3. \A v \in Thread \ {u} : task'[v].stage = "save" => task'[v].snap.at # task[u].snap.at
    <3> SUFFICES ASSUME NEW v \in Thread \ {u}, task'[v].stage = "save"
                 PROVE  task'[v].snap.at # task[u].snap.at
      OBVIOUS
    <3>1. CASE v = t
      BY <2>1, <3>1
    <3>2. CASE v # t
      BY <1>1, <3>2 DEF NumbersOf
    <3>. QED
      BY <3>1, <3>2
  <2>. QED
    BY <1>1, <2>1, <2>2, <2>3 DEF NumbersOf
<1>5. CoveredOf(u)'
  <2> SUFFICES ASSUME task[u].clash PROVE CoveredOf(u)'
    BY <1>1 DEF CoveredOf
  <2>. QED
    BY <1>1 DEF CoveredOf
<1>6. ProgressOf(u)'
  BY <1>1, <1>2 DEF ProgressOf
<1>7. ImportOf(u)'
  BY <1>1 DEF ImportOf
<1>. QED
  BY <1>3, <1>4, <1>5, <1>6, <1>7

\* A thread that gives up its work.
LEMMA GiveUpKeeps ==
    ASSUME FollowInv, BindingInv', NEW t \in Thread, GiveUp(t), AtWork(task[t]),
           UNCHANGED <<stored, indexed, imports, collected, mixed>>,
           behind => behind', behind' \/ broken' \/ ~ Swapping(task[t])
    PROVE  FollowInv'
<1>1. /\ task \in [Thread -> TaskType] /\ collected \in Nat /\ mem.storage \in Workspace
      /\ Idle.kind = "none" /\ Idle.stage = "idle" /\ ~ Idle.clash /\ ~ AtWork(Idle)
  BY DEF FollowInv, BindingInv, TypeOK, TaskType, Idle, Task, AtWork, RefreshStages
<1>2. task'[t] = Idle /\ \A u \in Thread \ {t} : task'[u] = task[u]
  BY <1>1 DEF GiveUp
<1>3. /\ missed \subseteq missed'
      /\ task[t].kind = "import" => task[t].to \in missed'
      /\ broken => broken'
  BY DEF GiveUp
<1>4. MarksOf(t)' /\ NumbersOf(t)' /\ CoveredOf(t)' /\ ProgressOf(t)' /\ ImportOf(t)'
  BY <1>1, <1>2 DEF MarksOf, NumbersOf, CoveredOf, ProgressOf, ImportOf
<1>5. \A u \in Thread : MarksOf(u) /\ NumbersOf(u) /\ CoveredOf(u) /\ ProgressOf(u) /\ ImportOf(u)
  BY DEF FollowInv, Threads
<1>6. \A u \in Thread \ {t} : MarksOf(u)' /\ NumbersOf(u)' /\ CoveredOf(u)' /\ ProgressOf(u)' /\ ImportOf(u)'
  <2>1. CASE task[t].kind = "bind" /\ ~ mem.up
    <3>1. ASSUME NEW u \in Thread \ {t} PROVE task'[u].stage = "idle" /\ ~ task'[u].clash /\ ~ AtWork(task'[u])
      <4>1. task[u].kind # "bind"
        BY <2>1 DEF FollowInv, BindingInv, OneBinding
      <4>2. task[u].stage = "idle" /\ ~ AtWork(task[u])
        BY <1>5, <2>1, <4>1 DEF MarksOf, AtWork, RefreshStages
      <4>. QED
        BY <1>2, <1>5, <4>2 DEF MarksOf
    <3>. QED
      BY <1>1, <1>2, <1>3, <1>5, <3>1 DEF MarksOf, NumbersOf, CoveredOf, ProgressOf, ImportOf
  <2>2. CASE ~ (task[t].kind = "bind" /\ ~ mem.up)
    <3>1. mem' = mem
      BY <2>2 DEF GiveUp
    <3>2. \A u \in Thread \ {t} : task[u].clash => mem.storage \in mixed
      BY <1>5 DEF CoveredOf
    <3>. QED
      BY <1>1, <1>2, <1>3, <3>1, <3>2, OthersKeep
  <2>. QED
    BY <2>1, <2>2
<1>7. Numbered'
  BY DEF FollowInv, Numbered
<1>8. \A w \in Workspace \ mixed' : DiskOf(w)'
  <2> SUFFICES ASSUME NEW w \in Workspace \ mixed' PROVE DiskOf(w)'
    OBVIOUS
  <2>1. DiskOf(w)
    BY DEF FollowInv
  <2>2. (\E u \in Thread : task[u].kind = "import" /\ task[u].to = w)
           => w \in missed' \/ \E u \in Thread : task'[u].kind = "import" /\ task'[u].to = w
    BY <1>2, <1>3
  <2>. QED
    BY <1>3, <2>1, <2>2 DEF DiskOf
<1>9. EngineFollows'
  <2> SUFFICES ASSUME mem'.up, ~ behind', ~ broken', mem'.storage \notin mixed',
                      \A u \in Thread : ~ Swapping(task'[u])
               PROVE  Shows(mem.storage)'
    BY DEF EngineFollows
  <2>1. \A u \in Thread : ~ Swapping(task[u])
    BY <1>2
  <2>2. mem' = mem
    BY <2>1 DEF GiveUp, Swapping
  <2>. QED
    BY <1>3, <2>1, <2>2 DEF FollowInv, EngineFollows, Shows
<1>. QED
  BY <1>4, <1>6, <1>7, <1>8, <1>9 DEF FollowInv, Threads

\* What a thread at work relies on.
LEMMA WorkFacts ==
    ASSUME FollowInv, NEW t \in Thread
    PROVE  /\ task \in [Thread -> TaskType] /\ task[t] \in TaskType
           /\ mem.storage \in Workspace /\ mem.indexService \in Workspace /\ collected \in Nat
           /\ task[t].locked => task[t].stage \in RefreshStages
           /\ MarksOf(t) /\ NumbersOf(t) /\ CoveredOf(t) /\ ProgressOf(t) /\ ImportOf(t)
           /\ task[t].clash \in BOOLEAN
           /\ \A u \in Thread \ {t} : task[u].clash => mem.storage \in mixed
           /\ ~ task[t].clash /\ AtWork(task[t]) => \A u \in Thread \ {t} : ~ AtWork(task[u]) /\ ~ task[u].clash
<1>1. /\ task \in [Thread -> TaskType] /\ collected \in Nat
      /\ mem.storage \in Workspace /\ mem.indexService \in Workspace
      /\ task[t].locked => task[t].stage \in RefreshStages
  BY DEF FollowInv, BindingInv, TypeOK, TaskType
<1>2. task[t] \in TaskType /\ task[t].clash \in BOOLEAN
  BY <1>1 DEF TaskType
<1>3. \A u \in Thread : MarksOf(u) /\ NumbersOf(u) /\ CoveredOf(u) /\ ProgressOf(u) /\ ImportOf(u)
  BY DEF FollowInv, Threads
<1>4. \A u \in Thread \ {t} : task[u].clash => mem.storage \in mixed
  BY <1>3 DEF CoveredOf
<1>5. ~ task[t].clash /\ AtWork(task[t]) => \A u \in Thread \ {t} : ~ AtWork(task[u]) /\ ~ task[u].clash
  BY <1>3 DEF MarksOf
<1>. QED
  BY <1>1, <1>2, <1>3, <1>4, <1>5

\* A collection is newer than all that is stored.
LEMMA CollectKeeps ==
    ASSUME FollowInv, BindingInv', NEW t \in Thread, Collect(t)
    PROVE  FollowInv'
<1> DEFINE q == [at  |-> collected + 1, of  |-> task[t].of \cup {mem.storage}, saw |-> imports[mem.storage]]
<1>1. /\ task[t].stage = "collect" /\ collected' = collected + 1
      /\ task' = [task EXCEPT ![t].stage = "save", ![t].snap = q]
      /\ UNCHANGED <<stored, indexed, imports, mem, mixed, missed, behind, broken>>
  BY DEF Collect, disk, history
<1>2. /\ q.at = collected + 1 /\ q.of = task[t].of \cup {mem.storage} /\ q.saw = imports[mem.storage]
  OBVIOUS
<1> HIDE DEF q
<1>3. /\ task'[t].stage = "save" /\ task'[t].snap = q /\ task'[t].kind = task[t].kind
      /\ task'[t].to = task[t].to /\ task'[t].of = task[t].of /\ task'[t].locked = task[t].locked
      /\ task'[t].clash = task[t].clash
      /\ \A u \in Thread \ {t} : task'[u] = task[u]
  BY <1>1, WorkFacts DEF TaskType
<1>4. AtWork(task[t]) /\ AtWork(task'[t])
  BY <1>1, <1>3 DEF AtWork, RefreshStages
<1>5. \A w \in Workspace : stored[w].at <= collected
  BY WorkFacts DEF FollowInv, Numbered, None
<1>6. \A u \in Thread \ {t} : MarksOf(u)' /\ NumbersOf(u)' /\ CoveredOf(u)' /\ ProgressOf(u)' /\ ImportOf(u)'
  <2>1. q.at \notin 1 .. collected
    BY <1>2, WorkFacts
  <2>2. collected' \in Nat /\ collected' >= collected
    BY <1>1, WorkFacts
  <2>. QED
    BY <1>1, <1>3, <1>4, <2>1, <2>2, WorkFacts, OthersKeep
<1>7. MarksOf(t)'
  BY <1>1, <1>3, <1>4, WorkFacts DEF MarksOf
<1>8. NumbersOf(t)'
  <2>1. \A w \in Workspace : stored[w].at # q.at
    BY <1>2, <1>5, WorkFacts DEF FollowInv, BindingInv, TypeOK, Snapshots
  <2>2. \A u \in Thread \ {t} : task[u].stage = "save" => task[u].snap.at # q.at
    <3> SUFFICES ASSUME NEW u \in Thread \ {t}, task[u].stage = "save" PROVE task[u].snap.at # q.at
      OBVIOUS
    <3>1. NumbersOf(u)
      BY WorkFacts
    <3>. QED
      BY <1>2, <3>1, WorkFacts DEF NumbersOf
  <2>3. q.at \in 1 .. collected'
    BY <1>1, <1>2, WorkFacts
  <2>. QED
    BY <1>1, <1>3, <2>1, <2>2, <2>3 DEF NumbersOf
<1>9. CoveredOf(t)'
  <2>1. BoundTo(task'[t]) = BoundTo(task[t])
    BY <1>3 DEF BoundTo
  <2>. QED
    BY <1>1, <1>3, <2>1, WorkFacts DEF CoveredOf
<1>10. ProgressOf(t)'
  <2> SUFFICES ASSUME ~ task[t].clash PROVE ProgressOf(t)'
    BY <1>3 DEF ProgressOf
  <2>1. Refreshing(task[t]) /\ task[t].of = {mem.storage}
    BY <1>1, <1>4, WorkFacts DEF MarksOf, ProgressOf, Refreshing, RefreshStages
  <2>2. q.of = {mem.storage} /\ q.saw = imports[mem.storage]
    BY <1>2, <2>1
  <2>3. \A w \in Workspace : stored[w].at < q.at
    BY <1>2, <1>5, WorkFacts DEF FollowInv, BindingInv, TypeOK, Snapshots
  <2>. QED
    BY <1>1, <1>3, <2>1, <2>2, <2>3 DEF ProgressOf
<1>11. ImportOf(t)'
  BY <1>1, <1>3, WorkFacts DEF ImportOf
<1>12. Numbered'
  BY <1>1, WorkFacts DEF FollowInv, Numbered
<1>13. \A w \in Workspace \ mixed' : DiskOf(w)'
  <2> SUFFICES ASSUME NEW w \in Workspace \ mixed PROVE DiskOf(w)'
    BY <1>1
  <2>1. \A u \in Thread : task'[u].kind = task[u].kind /\ task'[u].to = task[u].to
    BY <1>3
  <2>. QED
    BY <1>1, <2>1 DEF FollowInv, DiskOf
<1>14. EngineFollows'
  <2>1. (\A u \in Thread : ~ Swapping(task'[u])) => \A u \in Thread : ~ Swapping(task[u])
    BY <1>1, <1>3 DEF Swapping
  <2>2. Shows(mem.storage) => Shows(mem.storage)'
    BY <1>1 DEF Shows
  <2>. QED
    BY <1>1, <2>1, <2>2 DEF FollowInv, EngineFollows
<1>. QED
  BY <1>6, <1>7, <1>8, <1>9, <1>10, <1>11, <1>12, <1>13, <1>14 DEF FollowInv, Threads

\* A snapshot is saved where the storage is by now, as the newest one unless it
\* has been overtaken.
LEMMA SaveKeeps ==
    ASSUME FollowInv, BindingInv', NEW t \in Thread, Save(t)
    PROVE  FollowInv'
<1> DEFINE s == mem.storage
           newest == task[t].snap.at > stored[s].at
<1>1. /\ task[t].stage = "save" /\ task' = [task EXCEPT ![t].stage = "swap"]
      /\ newest => /\ stored' = [stored EXCEPT ![s] = task[t].snap]
                   /\ indexed' = [indexed EXCEPT ![s] = None]
      /\ ~ newest => stored' = stored /\ indexed' = indexed
      /\ UNCHANGED <<imports, mem, collected, mixed, missed, behind, broken>>
  BY DEF Save, Go, history
<1>2. /\ task'[t].stage = "swap" /\ task'[t].snap = task[t].snap /\ task'[t].kind = task[t].kind
      /\ task'[t].to = task[t].to /\ task'[t].of = task[t].of /\ task'[t].locked = task[t].locked
      /\ task'[t].clash = task[t].clash
      /\ \A u \in Thread \ {t} : task'[u] = task[u]
  BY <1>1, WorkFacts DEF TaskType
<1>3. AtWork(task[t]) /\ AtWork(task'[t])
  BY <1>1, <1>2 DEF AtWork, RefreshStages
<1>4. /\ s \in Workspace /\ stored \in [Workspace -> Snapshots] /\ indexed \in [Workspace -> Snapshots]
      /\ task[t].snap.at \in 1 .. collected /\ task[t].snap # None
      /\ \A w \in Workspace : stored[w].at # task[t].snap.at /\ stored[w] # task[t].snap
  BY <1>1, WorkFacts DEF FollowInv, BindingInv, TypeOK, NumbersOf, None
<1>5. /\ \A w \in Workspace \ {s} : stored'[w] = stored[w] /\ indexed'[w] = indexed[w]
      /\ newest => stored'[s] = task[t].snap /\ indexed'[s] = None
      /\ ~ newest => stored'[s] = stored[s] /\ indexed'[s] = indexed[s]
  BY <1>1, <1>4
<1>6. ~ task[t].clash => newest
  BY <1>1, <1>3, <1>4, WorkFacts DEF ProgressOf, NumbersOf, Snapshots
<1> HIDE DEF newest
<1>7. \A u \in Thread \ {t} : MarksOf(u)' /\ NumbersOf(u)' /\ CoveredOf(u)' /\ ProgressOf(u)' /\ ImportOf(u)'
  <2>1. \A w \in Workspace : stored'[w] = stored[w] \/ stored'[w] = task[t].snap
    BY <1>5
  <2>2. (\E u \in Thread \ {t} : task[u].clash)
           => s \in mixed /\ \A w \in Workspace : stored'[w] = stored[w] \/ w \in mixed
    BY <1>5, WorkFacts
  <2>3. collected' >= collected /\ collected' \in Nat
    BY <1>1, WorkFacts
  <2>. QED
    BY <1>1, <1>2, <1>3, <2>1, <2>2, <2>3, WorkFacts, OthersKeep
<1>8. MarksOf(t)'
  BY <1>1, <1>2, <1>3, <1>4, WorkFacts DEF MarksOf
<1>9. NumbersOf(t)'
  BY <1>2 DEF NumbersOf
<1>10. CoveredOf(t)'
  <2> SUFFICES ASSUME task[t].clash PROVE CoveredOf(t)'
    BY <1>2 DEF CoveredOf
  <2>1. BoundTo(task'[t]) = BoundTo(task[t])
    BY <1>2 DEF BoundTo
  <2>2. s \in mixed
    BY WorkFacts DEF CoveredOf
  <2>3. \A w \in Workspace : stored'[w] = task[t].snap => w \in mixed
    BY <1>4, <1>5, <2>2
  <2>. QED
    BY <1>1, <1>2, <2>1, <2>3, WorkFacts DEF CoveredOf
<1>11. ProgressOf(t)'
  <2> SUFFICES ASSUME ~ task[t].clash PROVE ProgressOf(t)'
    BY <1>2 DEF ProgressOf
  <2>1. Refreshing(task[t]) /\ task[t].of = {s}
    BY <1>1, <1>3, WorkFacts DEF MarksOf, ProgressOf, Refreshing, RefreshStages
  <2>2. /\ task[t].snap.of = {s}
        /\ task[t].snap.saw = imports[s] \/ Owing(s, t)
    BY <1>1, <1>3, WorkFacts DEF ProgressOf
  <2>3. Owing(s, t) => Owing(s, t)'
    BY <1>1, <1>2 DEF Owing
  <2>4. stored'[s] = task[t].snap /\ indexed'[s] = None
    BY <1>5, <1>6
  <2>. QED
    BY <1>1, <1>2, <2>1, <2>2, <2>3, <2>4 DEF ProgressOf
<1>12. ImportOf(t)'
  BY <1>1, <1>2, WorkFacts DEF ImportOf
<1>13. Numbered'
  BY <1>1, <1>4, <1>5 DEF FollowInv, Numbered
<1>14. \A w \in Workspace \ mixed' : DiskOf(w)'
  <2> SUFFICES ASSUME NEW w \in Workspace \ mixed PROVE DiskOf(w)'
    BY <1>1
  <2>1. \A u \in Thread : task'[u].kind = task[u].kind /\ task'[u].to = task[u].to
    BY <1>2
  <2>2. CASE w # s
    BY <1>1, <1>5, <2>1, <2>2 DEF FollowInv, DiskOf
  <2>3. CASE w = s
    <3>1. ~ task[t].clash
      BY <2>3, WorkFacts DEF CoveredOf
    <3>2. stored'[s] = task[t].snap /\ indexed'[s] = None
      BY <3>1, <1>5, <1>6
    <3>3. /\ task[t].snap.of = {s}
          /\ task[t].snap.saw = imports[s] \/ Owing(s, t)
      BY <3>1, <1>1, <1>3, WorkFacts DEF ProgressOf
    <3>. QED
      BY <1>1, <2>1, <2>3, <3>2, <3>3 DEF DiskOf, Owing
  <2>. QED
    BY <2>2, <2>3
<1>15. EngineFollows'
  BY <1>2 DEF EngineFollows, Swapping
<1>. QED
  BY <1>7, <1>8, <1>9, <1>10, <1>11, <1>12, <1>13, <1>14, <1>15 DEF FollowInv, Threads

\* The engine is replaced by the snapshot.
LEMMA SwapKeeps ==
    ASSUME FollowInv, BindingInv', NEW t \in Thread, Swap(t)
    PROVE  FollowInv'
<1>1. /\ task[t].stage = "swap" /\ task' = [task EXCEPT ![t].stage = "index"]
      /\ mem' = [mem EXCEPT !.engine = task[t].snap]
      /\ UNCHANGED <<stored, indexed, imports, collected, mixed, missed, behind, broken>>
  BY DEF Swap, Go, disk, history
<1>2. /\ task'[t].stage = "index" /\ task'[t].snap = task[t].snap /\ task'[t].kind = task[t].kind
      /\ task'[t].to = task[t].to /\ task'[t].of = task[t].of /\ task'[t].locked = task[t].locked
      /\ task'[t].clash = task[t].clash
      /\ \A u \in Thread \ {t} : task'[u] = task[u]
  BY <1>1, WorkFacts DEF TaskType
<1>3. AtWork(task[t]) /\ AtWork(task'[t])
  BY <1>1, <1>2 DEF AtWork, RefreshStages
<1>4. mem'.up = mem.up /\ mem'.storage = mem.storage /\ mem'.engine = task[t].snap
  BY <1>1 DEF FollowInv, BindingInv, TypeOK
<1>5. \A u \in Thread \ {t} : MarksOf(u)' /\ NumbersOf(u)' /\ CoveredOf(u)' /\ ProgressOf(u)' /\ ImportOf(u)'
  BY <1>1, <1>2, <1>3, <1>4, WorkFacts, OthersKeep
<1>6. MarksOf(t)' /\ NumbersOf(t)' /\ ImportOf(t)'
  BY <1>1, <1>2, <1>3, <1>4, WorkFacts DEF MarksOf, NumbersOf, ImportOf
<1>7. CoveredOf(t)'
  <2>1. BoundTo(task'[t]) = BoundTo(task[t])
    BY <1>2 DEF BoundTo
  <2>. QED
    BY <1>1, <1>2, <1>4, <2>1, WorkFacts DEF CoveredOf
<1>8. ProgressOf(t)'
  <2> SUFFICES ASSUME ~ task[t].clash PROVE ProgressOf(t)'
    BY <1>2 DEF ProgressOf
  <2>1. Owing(mem.storage, t) => Owing(mem.storage, t)'
    BY <1>1, <1>2, <1>4 DEF Owing
  <2>. QED
    BY <1>1, <1>2, <1>3, <1>4, <2>1, WorkFacts DEF ProgressOf, Refreshing, RefreshStages
<1>9. Numbered'
  BY <1>1 DEF FollowInv, Numbered
<1>10. \A w \in Workspace \ mixed' : DiskOf(w)'
  <2> SUFFICES ASSUME NEW w \in Workspace \ mixed PROVE DiskOf(w)'
    BY <1>1
  <2>1. \A u \in Thread : task'[u].kind = task[u].kind /\ task'[u].to = task[u].to
    BY <1>2
  <2>. QED
    BY <1>1, <2>1 DEF FollowInv, DiskOf
<1>11. EngineFollows'
  BY <1>2 DEF EngineFollows, Swapping
<1>. QED
  BY <1>5, <1>6, <1>7, <1>8, <1>9, <1>10, <1>11 DEF FollowInv, Threads

\* The indexes of the snapshot are calculated, unless they exist: then a
\* collection that met nobody leaves its workspace in order.
LEMMA IndexKeeps ==
    ASSUME FollowInv, BindingInv', NEW t \in Thread, Index(t)
    PROVE  FollowInv'
<1>0. PICK s \in Workspace, x \in Workspace, snap \in Snapshots :
           s = mem.storage /\ x = mem.indexService /\ snap = task[t].snap
  BY <1>0, WorkFacts DEF TaskType
<1>1. /\ task[t].stage = "index" /\ mixed' = Unmixed(t) /\ behind' = (behind /\ task[t].clash)
      /\ indexed' = [indexed EXCEPT ![x] = IF snap = stored[x] /\ indexed[x] = None THEN mem.engine ELSE indexed[x]]
      /\ UNCHANGED <<stored, imports, mem, collected, missed, broken>>
  BY <1>0 DEF Index, Ensure
<1>2. /\ task[t].kind = "bind" =>
            /\ task'[t].stage = "rebuild" /\ task'[t].kind = "bind" /\ task'[t].to = task[t].to
            /\ task'[t].clash = task[t].clash
      /\ task[t].kind # "bind" => task'[t] = Idle
      /\ \A u \in Thread \ {t} : task'[u] = task[u]
  BY <1>0, WorkFacts DEF Index, TaskType
<1>3. /\ Idle.kind = "none" /\ Idle.stage = "idle" /\ ~ Idle.clash /\ ~ AtWork(Idle)
      /\ AtWork(task[t]) /\ (task[t].kind = "bind" => AtWork(task'[t]))
      /\ snap # None
  BY <1>0, <1>1, <1>2, WorkFacts DEF AtWork, RefreshStages, Idle, Task, MarksOf
<1>4. indexed \in [Workspace -> Snapshots]
  BY <1>0 DEF FollowInv, BindingInv, TypeOK
<1>5. /\ \A w \in Workspace \ {x} : indexed'[w] = indexed[w]
      /\ indexed'[x] = IF snap = stored[x] /\ indexed[x] = None THEN mem.engine ELSE indexed[x]
  BY <1>0, <1>1, <1>4
<1>6. \A w \in Workspace : stored[w] = snap => \A v \in Workspace \ {w} : stored[v] # snap
  BY <1>0, <1>3 DEF FollowInv, Numbered
<1>7. CASE task[t].clash
  <2>1. mixed' = mixed /\ s \in mixed
    BY <1>0, <1>1, <1>7, WorkFacts DEF Unmixed, CoveredOf
  <2>2. \A u \in Thread \ {t} : MarksOf(u)' /\ NumbersOf(u)' /\ CoveredOf(u)' /\ ProgressOf(u)' /\ ImportOf(u)'
    <3>1. collected' >= collected /\ collected' \in Nat
      BY <1>0, <1>1, WorkFacts
    <3>2. task'[t].stage # "save"
      BY <1>0, <1>2, <1>3
    <3>. QED
      BY <1>0, <1>1, <1>2, <1>3, <2>1, <3>1, <3>2, WorkFacts, OthersKeep
  <2>3. MarksOf(t)' /\ NumbersOf(t)' /\ CoveredOf(t)' /\ ProgressOf(t)' /\ ImportOf(t)'
    <3>1. CASE task[t].kind = "bind"
      <4>1. BoundTo(task'[t]) = BoundTo(task[t])
        BY <1>0, <1>2, <3>1 DEF BoundTo
      <4>. QED
        BY <1>0, <1>1, <1>2, <1>3, <1>7, <2>1, <3>1, <4>1, WorkFacts
           DEF MarksOf, NumbersOf, CoveredOf, ProgressOf, ImportOf
    <3>2. CASE task[t].kind # "bind"
      BY <1>0, <1>2, <1>3, <3>2 DEF MarksOf, NumbersOf, CoveredOf, ProgressOf, ImportOf
    <3>. QED
      BY <1>0, <3>1, <3>2
  <2>4. \A w \in Workspace \ mixed' : DiskOf(w)'
    <3> SUFFICES ASSUME NEW w \in Workspace \ mixed PROVE DiskOf(w)'
      BY <1>0, <2>1
    <3>1. stored[w] = None \/ stored[w] # snap
      BY <1>0, <1>1, <1>7, WorkFacts DEF CoveredOf
    <3>2. indexed'[w] = indexed[w]
      BY <1>0, <1>3, <1>5, <3>1
    <3>3. (\E u \in Thread : task[u].kind = "import" /\ task[u].to = w)
             => w \in missed \/ \E u \in Thread : task'[u].kind = "import" /\ task'[u].to = w
      <4>1. task[t].kind = "import" /\ task[t].to = w => w \in missed
        BY <1>0, <1>7, WorkFacts DEF CoveredOf
      <4>. QED
        BY <1>0, <1>2, <4>1
    <3>. QED
      BY <1>0, <1>1, <3>2, <3>3 DEF FollowInv, DiskOf
  <2>5. Numbered' /\ EngineFollows'
    BY <1>0, <1>1, <2>1 DEF FollowInv, Numbered, EngineFollows
  <2>. QED
    BY <1>0, <2>2, <2>3, <2>4, <2>5 DEF FollowInv, Threads
<1>8. CASE ~ task[t].clash
  <2>1. /\ \A u \in Thread \ {t} : ~ AtWork(task[u]) /\ ~ task[u].clash
        /\ stored[s] = snap /\ mem.engine = snap
        /\ Refreshing(task[t]) =>
              /\ task[t].of = {s} /\ snap.of = {s} /\ indexed[s] = None
              /\ (snap.saw = imports[s] \/ Owing(s, t))
    BY <1>0, <1>1, <1>3, <1>8, WorkFacts DEF ProgressOf, RefreshStages
  <2>2. /\ \A w \in Workspace \ {s} : indexed'[w] = indexed[w]
        /\ indexed'[s] = indexed[s] \/ indexed'[s] = snap
        /\ x = s => indexed'[s] = IF indexed[s] = None THEN snap ELSE indexed[s]
    BY <1>0, <1>4, <1>5, <1>6, <2>1
  <2>3. /\ Refreshing(task[t]) => mixed' = mixed \ {s}
        /\ ~ Refreshing(task[t]) => mixed' = mixed
    BY <1>0, <1>1, <1>8 DEF Unmixed, Refreshing
  <2>4. \A u \in Thread \ {t} : MarksOf(u)' /\ NumbersOf(u)' /\ CoveredOf(u)' /\ ProgressOf(u)' /\ ImportOf(u)'
    <3>1. collected' >= collected /\ collected' \in Nat
      BY <1>0, <1>1, WorkFacts
    <3>2. task'[t].stage # "save"
      BY <1>0, <1>2, <1>3
    <3>. QED
      BY <1>0, <1>1, <1>2, <1>3, <2>1, <3>1, <3>2, OthersKeep
  <2>5. DiskOf(s)' \/ (s \in mixed /\ ~ Refreshing(task[t]))
    <3>1. CASE Refreshing(task[t])
      <4>1. Owing(s, t) => s \in missed \/ \E u \in Thread : task'[u].kind = "import" /\ task'[u].to = s
        BY <1>0, <1>2 DEF Owing
      <4>2. indexed'[s] = None \/ indexed'[s] = stored[s]
        BY <1>0, <2>1, <2>2, <3>1
      <4>. QED
        BY <1>0, <1>1, <2>1, <3>1, <4>1, <4>2 DEF DiskOf
    <3>2. CASE ~ Refreshing(task[t]) /\ s \notin mixed
      <4>1. DiskOf(s)
        BY <1>0, <1>4, <3>2 DEF FollowInv
      <4>2. task[t].kind # "import"
        BY <1>0, <3>2 DEF Refreshing
      <4>3. indexed'[s] = None \/ indexed'[s] = stored[s]
        BY <1>0, <2>1, <2>2, <4>1 DEF DiskOf
      <4>. QED
        BY <1>0, <1>1, <1>2, <4>1, <4>2, <4>3 DEF DiskOf
    <3>. QED
      BY <1>0, <3>1, <3>2
  <2>6. \A w \in Workspace \ mixed' : DiskOf(w)'
    <3> SUFFICES ASSUME NEW w \in Workspace \ mixed' PROVE DiskOf(w)'
      OBVIOUS
    <3>1. CASE w = s
      BY <1>0, <2>3, <2>5, <3>1
    <3>2. CASE w # s
      <4>1. DiskOf(w) /\ indexed'[w] = indexed[w]
        BY <1>0, <2>2, <2>3, <3>2 DEF FollowInv
      <4>2. task[t].kind = "import" /\ task[t].to = w => w \in missed
        BY <1>0, <1>1, <2>1, <3>2, WorkFacts DEF ImportOf, Refreshing
      <4>3. (\E u \in Thread : task[u].kind = "import" /\ task[u].to = w)
               => w \in missed \/ \E u \in Thread : task'[u].kind = "import" /\ task'[u].to = w
        BY <1>0, <1>2, <4>2
      <4>. QED
        BY <1>0, <1>1, <4>1, <4>3 DEF DiskOf
    <3>. QED
      BY <1>0, <3>1, <3>2
  <2>7. x = s /\ s \notin mixed' => Shows(s)'
    <3> SUFFICES ASSUME x = s, s \notin mixed' PROVE Shows(s)'
      BY <1>0
    <3>1. stored[s].of = {s} /\ (indexed[s] = None \/ indexed[s] = snap)
      <4>1. CASE Refreshing(task[t])
        BY <2>1, <4>1
      <4>2. CASE ~ Refreshing(task[t])
        <5>1. DiskOf(s)
          BY <1>0, <2>3, <4>2 DEF FollowInv
        <5>. QED
          BY <1>3, <2>1, <5>1 DEF DiskOf
      <4>. QED
        BY <4>1, <4>2
    <3>2. indexed'[s] = snap
      BY <1>0, <2>2, <3>1
    <3>. QED
      BY <1>0, <1>1, <1>3, <2>1, <3>1, <3>2 DEF Shows
  <2>8. MarksOf(t)' /\ NumbersOf(t)' /\ CoveredOf(t)' /\ ProgressOf(t)' /\ ImportOf(t)'
    <3>1. CASE task[t].kind = "bind"
      <4>1. s = x
        BY <1>0, <1>1, <3>1 DEF FollowInv, BindingInv, BindingSoFar
      <4>. QED
        BY <1>0, <1>1, <1>2, <1>3, <1>8, <2>1, <2>7, <3>1, <4>1
           DEF MarksOf, NumbersOf, CoveredOf, ProgressOf, ImportOf, RefreshStages
    <3>2. CASE task[t].kind # "bind"
      BY <1>0, <1>2, <1>3, <3>2 DEF MarksOf, NumbersOf, CoveredOf, ProgressOf, ImportOf
    <3>. QED
      BY <1>0, <3>1, <3>2
  <2>9. EngineFollows'
    <3> SUFFICES ASSUME mem.up, ~ broken, s \notin mixed', \A u \in Thread : ~ Swapping(task'[u])
                 PROVE  Shows(s)'
      BY <1>0, <1>1 DEF EngineFollows
    <3>1. task[t].kind # "bind"
      BY <1>0, <1>2 DEF Swapping
    <3>2. WorkspaceLockFree
      BY <1>0, <2>1, <3>1 DEF WorkspaceLockFree, AtWork
    <3>3. x = s
      BY <1>0, <3>2 DEF FollowInv, BindingInv, BoundTogether
    <3>. QED
      BY <1>0, <2>7, <3>3
  <2>10. Numbered'
    BY <1>0, <1>1 DEF FollowInv, Numbered
  <2>. QED
    BY <1>0, <2>4, <2>6, <2>8, <2>9, <2>10 DEF FollowInv, Threads
<1>. QED
  BY <1>0, <1>7, <1>8, WorkFacts

\* What the steps of a binding share: it is the only one, whoever works beside
\* it is marked, and nothing on disk or in its history of imports changes.
LEMMA BindingKeeps ==
    ASSUME FollowInv, BindingInv', NEW t \in Thread, task[t].kind = "bind",
           UNCHANGED <<stored, indexed, imports, collected, mixed, missed>>,
           task'[t].kind = "bind" \/ (task'[t] = Idle /\ (mem'.up /\ ~ behind' /\ ~ broken' /\ mem'.storage \notin mixed => Shows(mem.storage)')),
           \A u \in Thread \ {t} : task'[u] = task[u],
           mem.up => mem'.up,
           mem'.storage = mem.storage \/ mem'.storage = task[t].to,
           task'[t].stage # "save",
           MarksOf(t)', CoveredOf(t)', ProgressOf(t)'
    PROVE  FollowInv'
<1>1. AtWork(task[t]) /\ Idle.kind # "bind" /\ Idle.kind # "import"
  BY DEF AtWork, Idle, Task
<1>2. (\E u \in Thread \ {t} : task[u].clash) => mem'.storage \in mixed
  <2> SUFFICES ASSUME NEW u \in Thread \ {t}, task[u].clash PROVE mem'.storage \in mixed
    OBVIOUS
  <2>1. AtWork(task[u]) /\ mem.storage \in mixed
    BY WorkFacts DEF MarksOf
  <2>2. task[t].clash
    BY <1>1, <2>1, WorkFacts
  <2>3. task[t].to \in mixed
    BY <2>2, WorkFacts DEF CoveredOf, BoundTo
  <2>. QED
    BY <2>1, <2>3
<1>3. \A u \in Thread \ {t} : MarksOf(u)' /\ NumbersOf(u)' /\ CoveredOf(u)' /\ ProgressOf(u)' /\ ImportOf(u)'
  <2>1. collected' \in Nat /\ collected' >= collected
    BY WorkFacts
  <2>. QED
    BY <1>1, <1>2, <2>1, WorkFacts, OthersKeep
<1>4. NumbersOf(t)' /\ ImportOf(t)'
  BY <1>1 DEF NumbersOf, ImportOf
<1>5. Numbered'
  BY DEF FollowInv, Numbered
<1>6. \A w \in Workspace \ mixed' : DiskOf(w)'
  <2> SUFFICES ASSUME NEW w \in Workspace \ mixed PROVE DiskOf(w)'
    OBVIOUS
  <2>. QED
    BY DEF FollowInv, DiskOf
<1>7. EngineFollows'
  BY DEF EngineFollows, Swapping
<1>. QED
  BY <1>3, <1>4, <1>5, <1>6, <1>7 DEF FollowInv, Threads

\* The attributes of a binding, one by one.
LEMMA BindStepKeeps ==
    ASSUME FollowInv, BindingInv', NEW t \in Thread, BindStep(t)
    PROVE  FollowInv'
<1>1. task[t].kind = "bind" /\ AtWork(task[t])
  BY DEF BindStep, BindStorage, BindLoad, BindEngine, Rebuild, FollowInv, BindingInv, StagesOfKinds,
         BindStages, AtWork
<1>2. /\ Idle.kind = "none" /\ Idle.stage = "idle" /\ ~ Idle.clash /\ ~ AtWork(Idle)
      /\ mem \in [up : BOOLEAN, bound : Workspace, storage : Workspace, indexService : Workspace,
                   services : Workspace, engine : Snapshots]
  BY DEF Idle, Task, AtWork, RefreshStages, FollowInv, BindingInv, TypeOK
<1>3. CASE BindStorage(t)
  <2>1. /\ task[t].stage = "bindStorage" /\ task' = [task EXCEPT ![t].stage = "bindLoad"]
        /\ mem'.up = mem.up /\ mem'.storage = task[t].to
        /\ UNCHANGED <<stored, indexed, imports, collected, mixed, missed>>
    BY <1>2, <1>3 DEF BindStorage, Go, disk, history
  <2>2. /\ task'[t].stage = "bindLoad" /\ task'[t].kind = "bind" /\ task'[t].to = task[t].to
        /\ task'[t].clash = task[t].clash
        /\ \A u \in Thread \ {t} : task'[u] = task[u]
    BY <1>1, <2>1, WorkFacts DEF TaskType
  <2>3. MarksOf(t)'
    BY <1>1, <2>1, <2>2, WorkFacts DEF MarksOf, AtWork
  <2>4. CoveredOf(t)'
    BY <1>1, <2>1, <2>2, WorkFacts DEF CoveredOf, BoundTo
  <2>5. ProgressOf(t)'
    BY <2>2 DEF ProgressOf, RefreshStages
  <2>. QED
    BY <1>1, <2>1, <2>2, <2>3, <2>4, <2>5, BindingKeeps
<1>4. CASE BindLoad(t)
  <2>1. /\ task[t].stage = "bindLoad"
        /\ task' = [task EXCEPT ![t].stage = "bindEngine", ![t].snap = stored[mem.storage]]
        /\ mem'.up = mem.up /\ mem'.storage = mem.storage
        /\ UNCHANGED <<stored, indexed, imports, collected, mixed, missed>>
    BY <1>2, <1>4 DEF BindLoad, history
  <2>2. /\ task'[t].stage = "bindEngine" /\ task'[t].kind = "bind" /\ task'[t].to = task[t].to
        /\ task'[t].clash = task[t].clash /\ task'[t].snap = stored[mem.storage]
        /\ \A u \in Thread \ {t} : task'[u] = task[u]
    BY <1>1, <2>1, WorkFacts DEF TaskType
  <2>3. MarksOf(t)'
    BY <1>1, <2>1, <2>2, WorkFacts DEF MarksOf, AtWork
  <2>4. CoveredOf(t)'
    <3> SUFFICES ASSUME task[t].clash PROVE CoveredOf(t)'
      BY <2>2 DEF CoveredOf
    <3>1. mem.storage \in mixed /\ task[t].to \in mixed
      BY <1>1, WorkFacts DEF CoveredOf, BoundTo
    <3>2. \A w \in Workspace : stored[w] # None /\ stored[w] = stored[mem.storage] => w = mem.storage
      BY WorkFacts DEF FollowInv, Numbered
    <3>. QED
      BY <2>1, <2>2, <3>1, <3>2 DEF CoveredOf, BoundTo
  <2>5. ProgressOf(t)'
    BY <2>1, <2>2 DEF ProgressOf, RefreshStages
  <2>. QED
    BY <1>1, <2>1, <2>2, <2>3, <2>4, <2>5, BindingKeeps
<1>5. CASE BindEngine(t)
  <2>1. /\ task[t].stage = "bindEngine"
        /\ mem'.up = mem.up /\ mem'.storage = mem.storage
        /\ UNCHANGED <<stored, indexed, imports, collected, mixed, missed>>
        /\ \/ task' = [task EXCEPT ![t].stage = "wait"]
           \/ /\ task' = [task EXCEPT ![t].stage = "index"]
              /\ task[t].snap # None /\ mem'.engine = task[t].snap
    BY <1>2, <1>5 DEF BindEngine, Go, disk, history
  <2>2. /\ task'[t].kind = "bind" /\ task'[t].to = task[t].to
        /\ task'[t].clash = task[t].clash /\ task'[t].snap = task[t].snap
        /\ task'[t].locked = task[t].locked
        /\ \/ task'[t].stage = "wait"
           \/ task'[t].stage = "index" /\ task[t].snap # None /\ mem'.engine = task[t].snap
        /\ \A u \in Thread \ {t} : task'[u] = task[u]
    BY <1>1, <2>1, WorkFacts DEF TaskType
  <2>3. ~ Refreshing(task'[t])
    BY <1>1, <2>1, <2>2, WorkFacts DEF Refreshing, RefreshStages
  <2>4. MarksOf(t)'
    BY <1>1, <2>1, <2>2, WorkFacts DEF MarksOf, AtWork
  <2>5. CoveredOf(t)'
    BY <1>1, <2>1, <2>2, WorkFacts DEF CoveredOf, BoundTo
  <2>6. ProgressOf(t)'
    <3> SUFFICES ASSUME ~ task[t].clash PROVE ProgressOf(t)'
      BY <2>2 DEF ProgressOf
    <3>1. stored[mem.storage] = task[t].snap
      BY <1>1, <2>1, WorkFacts DEF ProgressOf
    <3>. QED
      BY <2>1, <2>2, <2>3, <3>1 DEF ProgressOf, RefreshStages
  <2>. QED
    BY <1>1, <2>1, <2>2, <2>4, <2>5, <2>6, BindingKeeps
<1>6. CASE Rebuild(t)
  <2>1. /\ task[t].stage = "rebuild" /\ task' = [task EXCEPT ![t] = Idle]
        /\ mem'.up /\ mem'.storage = mem.storage /\ mem'.engine = mem.engine
        /\ UNCHANGED <<stored, indexed, imports, collected, mixed, missed>>
    BY <1>2, <1>6 DEF Rebuild, disk
  <2>2. task'[t] = Idle /\ \A u \in Thread \ {t} : task'[u] = task[u]
    BY <2>1, WorkFacts
  <2>3. mem.storage \notin mixed => Shows(mem.storage)
    BY <1>1, <2>1, WorkFacts DEF CoveredOf, ProgressOf
  <2>4. Shows(mem.storage) => Shows(mem.storage)'
    BY <2>1 DEF Shows
  <2>5. MarksOf(t)' /\ CoveredOf(t)' /\ ProgressOf(t)'
    BY <1>2, <2>2 DEF MarksOf, CoveredOf, ProgressOf
  <2>. QED
    BY <1>1, <1>2, <2>1, <2>2, <2>3, <2>4, <2>5, BindingKeeps
<1>. QED
  BY <1>3, <1>4, <1>5, <1>6 DEF BindStep

\* The process is started with nobody at work, or stops.
LEMMA ProcessKeeps ==
    ASSUME FollowInv, BindingInv', Crash \/ \E t \in Thread : Start(t)
    PROVE  FollowInv'
<1>1. Idle.kind = "none" /\ Idle.stage = "idle" /\ ~ Idle.clash /\ ~ AtWork(Idle) /\ ~ Off.up
  BY DEF Idle, Task, AtWork, RefreshStages, Off
<1>2. UNCHANGED <<stored, indexed, imports, collected, mixed>>
  BY DEF Crash, Start, disk, history
<1>3. Numbered'
  BY <1>2 DEF FollowInv, Numbered
<1>4. CASE Crash
  <2>1. /\ ~ mem'.up /\ \A u \in Thread : task'[u] = Idle
        /\ missed \subseteq missed'
        /\ \A u \in Thread : task[u].kind = "import" => task[u].to \in missed'
    BY <1>1, <1>4 DEF Crash
  <2>2. Threads'
    BY <1>1, <2>1 DEF Threads, MarksOf, NumbersOf, CoveredOf, ProgressOf, ImportOf
  <2>3. \A w \in Workspace \ mixed' : DiskOf(w)'
    <3> SUFFICES ASSUME NEW w \in Workspace \ mixed PROVE DiskOf(w)'
      BY <1>2
    <3>1. DiskOf(w)
      BY DEF FollowInv
    <3>2. (\E u \in Thread : task[u].kind = "import" /\ task[u].to = w) => w \in missed'
      BY <2>1
    <3>. QED
      BY <1>2, <2>1, <3>1, <3>2 DEF DiskOf
  <2>4. EngineFollows'
    BY <2>1 DEF EngineFollows
  <2>. QED
    BY <1>3, <2>2, <2>3, <2>4 DEF FollowInv
<1>5. ASSUME NEW t \in Thread, Start(t)
      PROVE  FollowInv'
  <2> DEFINE r == Task("bind", "bindStorage", control)
  <2>1. r.kind = "bind" /\ r.stage = "bindStorage" /\ ~ r.clash
    BY DEF Task
  <2>2. /\ ~ mem.up /\ mem' = mem /\ missed' = missed /\ \A u \in Thread : task[u] = Idle
        /\ task' = [task EXCEPT ![t] = r]
    BY <1>5 DEF Start, history
  <2> HIDE DEF r
  <2>3. task'[t] = r /\ \A u \in Thread \ {t} : task'[u] = Idle
    BY <2>2, WorkFacts
  <2>4. AtWork(r)
    BY <2>1 DEF AtWork
  <2>5. Threads'
    <3> SUFFICES ASSUME NEW u \in Thread
                 PROVE  MarksOf(u)' /\ NumbersOf(u)' /\ CoveredOf(u)' /\ ProgressOf(u)' /\ ImportOf(u)'
      BY DEF Threads
    <3>1. CASE u = t
      BY <1>1, <2>1, <2>3, <2>4, <3>1
         DEF MarksOf, NumbersOf, CoveredOf, ProgressOf, ImportOf, RefreshStages
    <3>2. CASE u # t
      BY <1>1, <2>3, <3>2 DEF MarksOf, NumbersOf, CoveredOf, ProgressOf, ImportOf
    <3>. QED
      BY <3>1, <3>2
  <2>6. \A w \in Workspace \ mixed' : DiskOf(w)'
    <3> SUFFICES ASSUME NEW w \in Workspace \ mixed PROVE DiskOf(w)'
      BY <1>2
    <3>. QED
      BY <1>1, <1>2, <2>2 DEF FollowInv, DiskOf
  <2>7. EngineFollows'
    BY <2>2 DEF EngineFollows
  <2>. QED
    BY <1>3, <2>5, <2>6, <2>7 DEF FollowInv
<1>. QED
  BY <1>4, <1>5

\* Requests and refreshes that begin, and requests refused.
LEMMA RequestsKeep ==
    ASSUME FollowInv, BindingInv', NEW t \in Thread,
           \/ RequestScan(t) \/ Import(t) \/ SetTargets(t) \/ DecideRefresh(t) \/ Acquire(t)
    PROVE  FollowInv'
<1>0. /\ Idle.kind = "none" /\ Idle.stage = "idle" /\ ~ Idle.clash /\ ~ AtWork(Idle)
      /\ task \in [Thread -> TaskType] /\ task[t] \in TaskType /\ mem.storage \in Workspace
      /\ MarksOf(t) /\ ImportOf(t)
      /\ imports \in [Workspace -> Nat]
  BY WorkFacts DEF Idle, Task, AtWork, RefreshStages, FollowInv, BindingInv, TypeOK
<1>k. (task[t].stage \in {"decide", "wait"} /\ task[t].kind # "bind" => ~ AtWork(task[t]))
      /\ (task[t].stage = "decide" => task[t].kind # "bind")
  BY DEF AtWork, RefreshStages, FollowInv, BindingInv, StagesOfKinds, BindStages
<1>1. CASE RequestScan(t)
  <2> DEFINE r == Task("scan", "wait", Home)
  <2>1. r.kind = "scan" /\ r.stage = "wait" /\ ~ r.clash /\ ~ AtWork(r)
    BY DEF Task, AtWork, RefreshStages
  <2>2. /\ task' = [task EXCEPT ![t] = r] /\ mem.up /\ task[t] = Idle
        /\ UNCHANGED <<stored, indexed, imports, mem, collected, mixed, missed, behind, broken>>
    BY <1>1 DEF RequestScan, Asked, disk, history
  <2> HIDE DEF r
  <2>3. task'[t] = r /\ \A u \in Thread \ {t} : task'[u] = task[u]
    BY <1>0, <2>2
  <2>. QED
    BY <1>0, <2>1, <2>2, <2>3, AsideKeeps
<1>2. CASE Import(t)
  <2> DEFINE r == Task("import", "decide", mem.storage)
  <2>1. r.kind = "import" /\ r.stage = "decide" /\ r.to = mem.storage /\ ~ r.clash /\ ~ AtWork(r)
    BY DEF Task, AtWork, RefreshStages
  <2>2. /\ task' = [task EXCEPT ![t] = r] /\ mem.up /\ task[t] = Idle
        /\ imports' = [imports EXCEPT ![mem.storage] = imports[mem.storage] + 1]
        /\ UNCHANGED <<stored, indexed, mem, collected, mixed, missed, behind, broken>>
    BY <1>2 DEF Import, Asked, history
  <2> HIDE DEF r
  <2>3. task'[t] = r /\ \A u \in Thread \ {t} : task'[u] = task[u]
    BY <1>0, <2>2
  <2>4. \A w \in Workspace : imports'[w] = imports[w] \/ w = mem.storage
    BY <1>0, <2>2
  <2>. QED
    BY <1>0, <2>1, <2>2, <2>3, <2>4, AsideKeeps
<1>3. CASE SetTargets(t)
  BY <1>0, <1>3, AsideKeeps DEF SetTargets, Asked, history
<1>4. CASE DecideRefresh(t)
  <2>1. /\ task[t].stage = "decide" /\ task[t].kind # "bind" /\ ~ AtWork(task[t]) /\ mem.up
        /\ missed \subseteq missed' /\ (task[t].to = mem.storage \/ task[t].to \in missed')
        /\ UNCHANGED <<stored, indexed, imports, mem, collected, behind, broken>>
    BY <1>0, <1>4, <1>k DEF DecideRefresh, disk, MarksOf
  <2>2. CASE targets[mem.storage] = "on"
    <3>1. /\ task' = [task EXCEPT ![t].stage = "wait", ![t].of = {mem.storage}] /\ mixed' = mixed
      BY <1>4, <2>2 DEF DecideRefresh
    <3>2. /\ task'[t].kind = task[t].kind /\ task'[t].to = task[t].to /\ task'[t].stage = "wait"
          /\ task'[t].of = {mem.storage} /\ task'[t].clash = task[t].clash
          /\ \A u \in Thread \ {t} : task'[u] = task[u]
      BY <1>0, <3>1 DEF TaskType
    <3>3. ~ AtWork(task'[t]) /\ ~ task[t].clash
      BY <1>0, <2>1, <3>2 DEF AtWork, RefreshStages, MarksOf
    <3>. QED
      BY <2>1, <3>1, <3>2, <3>3, AsideKeeps
  <2>3. CASE targets[mem.storage] # "on"
    <3> DEFINE r == [task[t] EXCEPT !.stage = "collect", !.of = {mem.storage}]
    <3>1. /\ r \in TaskType /\ r.stage = "collect" /\ r.of = {mem.storage} /\ r.kind = task[t].kind
          /\ r.to = task[t].to /\ r.clash = task[t].clash /\ r.locked = task[t].locked
      BY <1>0 DEF TaskType, Stages, RefreshStages
    <3>2. Begin(t, r)
      BY <1>4, <2>3 DEF DecideRefresh
    <3> HIDE DEF r
    <3>3. AtWork(r) /\ ~ r.locked
      BY <2>1, <3>1, WorkFacts DEF AtWork, RefreshStages
    <3>. QED
      BY <2>1, <3>1, <3>2, <3>3, BeginKeeps
  <2>. QED
    BY <2>2, <2>3
<1>5. CASE Acquire(t)
  <2> DEFINE r == [task[t] EXCEPT !.stage = "collect", !.of = {mem.storage}, !.locked = TRUE]
  <2>1. /\ r \in TaskType /\ r.stage = "collect" /\ r.of = {mem.storage} /\ r.kind = task[t].kind
        /\ r.to = task[t].to /\ r.clash = task[t].clash /\ r.locked
    BY <1>0 DEF TaskType, Stages, RefreshStages
  <2>2. /\ Begin(t, r) /\ task[t].stage = "wait" /\ ScanLockFree /\ TargetsFound(t)
        /\ UNCHANGED <<stored, indexed, imports, mem, collected, missed, behind, broken>>
    BY <1>5 DEF Acquire, disk
  <2> HIDE DEF r
  <2>3. AtWork(r) /\ (AtWork(task[t]) => task[t].kind = "bind") /\ (mem.up \/ task[t].kind = "bind")
    BY <1>0, <1>k, <2>1, <2>2 DEF AtWork, RefreshStages, MarksOf
  <2>4. r.kind = "import" => r.to = mem.storage \/ r.to \in missed
    BY <1>0, <2>1, <2>2 DEF ImportOf, TargetsFound
  <2>. QED
    BY <2>1, <2>2, <2>3, <2>4, BeginKeeps
<1>. QED
  BY <1>1, <1>2, <1>3, <1>4, <1>5

\* Bindings that begin.
LEMMA BindingsBegin ==
    ASSUME FollowInv, BindingInv', NEW t \in Thread,
           Update(t) \/ \E w \in Workspace : Activate(t, w)
    PROVE  FollowInv'
<1>0. /\ ~ Idle.clash /\ ~ AtWork(Idle) /\ Idle.kind = "none" /\ task[t] = Idle /\ mem.up
  BY DEF Idle, Task, AtWork, RefreshStages, Update, Activate, Asked
<1>1. PICK w \in Workspace :
        /\ Begin(t, Task("bind", "bindStorage", w))
        /\ UNCHANGED <<stored, indexed, imports, mem, collected, missed, behind, broken>>
  <2>1. CASE Update(t)
    BY <2>1 DEF Update, disk, FollowInv, BindingInv, TypeOK
  <2>2. CASE \E w \in Workspace : Activate(t, w)
    BY <2>2 DEF Activate
  <2>. QED
    BY <2>1, <2>2
<1> DEFINE r == Task("bind", "bindStorage", w)
<1>2. r \in TaskType /\ r.kind = "bind" /\ r.stage = "bindStorage" /\ ~ r.locked
  BY ConstantTypes DEF Kinds, Stages, BindStages
<1>3. r.clash = FALSE /\ Idle.clash = FALSE
  BY DEF Task, Idle
<1> HIDE DEF r
<1>4. AtWork(r)
  BY <1>2 DEF AtWork
<1>5. Begin(t, r)
  BY <1>1 DEF r
<1>. QED
  BY <1>0, <1>1, <1>2, <1>3, <1>4, <1>5, BeginKeeps

\* A refused scan and an exception.
LEMMA EndsFollow ==
    ASSUME FollowInv, BindingInv', NEW t \in Thread, Refuse(t) \/ Fault(t)
    PROVE  FollowInv'
<1>1. /\ GiveUp(t) /\ UNCHANGED <<stored, indexed, imports, collected, mixed>>
      /\ behind => behind'
  <2>1. CASE Refuse(t)
    BY <2>1 DEF Refuse, disk
  <2>2. CASE Fault(t)
    <3>1. behind => behind'
      BY <2>2 DEF Fault
    <3>. QED
      BY <2>2, <3>1 DEF Fault, disk
  <2>. QED
    BY <2>1, <2>2
<1>2. CASE AtWork(task[t])
  <2>1. behind' \/ broken' \/ ~ Swapping(task[t])
    BY <1>1 DEF Refuse, Fault, GiveUp, Swapping
  <2>. QED
    BY <1>1, <1>2, <2>1, GiveUpKeeps
<1>3. CASE ~ AtWork(task[t])
  <2>1. Refuse(t) /\ task[t].stage = "wait" /\ task[t].kind # "bind"
    BY <1>3 DEF Fault, Refuse, AtWork
  <2>2. /\ task' = [task EXCEPT ![t] = Idle] /\ mem' = mem /\ broken' = broken /\ behind' = behind
        /\ missed \subseteq missed' /\ (task[t].kind = "import" => task[t].to \in missed')
    BY <2>1 DEF Refuse, GiveUp, FollowInv, BindingInv, TypeOK
  <2>3. task'[t] = Idle /\ \A u \in Thread \ {t} : task'[u] = task[u]
    BY <2>2, WorkFacts
  <2>4. ~ Idle.clash /\ ~ AtWork(Idle) /\ Idle.kind = "none" /\ Idle.stage = "idle"
    BY DEF Idle, Task, AtWork, RefreshStages
  <2>. QED
    BY <1>1, <1>3, <2>2, <2>3, <2>4, AsideKeeps
<1>. QED
  BY <1>2, <1>3

LEMMA FollowStep == FollowInv /\ [Next]_vars => FollowInv'
<1> SUFFICES ASSUME FollowInv, [Next]_vars PROVE FollowInv'
  OBVIOUS
<1>0. BindingInv'
  BY BindingStep DEF FollowInv
<1>1. CASE Crash
  BY <1>0, <1>1, ProcessKeeps
<1>2. CASE UNCHANGED vars
  <2>1. /\ task' = task /\ mem' = mem /\ stored' = stored /\ indexed' = indexed /\ imports' = imports
        /\ collected' = collected /\ mixed' = mixed /\ missed' = missed
        /\ behind' = behind /\ broken' = broken
    BY <1>2 DEF vars, disk, history
  <2>2. Threads'
    BY <2>1 DEF FollowInv, Threads, MarksOf, NumbersOf, CoveredOf, ProgressOf, ImportOf, Owing, Shows
  <2>3. Numbered' /\ (\A w \in Workspace \ mixed' : DiskOf(w)') /\ EngineFollows'
    BY <2>1 DEF FollowInv, Numbered, DiskOf, EngineFollows, Shows
  <2>. QED
    BY <1>0, <2>2, <2>3 DEF FollowInv
<1>3. ASSUME NEW t \in Thread,
             \/ RequestScan(t) \/ Import(t) \/ SetTargets(t) \/ Acquire(t) \/ RefreshStep(t)
             \/ (\E w \in Workspace : Activate(t, w)) \/ Update(t) \/ Start(t) \/ BindStep(t) \/ Fault(t)
      PROVE  FollowInv'
  <2>1. CASE RequestScan(t) \/ Import(t) \/ SetTargets(t) \/ DecideRefresh(t) \/ Acquire(t)
    BY <1>0, <2>1, RequestsKeep
  <2>2. CASE Refuse(t) \/ Fault(t)
    BY <1>0, <2>2, EndsFollow
  <2>3. CASE Collect(t)
    BY <1>0, <2>3, CollectKeeps
  <2>4. CASE Save(t)
    BY <1>0, <2>4, SaveKeeps
  <2>5. CASE Swap(t)
    BY <1>0, <2>5, SwapKeeps
  <2>6. CASE Index(t)
    BY <1>0, <2>6, IndexKeeps
  <2>7. CASE Update(t) \/ \E w \in Workspace : Activate(t, w)
    BY <1>0, <2>7, BindingsBegin
  <2>8. CASE Start(t)
    BY <1>0, <2>8, ProcessKeeps
  <2>9. CASE BindStep(t)
    BY <1>0, <2>9, BindStepKeeps
  <2> QED
    BY <1>3, <2>1, <2>2, <2>3, <2>4, <2>5, <2>6, <2>7, <2>8, <2>9 DEF RefreshStep
<1> QED
  BY <1>1, <1>2, <1>3 DEF Next

\* Nothing is stored, and nobody works.
LEMMA InitFollow == Init => FollowInv
<1> SUFFICES ASSUME Init PROVE FollowInv
  OBVIOUS
<1>1. BindingInv
  BY InitBinding
<1>2. Idle.kind = "none" /\ Idle.stage = "idle" /\ ~ Idle.clash /\ ~ AtWork(Idle) /\ ~ mem.up
  BY OffType DEF Init, Idle, Task, AtWork, RefreshStages
<1>3. \A t \in Thread : task[t] = Idle
  BY DEF Init
<1>4. Threads
  BY <1>2, <1>3 DEF Threads, MarksOf, NumbersOf, CoveredOf, ProgressOf, ImportOf
<1>5. Numbered /\ (\A w \in Workspace \ mixed : DiskOf(w)) /\ EngineFollows
  BY <1>2 DEF Init, Numbered, DiskOf, EngineFollows
<1>. QED
  BY <1>1, <1>4, <1>5 DEF FollowInv

\* The invariant, for any workspaces, threads and bounds.
LEMMA Follows == Spec => []FollowInv
BY InitFollow, FollowStep, PTL DEF Spec

\* When nothing is in progress, the engine is the newest snapshot of the bound
\* workspace and its indexes are its own, after any activations, restarts and
\* waiting scans, unless work that no lock keeps apart has met there or an
\* exception has cut a refresh or a binding short (_refresh_runtime_snapshot,
\* _bind_workspace).
THEOREM EngineFollowsSnapshots == Spec => []EngineIsNewest
<1>1. FollowInv => EngineIsNewest
  <2> SUFFICES ASSUME FollowInv, Quiet, mem.bound \notin mixed, ~ behind, ~ broken
               PROVE  /\ stored[mem.bound] # None
                      /\ mem.engine = stored[mem.bound] /\ mem.engine = indexed[mem.bound]
                      /\ mem.engine.of = {mem.bound}
    BY DEF EngineIsNewest
  <2>1. \A t \in Thread : ~ Swapping(task[t])
    BY DEF Quiet, Swapping, Idle, Task
  <2>2. mem.storage = mem.bound
    BY <2>1 DEF Quiet, Swapping, FollowInv, BindingInv, BoundTogether, WorkspaceLockFree
  <2>3. Shows(mem.storage)
    BY <2>1, <2>2 DEF Quiet, FollowInv, EngineFollows
  <2>. QED
    BY <2>2, <2>3 DEF Shows
<1>. QED
  BY <1>1, Follows, PTL

\* And then it shows every change of the imported sources of that workspace,
\* unless the refresh after one was cut short: an import that found a scan in
\* progress has waited and collected again.
THEOREM ImportsFollow == Spec => []ImportsAreShown
<1>1. FollowInv => ImportsAreShown
  <2> SUFFICES ASSUME FollowInv, Quiet, mem.bound \notin mixed, mem.bound \notin missed, ~ behind, ~ broken
               PROVE  mem.engine.saw = imports[mem.bound]
    BY DEF ImportsAreShown
  <2>1. \A t \in Thread : ~ Swapping(task[t]) /\ task[t].kind # "import"
    BY DEF Quiet, Swapping, Idle, Task
  <2>2. mem.storage = mem.bound
    BY <2>1 DEF Quiet, Swapping, FollowInv, BindingInv, BoundTogether, WorkspaceLockFree
  <2>3. Shows(mem.storage)
    BY <2>1, <2>2 DEF Quiet, FollowInv, EngineFollows
  <2>4. DiskOf(mem.storage)
    BY <2>2, WorkFacts DEF FollowInv, BindingInv, TypeOK
  <2>. QED
    BY <2>1, <2>2, <2>3, <2>4 DEF Shows, DiskOf
<1>. QED
  BY <1>1, Follows, PTL
=============================================================================
