-------------------------- MODULE ReportSchedules --------------------------
(***************************************************************************)
(* Scheduled reports: the thread that runs what is due, the requests that  *)
(* run, edit and delete schedules beside it, and the table they share      *)
(* (backend/app/report_schedule_service.py, the report_schedules methods   *)
(* of storage.py, _start_report_scheduler of runtime.py).                  *)
(*                                                                         *)
(* A cadence stands for cadence, time zone and time of day: it has a slot  *)
(* at each of its multiples.  What a report contains, which channels       *)
(* deliver it and whether they fail changes nothing but the status text.   *)
(***************************************************************************)
EXTENDS Integers

CONSTANTS
    Id,         \* schedules
    Worker,     \* report scheduler threads of the processes that lead
    Client,     \* threads that serve requests
    Process,
    Home,       \* the process of each thread; the run locks are of one process
    Cadence,
    Keep,       \* a field that an edit does not mention
    Payload,    \* the edits that are requested, as [enabled, cadence]
    MaxTime,    \* bound on the clock
    MaxFaults   \* bound on crashes

Thread == Worker \cup Client

ASSUME ThreadAssumption == Worker \cap Client = {} /\ Home \in [Thread -> Process]

ASSUME CadenceAssumption == Cadence \subseteq Nat \ {0} /\ Keep \notin Cadence /\ Keep \notin BOOLEAN

ASSUME PayloadAssumption ==
    Payload \subseteq [enabled : BOOLEAN \cup {Keep}, cadence : Cadence \cup {Keep}]

ASSUME BoundAssumption == MaxTime \in Nat /\ MaxFaults \in Nat

VARIABLES
    clock,
    schedules,  \* the row of each schedule, Unborn or Deleted
    due,        \* what each worker has still to run, as [id, slot]
    run,        \* the execution each thread is in
    edit,       \* the update each client is in
    delivered,  \* the slots for which the workers have sent each report
    disturbed,  \* what has happened to each schedule that no lock rules out
    faults

vars == <<clock, schedules, due, run, edit, delivered, disturbed, faults>>

Never == -1
Unborn == [state |-> "unborn"]
Deleted == [state |-> "deleted"]
Row(enabled, cadence, next) ==
    [state |-> "stored", enabled |-> enabled, cadence |-> cadence, next |-> next]

Exists(id) == schedules[id].state = "stored"

NoRun == [stage |-> "idle"]
NoEdit == [stage |-> "idle"]

\* The slot a run is for; a request is for none.
Requested == -1

------------------------------------------------------------------------------

\* compute_next_run_at: strictly after the reference.
NextRun(enabled, cadence, reference) ==
    IF enabled THEN (reference \div cadence + 1) * cadence ELSE Never

\* What run_due_schedules looks for.
IsDue(id) ==
    /\ Exists(id)
    /\ schedules[id].enabled /\ schedules[id].next # Never
    /\ schedules[id].next <= clock

\* An edit keeps what its payload does not mention.
Merged(old, given) == IF given = Keep THEN old ELSE given

------------------------------------------------------------------------------
(* Which operations meet.                                                  *)

\* Stages in which an execution holds the lock of its schedule and has yet to
\* write the row.
Executing(t, id) == run[t].stage \in {"fetched", "delivered"} /\ run[t].id = id
Editing(c, id) == edit[c].stage # "idle" /\ edit[c].id = id

LockFree(p, id) ==
    \A t \in Thread : Home[t] = p /\ run[t].stage # "idle" => run[t].id # id

\* What an execution by t meets as it begins; the lock keeps those of its own
\* process away.
MetByRun(t, id) ==
    (IF \E c \in Client : Editing(c, id) THEN {"edit"} ELSE {})
        \cup (IF \E u \in Thread : Home[u] # Home[t] /\ Executing(u, id) THEN {"run"} ELSE {})

MetByEdit(c, id) ==
    IF \/ \E b \in Client \ {c} : Editing(b, id)
       \/ \E t \in Thread : Executing(t, id)
    THEN {"edit"} ELSE {}

------------------------------------------------------------------------------

Init ==
    /\ clock = 0
    /\ schedules = [id \in Id |-> Unborn]
    /\ due = [w \in Worker |-> {}]
    /\ run = [t \in Thread |-> NoRun]
    /\ edit = [c \in Client |-> NoEdit]
    /\ delivered = [id \in Id |-> {}]
    /\ disturbed = [id \in Id |-> {}]
    /\ faults = 0

Tick ==
    /\ clock < MaxTime
    /\ clock' = clock + 1
    /\ UNCHANGED <<schedules, due, run, edit, delivered, disturbed, faults>>

Create(id, enabled, cadence) ==
    /\ schedules[id] = Unborn
    /\ schedules' = [schedules EXCEPT ![id] = Row(enabled, cadence, NextRun(enabled, cadence, clock))]
    /\ UNCHANGED <<clock, due, run, edit, delivered, disturbed, faults>>

\* The runs of the schedule go with it; an execution in progress notices later.
Delete(id) ==
    /\ Exists(id)
    /\ schedules' = [schedules EXCEPT ![id] = Deleted]
    /\ UNCHANGED <<clock, due, run, edit, delivered, disturbed, faults>>

Free(c) == run[c].stage = "idle" /\ edit[c].stage = "idle"

\* update_schedule reads the schedule and computes its next run ...
EditRead(c, id, enabled, cadence) ==
    /\ Free(c) /\ Exists(id)
    /\ edit' = [edit EXCEPT ![c] =
          [stage |-> "computed", id |-> id, enabled |-> enabled, cadence |-> cadence,
           next |-> NextRun(Merged(schedules[id].enabled, enabled),
                            Merged(schedules[id].cadence, cadence), clock)]]
    /\ disturbed' = [disturbed EXCEPT ![id] = @ \cup MetByEdit(c, id)]
    /\ UNCHANGED <<clock, schedules, due, run, delivered, faults>>

\* ... update_report_schedule reads it again and merges the change ...
EditMerge(c) ==
    /\ edit[c].stage = "computed"
    /\ edit' = [edit EXCEPT ![c] =
          IF Exists(@.id)
          THEN [stage |-> "merged", id |-> @.id,
                row |-> Row(Merged(schedules[@.id].enabled, @.enabled),
                            Merged(schedules[@.id].cadence, @.cadence), @.next)]
          ELSE NoEdit]
    /\ UNCHANGED <<clock, schedules, due, run, delivered, disturbed, faults>>

\* Mutant: an edit leaves the next run alone.
EditWriteKeepingNext(c) ==
    /\ edit[c].stage = "merged"
    /\ IF Exists(edit[c].id)
       THEN schedules' = [schedules EXCEPT ![edit[c].id] =
               Row(edit[c].row.enabled, edit[c].row.cadence, @.next)]
       ELSE UNCHANGED schedules
    /\ edit' = [edit EXCEPT ![c] = NoEdit]
    /\ UNCHANGED <<clock, due, run, delivered, disturbed, faults>>

\* ... and writes the whole row, if it is still there.
EditWrite(c) ==
    /\ edit[c].stage = "merged"
    /\ IF Exists(edit[c].id)
       THEN schedules' = [schedules EXCEPT ![edit[c].id] = edit[c].row]
       ELSE UNCHANGED schedules
    /\ edit' = [edit EXCEPT ![c] = NoEdit]
    /\ UNCHANGED <<clock, due, run, delivered, disturbed, faults>>

------------------------------------------------------------------------------
(* run_due_schedules and run_schedule.                                     *)

\* Mutant: only what falls on this very moment is collected.
CollectDueNow(w) ==
    /\ due[w] = {} /\ run[w].stage = "idle"
    /\ \E id \in Id : IsDue(id) /\ schedules[id].next = clock
    /\ due' = [due EXCEPT ![w] = {[id |-> id, slot |-> clock] :
                                    id \in {x \in Id : IsDue(x) /\ schedules[x].next = clock}}]
    /\ UNCHANGED <<clock, schedules, run, edit, delivered, disturbed, faults>>

\* The thread of a process that leads wakes up and lists what is due.
CollectDue(w) ==
    /\ due[w] = {} /\ run[w].stage = "idle"
    /\ \E id \in Id : IsDue(id)
    /\ due' = [due EXCEPT ![w] = {[id |-> id, slot |-> schedules[id].next] : id \in {x \in Id : IsDue(x)}}]
    /\ UNCHANGED <<clock, schedules, run, edit, delivered, disturbed, faults>>

\* Mutant: nobody waits for an execution in progress.
FetchWithoutLock(t, id, slot) ==
    /\ run[t].stage = "idle" /\ Exists(id)
    /\ run' = [run EXCEPT ![t] = [stage |-> "fetched", id |-> id, slot |-> slot,
                                  enabled |-> schedules[id].enabled,
                                  cadence |-> schedules[id].cadence]]
    /\ disturbed' = [disturbed EXCEPT ![id] = @ \cup MetByRun(t, id)]

\* run_schedule takes the lock and reads the schedule.
Fetch(t, id, slot) ==
    /\ run[t].stage = "idle" /\ Exists(id) /\ LockFree(Home[t], id)
    /\ run' = [run EXCEPT ![t] = [stage |-> "fetched", id |-> id, slot |-> slot,
                                  enabled |-> schedules[id].enabled,
                                  cadence |-> schedules[id].cadence]]
    /\ disturbed' = [disturbed EXCEPT ![id] = @ \cup MetByRun(t, id)]

FetchDue(w) ==
    \E item \in due[w] :
        /\ Fetch(w, item.id, item.slot)
        /\ due' = [due EXCEPT ![w] = @ \ {item}]
        /\ UNCHANGED <<clock, schedules, edit, delivered, faults>>

\* A schedule of the batch is gone: the error ends the batch.
FetchMissing(w) ==
    /\ run[w].stage = "idle"
    /\ \E item \in due[w] : ~ Exists(item.id) /\ LockFree(Home[w], item.id)
    /\ due' = [due EXCEPT ![w] = {}]
    /\ UNCHANGED <<clock, schedules, run, edit, delivered, disturbed, faults>>

\* A request runs a schedule, due or not, enabled or not.
RunNow(c, id) ==
    /\ Free(c)
    /\ Fetch(c, id, Requested)
    /\ UNCHANGED <<clock, schedules, due, edit, delivered, faults>>

\* The report is built and sent, and the next run computed from what was read.
Deliver(t) ==
    /\ run[t].stage = "fetched"
    /\ run' = [run EXCEPT ![t] = [stage |-> "delivered", id |-> @.id, slot |-> @.slot,
                                  next |-> NextRun(@.enabled, @.cadence, clock)]]
    /\ delivered' = IF run[t].slot = Requested THEN delivered
                    ELSE [delivered EXCEPT ![run[t].id] = @ \cup {run[t].slot}]
    /\ UNCHANGED <<clock, schedules, due, edit, disturbed, faults>>

\* An error in an execution releases its lock and ends the batch it is part of.
Break(t) ==
    /\ run' = [run EXCEPT ![t] = NoRun]
    /\ due' = [w \in Worker |-> IF w = t THEN {} ELSE due[w]]

\* record_report_schedule_run: a foreign key refuses a run without schedule.
Record(t) ==
    /\ run[t].stage = "delivered"
    /\ IF Exists(run[t].id)
       THEN /\ schedules' = [schedules EXCEPT ![run[t].id].next = run[t].next]
            /\ run' = [run EXCEPT ![t] = [stage |-> "recorded", id |-> @.id]]
            /\ UNCHANGED due
       ELSE /\ Break(t)
            /\ UNCHANGED schedules
    /\ UNCHANGED <<clock, edit, delivered, disturbed, faults>>

\* run_schedule reads the schedule again and releases the lock.
Reload(t) ==
    /\ run[t].stage = "recorded"
    /\ IF Exists(run[t].id)
       THEN run' = [run EXCEPT ![t] = NoRun] /\ UNCHANGED due
       ELSE Break(t)
    /\ UNCHANGED <<clock, schedules, edit, delivered, disturbed, faults>>

\* The process ends and is started again.
Crash(p) ==
    LET gone == {t \in Thread : Home[t] = p} IN
    /\ faults < MaxFaults
    /\ faults' = faults + 1
    /\ run' = [t \in Thread |-> IF t \in gone THEN NoRun ELSE run[t]]
    /\ due' = [w \in Worker |-> IF w \in gone THEN {} ELSE due[w]]
    /\ edit' = [c \in Client |-> IF c \in gone THEN NoEdit ELSE edit[c]]
    /\ disturbed' = [id \in Id |->
          IF \E t \in gone : run[t].stage = "delivered" /\ run[t].id = id
          THEN disturbed[id] \cup {"crash"} ELSE disturbed[id]]
    /\ UNCHANGED <<clock, schedules, delivered>>

Next ==
    \/ Tick
    \/ \E id \in Id, enabled \in BOOLEAN, cadence \in Cadence : Create(id, enabled, cadence)
    \/ \E id \in Id : Delete(id)
    \/ \E c \in Client, id \in Id, payload \in Payload : EditRead(c, id, payload.enabled, payload.cadence)
    \/ \E c \in Client : EditMerge(c) \/ EditWrite(c)
    \/ \E c \in Client, id \in Id : RunNow(c, id)
    \/ \E w \in Worker : CollectDue(w) \/ FetchDue(w) \/ FetchMissing(w)
    \/ \E t \in Thread : Deliver(t) \/ Record(t) \/ Reload(t)
    \/ \E p \in Process : Crash(p)

Spec == Init /\ [][Next]_vars

\* Threads that have begun something go on with it, and the workers wake up
\* after every interval.  Requests for one schedule do not follow each other so
\* closely that a worker that waits for its lock never gets it.
Fairness ==
    /\ \A w \in Worker : WF_vars(CollectDue(w)) /\ SF_vars(FetchDue(w) \/ FetchMissing(w))
    /\ \A t \in Thread : WF_vars(Deliver(t)) /\ WF_vars(Record(t)) /\ WF_vars(Reload(t))

FairSpec == Spec /\ Fairness

------------------------------------------------------------------------------
(* Properties.                                                             *)

NextOrNever == Nat \cup {Never}

RowType == [state : {"stored"}, enabled : BOOLEAN, cadence : Cadence, next : NextOrNever]

RunType ==
    {NoRun} \cup [stage : {"fetched"}, id : Id, slot : Nat \cup {Requested}, enabled : BOOLEAN, cadence : Cadence]
            \cup [stage : {"delivered"}, id : Id, slot : Nat \cup {Requested}, next : NextOrNever]
            \cup [stage : {"recorded"}, id : Id]

EditType ==
    {NoEdit} \cup [stage : {"computed"}, id : Id, enabled : BOOLEAN \cup {Keep},
                   cadence : Cadence \cup {Keep}, next : NextOrNever]
             \cup [stage : {"merged"}, id : Id, row : RowType]

\* The variables keep their types: no field that an edit leaves open gets into a
\* row, and no schedule that has gone is executed as if it had a slot.
TypeOK ==
    /\ clock \in 0..MaxTime
    /\ schedules \in [Id -> {Unborn, Deleted} \cup RowType]
    /\ due \in [Worker -> SUBSET [id : Id, slot : Nat]]
    /\ run \in [Thread -> RunType]
    /\ edit \in [Client -> EditType]
    /\ delivered \in [Id -> SUBSET Nat]
    /\ disturbed \in [Id -> SUBSET {"edit", "run", "crash"}]
    /\ faults \in 0..MaxFaults

\* Unless an edit of it met another operation, a schedule that is enabled has a
\* next run, at a slot of the cadence it has now, and one that is not has none:
\* however executions, requests and edits follow each other.
NextFollowsSchedule ==
    \A id \in Id : Exists(id) /\ "edit" \notin disturbed[id] =>
        IF schedules[id].enabled
        THEN schedules[id].next > 0 /\ schedules[id].next % schedules[id].cadence = 0
        ELSE schedules[id].next = Never

\* The tables and threads have their types, and the next run of a schedule is that
\* of the schedule as it stands.
ScheduleInv == TypeOK /\ NextFollowsSchedule

\* One worker sends a report once for a slot, although the list of what is due was
\* read before the lock and requests run the same schedules: only an edit that
\* met an execution, an execution in another process, or a stop between sending
\* and recording makes it send it again.
SlotDeliveredOnce ==
    [][\A w \in Worker : run[w].stage = "fetched" /\ run'[w].stage = "delivered" =>
          run[w].slot \notin delivered[run[w].id] \/ disturbed[run[w].id] # {}]_vars

\* What is due does not stay due, whatever is deleted out of the batch it is in,
\* whoever holds its lock, and wherever a process stops.
DueIsRun == \A id \in Id : IsDue(id) ~> ~ IsDue(id)
=============================================================================
