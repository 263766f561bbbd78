----------------------- MODULE ReportSchedules_proofs -----------------------
(***************************************************************************)
(* The invariant of the scheduled reports, for every number of schedules,  *)
(* threads and processes, and that a single worker sends a report once for *)
(* a slot.                                                                 *)
(***************************************************************************)
EXTENDS ReportSchedules, TLAPS

------------------------------------------------------------------------------
(* What keeps the next run right.                                          *)

Fits(enabled, cadence, next) ==
    IF enabled THEN next > 0 /\ next % cadence = 0 ELSE next = Never

Unedited(id) == "edit" \notin disturbed[id]

\* An identifier is used once: nobody works on a schedule before it is made.
Born ==
    /\ \A t \in Thread : run[t].stage # "idle" => schedules[run[t].id] # Unborn
    /\ \A c \in Client : edit[c].stage # "idle" => schedules[edit[c].id] # Unborn

\* An edit that has met nobody is alone with its schedule.
EditAlone ==
    \A c \in Client, id \in Id : Editing(c, id) /\ Unedited(id) =>
        /\ \A t \in Thread : ~ Executing(t, id)
        /\ \A b \in Client : Editing(b, id) => b = c

\* What an execution has read and computed still fits the schedule.
RunsFit ==
    \A t \in Thread :
        /\ run[t].stage = "fetched" /\ Unedited(run[t].id) /\ Exists(run[t].id) =>
              /\ run[t].enabled = schedules[run[t].id].enabled
              /\ run[t].cadence = schedules[run[t].id].cadence
        /\ run[t].stage = "delivered" /\ Unedited(run[t].id) /\ Exists(run[t].id) =>
              Fits(schedules[run[t].id].enabled, schedules[run[t].id].cadence, run[t].next)

\* So does what an edit has computed, for the row it is going to write.
EditsFit ==
    \A c \in Client :
        /\ edit[c].stage = "computed" /\ Unedited(edit[c].id) /\ Exists(edit[c].id) =>
              Fits(Merged(schedules[edit[c].id].enabled, edit[c].enabled),
                   Merged(schedules[edit[c].id].cadence, edit[c].cadence), edit[c].next)
        /\ edit[c].stage = "merged" /\ Unedited(edit[c].id) =>
              Fits(edit[c].row.enabled, edit[c].row.cadence, edit[c].row.next)

NextInv == TypeOK /\ Born /\ EditAlone /\ RunsFit /\ EditsFit /\ NextFollowsSchedule

------------------------------------------------------------------------------
(* The slots of a cadence.                                                 *)

\* A multiple of a cadence is a slot of it.
LEMMA MultipleIsSlot ==
    ASSUME NEW c \in Nat \ {0}, NEW q \in Nat
    PROVE  q * c \in Nat /\ (q * c) % c = 0
BY SMT

\* The next slot lies after the reference.
LEMMA SlotIsLater ==
    ASSUME NEW c \in Nat \ {0}, NEW x \in Nat
    PROVE  x \div c \in Nat /\ (x \div c + 1) * c > x
BY SMT

\* compute_next_run_at answers with a slot after the reference, or never.
LEMMA NextRunFits ==
    ASSUME NEW enabled \in BOOLEAN, NEW c \in Cadence, NEW x \in Nat
    PROVE  /\ NextRun(enabled, c, x) \in NextOrNever
           /\ Fits(enabled, c, NextRun(enabled, c, x))
           /\ enabled => NextRun(enabled, c, x) > x
           /\ ~ enabled => NextRun(enabled, c, x) = Never
<1> DEFINE q == x \div c + 1
<1>1. c \in Nat \ {0}
  BY CadenceAssumption
<1>2. q \in Nat /\ q * c > x
  BY <1>1, SlotIsLater
<1>3. q * c \in Nat /\ (q * c) % c = 0
  BY <1>1, <1>2, MultipleIsSlot
<1> HIDE DEF q
<1>4. NextRun(enabled, c, x) = IF enabled THEN q * c ELSE Never
  BY DEF q, NextRun
<1> QED
  BY <1>2, <1>3, <1>4 DEF Fits, NextOrNever

\* A payload is merged into a row field by field.
LEMMA MergedFields ==
    ASSUME NEW id \in Id, Exists(id), TypeOK,
           NEW enabled \in BOOLEAN \cup {Keep}, NEW cadence \in Cadence \cup {Keep}
    PROVE  /\ Merged(schedules[id].enabled, enabled) \in BOOLEAN
           /\ Merged(schedules[id].cadence, cadence) \in Cadence
BY CadenceAssumption DEF Merged, TypeOK, Exists, RowType, Unborn, Deleted

------------------------------------------------------------------------------
(* Types.                                                                  *)

\* What an execution of a thread consists of.
LEMMA RunParts ==
    ASSUME TypeOK, NEW t \in Thread
    PROVE  /\ run[t] \in RunType
           /\ run[t].stage \in {"idle", "fetched", "delivered", "recorded"}
           /\ run[t].stage # "idle" => run[t].id \in Id
           /\ run[t].stage = "fetched" =>
                 /\ run[t].slot \in Nat \cup {Requested}
                 /\ run[t].enabled \in BOOLEAN
                 /\ run[t].cadence \in Cadence
           /\ run[t].stage = "delivered" =>
                 /\ run[t].slot \in Nat \cup {Requested}
                 /\ run[t].next \in NextOrNever
BY DEF TypeOK, RunType, NoRun

\* What an edit of a client consists of.
LEMMA EditParts ==
    ASSUME TypeOK, NEW c \in Client
    PROVE  /\ edit[c] \in EditType
           /\ edit[c].stage \in {"idle", "computed", "merged"}
           /\ edit[c].stage # "idle" => edit[c].id \in Id
           /\ edit[c].stage = "computed" =>
                 /\ edit[c].enabled \in BOOLEAN \cup {Keep}
                 /\ edit[c].cadence \in Cadence \cup {Keep}
                 /\ edit[c].next \in NextOrNever
           /\ edit[c].stage = "merged" => edit[c].row \in RowType
BY DEF TypeOK, EditType, NoEdit

\* What a row consists of.
LEMMA RowParts ==
    ASSUME TypeOK, NEW id \in Id
    PROVE  /\ schedules[id] \in {Unborn, Deleted} \cup RowType
           /\ Exists(id) => /\ schedules[id] \in RowType
                            /\ schedules[id].enabled \in BOOLEAN
                            /\ schedules[id].cadence \in Cadence
                            /\ schedules[id].next \in NextOrNever
BY DEF TypeOK, RowType, Exists, Unborn, Deleted

\* Every step keeps the types of the variables.
LEMMA TypeStep ==
    ASSUME TypeOK, [Next]_vars
    PROVE  TypeOK'
<1> USE BoundAssumption
<1>1. CASE Tick
  BY <1>1 DEF Tick, TypeOK
<1>2. ASSUME NEW id \in Id, NEW enabled \in BOOLEAN, NEW cadence \in Cadence,
             Create(id, enabled, cadence)
      PROVE  TypeOK'
  <2>1. NextRun(enabled, cadence, clock) \in NextOrNever
    BY NextRunFits DEF TypeOK
  <2>2. Row(enabled, cadence, NextRun(enabled, cadence, clock)) \in RowType
    BY <2>1 DEF Row, RowType
  <2> QED
    BY <1>2, <2>2 DEF Create, TypeOK
<1>3. ASSUME NEW id \in Id, Delete(id) PROVE TypeOK'
  BY <1>3 DEF Delete, TypeOK
<1>4. ASSUME NEW c \in Client, NEW id \in Id, NEW payload \in Payload,
             EditRead(c, id, payload.enabled, payload.cadence)
      PROVE  TypeOK'
  <2> DEFINE next == NextRun(Merged(schedules[id].enabled, payload.enabled),
                             Merged(schedules[id].cadence, payload.cadence), clock)
  <2>1. /\ payload.enabled \in BOOLEAN \cup {Keep}
        /\ payload.cadence \in Cadence \cup {Keep}
    BY PayloadAssumption
  <2>2. next \in NextOrNever
    <3>1. Exists(id)
      BY <1>4 DEF EditRead
    <3>2. /\ Merged(schedules[id].enabled, payload.enabled) \in BOOLEAN
          /\ Merged(schedules[id].cadence, payload.cadence) \in Cadence
      BY <2>1, <3>1, MergedFields
    <3>3. clock \in Nat
      BY DEF TypeOK
    <3> QED
      BY <3>2, <3>3, NextRunFits
  <2> HIDE DEF next
  <2>3. [stage |-> "computed", id |-> id, enabled |-> payload.enabled,
         cadence |-> payload.cadence, next |-> next] \in EditType
    BY <2>1, <2>2 DEF EditType
  <2>4. edit' \in [Client -> EditType]
    BY <1>4, <2>3 DEF EditRead, TypeOK, next
  <2>5. disturbed' \in [Id -> SUBSET {"edit", "run", "crash"}]
    BY <1>4 DEF EditRead, TypeOK, MetByEdit
  <2> QED
    BY <1>4, <2>4, <2>5 DEF EditRead, TypeOK
<1>5. ASSUME NEW c \in Client, EditMerge(c) PROVE TypeOK'
  <2> DEFINE e == edit[c]
             row == Row(Merged(schedules[e.id].enabled, e.enabled),
                        Merged(schedules[e.id].cadence, e.cadence), e.next)
  <2>1. e.stage = "computed"
    BY <1>5 DEF EditMerge
  <2>2. ASSUME Exists(e.id)
        PROVE  [stage |-> "merged", id |-> e.id, row |-> row] \in EditType
    <3>1. /\ Merged(schedules[e.id].enabled, e.enabled) \in BOOLEAN
          /\ Merged(schedules[e.id].cadence, e.cadence) \in Cadence
      BY <2>1, <2>2, EditParts, MergedFields
    <3>2. row \in RowType
      BY <2>1, <3>1, EditParts DEF Row, RowType
    <3> QED
      BY <2>1, <3>2, EditParts DEF EditType
  <2>3. NoEdit \in EditType
    BY DEF EditType
  <2>4. edit' \in [Client -> EditType]
    BY <1>5, <2>2, <2>3 DEF EditMerge, TypeOK
  <2> QED
    BY <1>5, <2>4 DEF EditMerge, TypeOK
<1>6. ASSUME NEW c \in Client, EditWrite(c) PROVE TypeOK'
  <2>1. edit[c].row \in RowType
    BY <1>6, EditParts DEF EditWrite
  <2>2. schedules' \in [Id -> {Unborn, Deleted} \cup RowType]
    BY <1>6, <2>1 DEF EditWrite, TypeOK
  <2>3. edit' \in [Client -> EditType]
    BY <1>6 DEF EditWrite, TypeOK, EditType
  <2> QED
    BY <1>6, <2>2, <2>3 DEF EditWrite, TypeOK
<1>7. ASSUME NEW t \in Thread, NEW id \in Id, NEW slot \in Nat \cup {Requested}, Fetch(t, id, slot)
      PROVE  /\ run' \in [Thread -> RunType]
             /\ disturbed' \in [Id -> SUBSET {"edit", "run", "crash"}]
  <2>1. [stage |-> "fetched", id |-> id, slot |-> slot, enabled |-> schedules[id].enabled,
         cadence |-> schedules[id].cadence] \in RunType
    BY <1>7, RowParts DEF Fetch, RunType
  <2> QED
    BY <1>7, <2>1 DEF Fetch, TypeOK, MetByRun
<1>8. ASSUME NEW c \in Client, NEW id \in Id, RunNow(c, id) PROVE TypeOK'
  <2>1. c \in Thread /\ Fetch(c, id, Requested)
    BY <1>8 DEF RunNow, Thread
  <2> QED
    BY <1>7, <1>8, <2>1 DEF RunNow, TypeOK
<1>9. ASSUME NEW w \in Worker, CollectDue(w) PROVE TypeOK'
  <2>1. \A id \in Id : IsDue(id) => schedules[id].next \in Nat
    BY RowParts DEF IsDue, NextOrNever
  <2> QED
    BY <1>9, <2>1 DEF CollectDue, TypeOK
<1>10. ASSUME NEW w \in Worker, FetchDue(w) PROVE TypeOK'
  <2>1. PICK item \in due[w] : /\ Fetch(w, item.id, item.slot)
                               /\ due' = [due EXCEPT ![w] = @ \ {item}]
                               /\ UNCHANGED <<clock, schedules, edit, delivered, faults>>
    BY <1>10 DEF FetchDue
  <2>2. w \in Thread /\ item.id \in Id /\ item.slot \in Nat
    BY DEF TypeOK, Thread
  <2>3. due' \in [Worker -> SUBSET [id : Id, slot : Nat]]
    BY <2>1 DEF TypeOK
  <2> QED
    BY <1>7, <2>1, <2>2, <2>3 DEF TypeOK
<1>11. ASSUME NEW w \in Worker, FetchMissing(w) PROVE TypeOK'
  BY <1>11 DEF FetchMissing, TypeOK
<1>12. ASSUME NEW t \in Thread, Deliver(t) PROVE TypeOK'
  <2>1. /\ run[t].stage = "fetched"
        /\ NextRun(run[t].enabled, run[t].cadence, clock) \in NextOrNever
    BY <1>12, RunParts, NextRunFits DEF Deliver, TypeOK
  <2>2. [stage |-> "delivered", id |-> run[t].id, slot |-> run[t].slot,
         next |-> NextRun(run[t].enabled, run[t].cadence, clock)] \in RunType
    BY <2>1, RunParts DEF RunType
  <2>3. run' \in [Thread -> RunType]
    BY <1>12, <2>2 DEF Deliver, TypeOK
  <2>4. delivered' \in [Id -> SUBSET Nat]
    BY <1>12, <2>1, RunParts DEF Deliver, TypeOK
  <2> QED
    BY <1>12, <2>3, <2>4 DEF Deliver, TypeOK
<1>13. ASSUME NEW t \in Thread, Break(t)
       PROVE  run' \in [Thread -> RunType] /\ due' \in [Worker -> SUBSET [id : Id, slot : Nat]]
  BY <1>13 DEF Break, TypeOK, RunType
<1>14. ASSUME NEW t \in Thread, Record(t) PROVE TypeOK'
  <2>1. CASE Exists(run[t].id)
    <3>1. /\ run[t].stage = "delivered" /\ run[t].id \in Id
          /\ run[t].next \in NextOrNever
      BY <1>14, RunParts DEF Record
    <3>2. [schedules[run[t].id] EXCEPT !.next = run[t].next] \in RowType
      BY <2>1, <3>1, RowParts DEF RowType
    <3>3. schedules' = [schedules EXCEPT ![run[t].id] =
                           [schedules[run[t].id] EXCEPT !.next = run[t].next]]
      BY <1>14, <2>1 DEF Record
    <3>4. schedules' \in [Id -> {Unborn, Deleted} \cup RowType]
      BY <3>2, <3>3 DEF TypeOK
    <3>5. run' \in [Thread -> RunType]
      BY <1>14, <2>1, <3>1 DEF Record, TypeOK, RunType
    <3> QED
      BY <1>14, <2>1, <3>4, <3>5 DEF Record, TypeOK
  <2>2. CASE ~ Exists(run[t].id)
    BY <1>13, <1>14, <2>2 DEF Record, TypeOK
  <2> QED
    BY <2>1, <2>2
<1>15. ASSUME NEW t \in Thread, Reload(t) PROVE TypeOK'
  <2>1. CASE Exists(run[t].id)
    BY <1>15, <2>1 DEF Reload, TypeOK, RunType
  <2>2. CASE ~ Exists(run[t].id)
    BY <1>13, <1>15, <2>2 DEF Reload, TypeOK
  <2> QED
    BY <2>1, <2>2
<1>16. ASSUME NEW p \in Process, Crash(p) PROVE TypeOK'
  <2>1. run' \in [Thread -> RunType] /\ edit' \in [Client -> EditType]
    BY <1>16 DEF Crash, TypeOK, RunType, EditType
  <2>2. due' \in [Worker -> SUBSET [id : Id, slot : Nat]]
    BY <1>16 DEF Crash, TypeOK
  <2>3. disturbed' \in [Id -> SUBSET {"edit", "run", "crash"}]
    BY <1>16 DEF Crash, TypeOK
  <2> QED
    BY <1>16, <2>1, <2>2, <2>3 DEF Crash, TypeOK
<1>17. CASE UNCHANGED vars
  BY <1>17 DEF vars, TypeOK
<1> QED
  BY <1>1, <1>2, <1>3, <1>4, <1>5, <1>6, <1>8, <1>9, <1>10, <1>11, <1>12, <1>14, <1>15, <1>16, <1>17
  DEF Next

------------------------------------------------------------------------------
(* The steps keep the invariant.                                           *)

Matching == Born /\ EditAlone /\ RunsFit /\ EditsFit /\ NextFollowsSchedule

\* An execution that takes up a schedule meets every edit of it.
LEMMA FetchKeeps ==
    ASSUME NextInv, NEW t \in Thread, NEW id \in Id, NEW slot \in Nat \cup {Requested},
           Fetch(t, id, slot), UNCHANGED <<schedules, edit>>
    PROVE  Matching'
<1> USE DEF NextInv, Fetch
<1>1. Born'
  BY RowParts DEF Born, Exists, Unborn
<1>2. /\ disturbed[id] \subseteq disturbed'[id]
      /\ \A x \in Id : x # id => disturbed'[x] = disturbed[x]
      /\ \A c \in Client : Editing(c, id) => "edit" \in disturbed'[id]
  BY DEF TypeOK, MetByRun
<1>3. EditAlone'
  BY <1>2 DEF EditAlone, Editing, Executing, Unedited, TypeOK
<1>4. RunsFit'
  BY <1>2, RunParts DEF RunsFit, Unedited, Exists, TypeOK
<1>5. EditsFit'
  BY <1>2, EditParts DEF EditsFit, Unedited, Exists
<1>6. NextFollowsSchedule'
  BY <1>2 DEF NextFollowsSchedule, Unedited, Exists
<1> QED
  BY <1>1, <1>3, <1>4, <1>5, <1>6 DEF Matching

\* Every step keeps what holds between schedules, executions and edits.
LEMMA MatchingStep ==
    ASSUME NextInv, [Next]_vars
    PROVE  Matching'
<1> USE DEF NextInv, Matching
<1>1. CASE Tick
  BY <1>1 DEF Tick, Born, EditAlone, Editing, Executing, RunsFit, EditsFit, NextFollowsSchedule,
              Unedited, Exists
<1>2. ASSUME NEW id \in Id, NEW enabled \in BOOLEAN, NEW cadence \in Cadence,
             Create(id, enabled, cadence)
      PROVE  Matching'
  <2> DEFINE next == NextRun(enabled, cadence, clock)
  <2>1. Fits(enabled, cadence, next)
    BY NextRunFits DEF TypeOK
  <2> HIDE DEF next
  <2>2. /\ schedules' = [schedules EXCEPT ![id] = Row(enabled, cadence, next)]
        /\ schedules[id] = Unborn
        /\ UNCHANGED <<run, edit, disturbed>>
    BY <1>2 DEF Create, next
  <2>3. /\ schedules'[id] = Row(enabled, cadence, next)
        /\ \A x \in Id : x # id => schedules'[x] = schedules[x]
    BY <2>2 DEF TypeOK
  <2>4. Born'
    BY <2>2, <2>3, RunParts, EditParts DEF Born, Row, Unborn
  <2>5. EditAlone'
    BY <2>2 DEF EditAlone, Editing, Executing, Unedited
  <2>6. RunsFit'
    BY <2>2, <2>3, RunParts DEF RunsFit, Born, Unedited, Exists
  <2>7. EditsFit'
    BY <2>2, <2>3, EditParts DEF EditsFit, Born, Unedited, Exists
  <2>8. NextFollowsSchedule'
    BY <2>1, <2>2, <2>3 DEF NextFollowsSchedule, Unedited, Exists, Fits, Row
  <2> QED
    BY <2>4, <2>5, <2>6, <2>7, <2>8
<1>3. ASSUME NEW id \in Id, Delete(id) PROVE Matching'
  <2>1. /\ schedules'[id] = Deleted
        /\ \A x \in Id : x # id => schedules'[x] = schedules[x]
        /\ UNCHANGED <<run, edit, disturbed>>
    BY <1>3 DEF Delete, TypeOK
  <2>2. Born'
    BY <2>1, RunParts, EditParts DEF Born, Deleted, Unborn
  <2>3. EditAlone'
    BY <2>1 DEF EditAlone, Editing, Executing, Unedited
  <2>4. RunsFit' /\ EditsFit'
    BY <2>1, RunParts, EditParts DEF RunsFit, EditsFit, Unedited, Exists, Deleted
  <2>5. NextFollowsSchedule'
    BY <2>1 DEF NextFollowsSchedule, Unedited, Exists, Deleted
  <2> QED
    BY <2>2, <2>3, <2>4, <2>5
<1>4. ASSUME NEW c \in Client, NEW id \in Id, NEW payload \in Payload,
             EditRead(c, id, payload.enabled, payload.cadence)
      PROVE  Matching'
  <2> DEFINE enabled == Merged(schedules[id].enabled, payload.enabled)
             cadence == Merged(schedules[id].cadence, payload.cadence)
             next == NextRun(enabled, cadence, clock)
  <2>1. Exists(id) /\ UNCHANGED <<schedules, run>>
    BY <1>4 DEF EditRead
  <2>2. Fits(enabled, cadence, next)
    <3>1. /\ payload.enabled \in BOOLEAN \cup {Keep}
          /\ payload.cadence \in Cadence \cup {Keep}
      BY PayloadAssumption
    <3>2. enabled \in BOOLEAN /\ cadence \in Cadence
      BY <2>1, <3>1, MergedFields
    <3>3. clock \in Nat
      BY BoundAssumption DEF TypeOK
    <3> QED
      BY <3>2, <3>3, NextRunFits
  <2> HIDE DEF next
  <2>3. /\ edit'[c] = [stage |-> "computed", id |-> id, enabled |-> payload.enabled,
                       cadence |-> payload.cadence, next |-> next]
        /\ \A b \in Client : b # c => edit'[b] = edit[b]
    BY <1>4 DEF EditRead, TypeOK, next
  <2>4. /\ disturbed[id] \subseteq disturbed'[id]
        /\ \A x \in Id : x # id => disturbed'[x] = disturbed[x]
        /\ (\E b \in Client \ {c} : Editing(b, id)) => "edit" \in disturbed'[id]
        /\ (\E t \in Thread : Executing(t, id)) => "edit" \in disturbed'[id]
    BY <1>4 DEF EditRead, TypeOK, MetByEdit
  <2>5. Born'
    BY <2>1, <2>3 DEF Born, Exists, Unborn
  <2>6. EditAlone'
    BY <2>1, <2>3, <2>4 DEF EditAlone, Editing, Executing, Unedited
  <2>7. RunsFit'
    BY <2>1, <2>4, RunParts DEF RunsFit, Unedited, Exists
  <2>8. EditsFit'
    BY <2>1, <2>2, <2>3, <2>4, EditParts DEF EditsFit, Unedited, Exists
  <2>9. NextFollowsSchedule'
    BY <2>1, <2>4 DEF NextFollowsSchedule, Unedited, Exists
  <2> QED
    BY <2>5, <2>6, <2>7, <2>8, <2>9
<1>5. ASSUME NEW c \in Client, EditMerge(c) PROVE Matching'
  <2> DEFINE e == edit[c]
  <2>1. /\ e.stage = "computed" /\ e.id \in Id
        /\ UNCHANGED <<schedules, run, disturbed>>
        /\ \A b \in Client : b # c => edit'[b] = edit[b]
        /\ edit'[c] = IF Exists(e.id)
                      THEN [stage |-> "merged", id |-> e.id,
                            row |-> Row(Merged(schedules[e.id].enabled, e.enabled),
                                        Merged(schedules[e.id].cadence, e.cadence), e.next)]
                      ELSE NoEdit
    BY <1>5, EditParts DEF EditMerge, TypeOK
  <2>2. Born'
    BY <2>1 DEF Born, NoEdit
  <2>3. EditAlone'
    BY <2>1 DEF EditAlone, Editing, Executing, Unedited, NoEdit
  <2>4. RunsFit'
    BY <2>1 DEF RunsFit, Unedited, Exists
  <2>5. EditsFit'
    BY <2>1 DEF EditsFit, Unedited, Exists, Row, NoEdit
  <2>6. NextFollowsSchedule'
    BY <2>1 DEF NextFollowsSchedule, Unedited, Exists
  <2> QED
    BY <2>2, <2>3, <2>4, <2>5, <2>6
<1>6. ASSUME NEW c \in Client, EditWrite(c) PROVE Matching'
  <2> DEFINE id == edit[c].id
             row == edit[c].row
  <2>1. /\ edit[c].stage = "merged" /\ id \in Id /\ row \in RowType
        /\ UNCHANGED <<run, disturbed>>
        /\ edit'[c] = NoEdit
        /\ \A b \in Client : b # c => edit'[b] = edit[b]
        /\ \A x \in Id : x # id => schedules'[x] = schedules[x]
        /\ schedules'[id] = IF Exists(id) THEN row ELSE schedules[id]
    BY <1>6, EditParts DEF EditWrite, TypeOK
  <2> HIDE DEF row
  <2>2. Unedited(id) => /\ Fits(row.enabled, row.cadence, row.next)
                        /\ \A t \in Thread : ~ Executing(t, id)
                        /\ \A b \in Client : b # c => ~ Editing(b, id)
    BY <2>1 DEF EditsFit, EditAlone, Editing, row
  <2>3. Born'
    BY <2>1, RunParts, EditParts DEF Born, NoEdit, RowType, Unborn
  <2>4. EditAlone'
    BY <2>1 DEF EditAlone, Editing, Executing, Unedited, NoEdit
  <2>5. RunsFit'
    BY <2>1, <2>2, RunParts DEF RunsFit, Executing, Unedited, Exists
  <2>6. EditsFit'
    BY <2>1, <2>2, EditParts DEF EditsFit, Editing, Unedited, Exists, NoEdit
  <2>7. NextFollowsSchedule'
    BY <2>1, <2>2 DEF NextFollowsSchedule, Unedited, Exists, Fits
  <2> QED
    BY <2>3, <2>4, <2>5, <2>6, <2>7
<1>7. ASSUME NEW c \in Client, NEW id \in Id, RunNow(c, id) PROVE Matching'
  BY <1>7, FetchKeeps DEF RunNow, Thread
<1>8. ASSUME NEW w \in Worker, CollectDue(w) PROVE Matching'
  BY <1>8 DEF CollectDue, Born, EditAlone, Editing, Executing, RunsFit, EditsFit,
              NextFollowsSchedule, Unedited, Exists
<1>9. ASSUME NEW w \in Worker, FetchDue(w) PROVE Matching'
  <2>1. PICK item \in due[w] : /\ Fetch(w, item.id, item.slot)
                               /\ UNCHANGED <<schedules, edit>>
    BY <1>9 DEF FetchDue
  <2>2. w \in Thread /\ item.id \in Id /\ item.slot \in Nat
    BY DEF TypeOK, Thread
  <2> QED
    BY <2>1, <2>2, FetchKeeps
<1>10. ASSUME NEW w \in Worker, FetchMissing(w) PROVE Matching'
  BY <1>10 DEF FetchMissing, Born, EditAlone, Editing, Executing, RunsFit, EditsFit,
               NextFollowsSchedule, Unedited, Exists
<1>11. ASSUME NEW t \in Thread, Deliver(t) PROVE Matching'
  <2> DEFINE next == NextRun(run[t].enabled, run[t].cadence, clock)
  <2>1. /\ run[t].stage = "fetched" /\ run[t].id \in Id
        /\ UNCHANGED <<schedules, edit, disturbed>>
    BY <1>11, RunParts DEF Deliver
  <2>2. Fits(run[t].enabled, run[t].cadence, next)
    <3>1. run[t].enabled \in BOOLEAN /\ run[t].cadence \in Cadence
      BY <2>1, RunParts
    <3>2. clock \in Nat
      BY BoundAssumption DEF TypeOK
    <3> QED
      BY <3>1, <3>2, NextRunFits
  <2> HIDE DEF next
  <2>3. /\ run'[t] = [stage |-> "delivered", id |-> run[t].id, slot |-> run[t].slot, next |-> next]
        /\ \A u \in Thread : u # t => run'[u] = run[u]
    BY <1>11 DEF Deliver, TypeOK, next
  <2>4. Born'
    BY <2>1, <2>3 DEF Born
  <2>5. EditAlone'
    BY <2>1, <2>3 DEF EditAlone, Editing, Executing, Unedited
  <2>6. RunsFit'
    BY <2>1, <2>2, <2>3 DEF RunsFit, Unedited, Exists
  <2>7. EditsFit' /\ NextFollowsSchedule'
    BY <2>1 DEF EditsFit, NextFollowsSchedule, Unedited, Exists
  <2> QED
    BY <2>4, <2>5, <2>6, <2>7
<1>12. ASSUME NEW t \in Thread, Break(t), UNCHANGED <<schedules, edit, disturbed>>
       PROVE  Matching'
  <2>1. run'[t] = NoRun /\ \A u \in Thread : u # t => run'[u] = run[u]
    BY <1>12 DEF Break, TypeOK
  <2>2. Born' /\ EditAlone'
    BY <1>12, <2>1 DEF Born, EditAlone, Editing, Executing, Unedited, NoRun
  <2>3. RunsFit' /\ EditsFit' /\ NextFollowsSchedule'
    BY <1>12, <2>1 DEF RunsFit, EditsFit, NextFollowsSchedule, Unedited, Exists, NoRun
  <2> QED
    BY <2>2, <2>3
<1>13. ASSUME NEW t \in Thread, Record(t), Exists(run[t].id) PROVE Matching'
  <2> DEFINE id == run[t].id
  <2>1. /\ run[t].stage = "delivered" /\ id \in Id
        /\ UNCHANGED <<edit, disturbed>>
        /\ run'[t] = [stage |-> "recorded", id |-> id]
        /\ \A u \in Thread : u # t => run'[u] = run[u]
        /\ \A x \in Id : x # id => schedules'[x] = schedules[x]
        /\ schedules'[id] = [schedules[id] EXCEPT !.next = run[t].next]
    BY <1>13, RunParts DEF Record, TypeOK
  <2>2. schedules[id] \in RowType
    BY <1>13, <2>1, RowParts
  <2>3. /\ schedules'[id].state = "stored"
        /\ schedules'[id].enabled = schedules[id].enabled
        /\ schedules'[id].cadence = schedules[id].cadence
        /\ schedules'[id].next = run[t].next
    BY <2>1, <2>2 DEF RowType
  <2>4. \A x \in Id : Exists(x)' <=> Exists(x)
    BY <1>13, <2>1, <2>3 DEF Exists
  <2>5. \A x \in Id : Exists(x) => /\ schedules'[x].enabled = schedules[x].enabled
                                   /\ schedules'[x].cadence = schedules[x].cadence
    BY <2>1, <2>3
  <2>6. Born'
    BY <2>1, <2>3, RunParts, EditParts DEF Born, Unborn
  <2>7. EditAlone'
    BY <2>1 DEF EditAlone, Editing, Executing, Unedited
  <2>8. RunsFit'
    BY <2>1, <2>4, <2>5, RunParts DEF RunsFit, Unedited
  <2>9. EditsFit'
    BY <2>1, <2>4, <2>5, EditParts DEF EditsFit, Unedited
  <2>10. NextFollowsSchedule'
    <3> SUFFICES ASSUME NEW x \in Id, Exists(x), Unedited(x)
                 PROVE  Fits(schedules'[x].enabled, schedules'[x].cadence, schedules'[x].next)
      BY <2>1, <2>4 DEF NextFollowsSchedule, Fits, Unedited
    <3>1. CASE x = id
      <4>1. Fits(schedules[id].enabled, schedules[id].cadence, run[t].next)
        BY <2>1, <3>1 DEF RunsFit
      <4> QED
        BY <2>3, <3>1, <4>1
    <3>2. CASE x # id
      BY <2>1, <3>2 DEF NextFollowsSchedule, Fits, Unedited
    <3> QED
      BY <3>1, <3>2
  <2> QED
    BY <2>6, <2>7, <2>8, <2>9, <2>10
<1>14. ASSUME NEW t \in Thread, Record(t) PROVE Matching'
  BY <1>12, <1>13, <1>14 DEF Record
<1>15. ASSUME NEW t \in Thread, Reload(t) PROVE Matching'
  <2>1. /\ \A u \in Thread : run'[u] \in {run[u], NoRun}
        /\ UNCHANGED <<schedules, edit, disturbed>>
    BY <1>15 DEF Reload, Break, TypeOK
  <2>2. Born' /\ EditAlone'
    BY <2>1 DEF Born, EditAlone, Editing, Executing, Unedited, NoRun
  <2>3. RunsFit' /\ EditsFit' /\ NextFollowsSchedule'
    BY <2>1 DEF RunsFit, EditsFit, NextFollowsSchedule, Unedited, Exists, NoRun
  <2> QED
    BY <2>2, <2>3
<1>16. ASSUME NEW p \in Process, Crash(p) PROVE Matching'
  <2>1. /\ \A u \in Thread : run'[u] \in {run[u], NoRun}
        /\ \A c \in Client : edit'[c] \in {edit[c], NoEdit}
        /\ \A id \in Id : Unedited(id)' <=> Unedited(id)
        /\ UNCHANGED schedules
    BY <1>16 DEF Crash, TypeOK, Unedited
  <2>2. Born' /\ EditAlone'
    BY <2>1 DEF Born, EditAlone, Editing, Executing, NoRun, NoEdit
  <2>3. RunsFit' /\ EditsFit' /\ NextFollowsSchedule'
    BY <2>1, RunParts, EditParts DEF RunsFit, EditsFit, NextFollowsSchedule, Unedited, Exists, NoRun, NoEdit
  <2> QED
    BY <2>2, <2>3
<1>17. CASE UNCHANGED vars
  BY <1>17 DEF vars, Born, EditAlone, Editing, Executing, RunsFit, EditsFit, NextFollowsSchedule,
               Unedited, Exists
<1> QED
  BY <1>1, <1>2, <1>3, <1>4, <1>5, <1>6, <1>7, <1>8, <1>9, <1>10, <1>11, <1>14, <1>15, <1>16, <1>17
  DEF Next

\* At first nothing is scheduled and nobody works.
LEMMA InitMatches ==
    ASSUME Init
    PROVE  NextInv
<1>1. TypeOK
  BY BoundAssumption DEF Init, TypeOK, RunType, EditType
<1>2. Born /\ EditAlone /\ RunsFit /\ EditsFit /\ NextFollowsSchedule
  BY DEF Init, Born, EditAlone, Editing, RunsFit, EditsFit, NextFollowsSchedule, Exists,
         NoRun, NoEdit, Unborn, Thread
<1> QED
  BY <1>1, <1>2 DEF NextInv

\* Whatever the number of schedules, threads and processes, the next run of a
\* schedule is that of the schedule as it stands, unless an edit has met another
\* operation.
THEOREM ScheduleInvariant == Spec => []ScheduleInv
<1>1. Init => NextInv
  BY InitMatches
<1>2. NextInv /\ [Next]_vars => NextInv'
  BY TypeStep, MatchingStep DEF NextInv, Matching
<1>3. NextInv => ScheduleInv
  BY DEF NextInv, ScheduleInv
<1> QED
  BY <1>1, <1>2, <1>3, PTL DEF Spec

------------------------------------------------------------------------------
(* Reports are sent once, where one worker leads.                          *)

Calm(id) == disturbed[id] = {}
Sends(t, id) == run[t].stage = "delivered" /\ run[t].id = id

\* A next run that no slot already served has reached.
Ahead(next, id) == next = Never \/ \A slot \in delivered[id] : next > slot

\* The locks of the processes, and what is noted where they do not reach, keep
\* executions of one schedule apart.
RunsAlone ==
    \A t, u \in Thread, id \in Id :
        Executing(t, id) /\ Executing(u, id) /\ "run" \notin disturbed[id] => t = u

\* Only workers serve slots, and none before its time.
SlotsHaveCome ==
    /\ \A c \in Client : run[c].stage \in {"fetched", "delivered"} => run[c].slot = Requested
    /\ \A w \in Worker : run[w].stage \in {"fetched", "delivered"} => run[w].slot \in 0 .. clock
    /\ \A w \in Worker : \A item \in due[w] : item.slot <= clock
    /\ \A id \in Id : \A slot \in delivered[id] : slot <= clock

\* What is computed lies ahead of what is served, and so does what is stored
\* unless a worker has just served it.
NextIsAhead ==
    /\ \A t \in Thread : run[t].stage = "delivered" /\ Calm(run[t].id) => Ahead(run[t].next, run[t].id)
    /\ \A c \in Client :
          /\ edit[c].stage = "computed" /\ Calm(edit[c].id) => Ahead(edit[c].next, edit[c].id)
          /\ edit[c].stage = "merged" /\ Calm(edit[c].id) => Ahead(edit[c].row.next, edit[c].id)
    /\ \A id \in Id : Exists(id) /\ Calm(id) =>
          Ahead(schedules[id].next, id) \/ \E w \in Worker : Sends(w, id)

\* A schedule is in a batch once, and what waits or has begun was not served.
BatchIsNew ==
    \A w \in Worker :
        /\ \A i, j \in due[w] : i.id = j.id => i = j
        /\ \A i \in due[w] : run[w].stage = "fetched" => i.id # run[w].id
        /\ \A i \in due[w] : Calm(i.id) => i.slot \notin delivered[i.id]
        /\ run[w].stage = "fetched" /\ Calm(run[w].id) => run[w].slot \notin delivered[run[w].id]

Serving == RunsAlone /\ SlotsHaveCome /\ NextIsAhead /\ BatchIsNew
SlotInv == NextInv /\ Serving

SingleWorker == \A v, w \in Worker : v = w

\* An execution that takes up a schedule is alone with it.
LEMMA FetchServes ==
    ASSUME SlotInv, NEW t \in Thread, NEW id \in Id, NEW slot \in Nat \cup {Requested},
           Fetch(t, id, slot), UNCHANGED <<clock, schedules, edit, delivered>>
    PROVE  /\ RunsAlone'
           /\ NextIsAhead'
           /\ \A x \in Id : Calm(x)' => Calm(x)
           /\ run'[t].id = id /\ run'[t].slot = slot
           /\ \A u \in Thread : u # t => run'[u] = run[u]
<1> USE DEF SlotInv, NextInv, Serving
<1>1. /\ run[t].stage = "idle"
      /\ run'[t] = [stage |-> "fetched", id |-> id, slot |-> slot,
                    enabled |-> schedules[id].enabled, cadence |-> schedules[id].cadence]
      /\ \A u \in Thread : u # t => run'[u] = run[u]
  BY DEF Fetch, TypeOK
<1>2. /\ \A x \in Id : disturbed[x] \subseteq disturbed'[x]
      /\ \A u \in Thread : Home[u] # Home[t] /\ Executing(u, id) => "run" \in disturbed'[id]
      /\ \A u \in Thread : Home[u] = Home[t] => ~ Executing(u, id)
  BY DEF Fetch, TypeOK, MetByRun, LockFree, Executing
<1>3. \A x \in Id : Calm(x)' => Calm(x)
  BY <1>2 DEF Calm
<1>4. RunsAlone'
  BY <1>1, <1>2 DEF RunsAlone, Executing
<1>5. NextIsAhead'
  <2>1. \A u \in Thread : run'[u].stage = "delivered" => run'[u] = run[u]
    BY <1>1
  <2>2. \A w \in Worker, x \in Id : Sends(w, x) => Sends(w, x)'
    BY <1>1 DEF Sends, Thread
  <2>3. \A x \in Id : \A next : Ahead(next, x)' <=> Ahead(next, x)
    BY DEF Ahead
  <2> QED
    BY <1>3, <2>1, <2>2, RunParts, EditParts DEF NextIsAhead, Ahead, Exists
<1> QED
  BY <1>1, <1>3, <1>4, <1>5

\* Every step keeps what makes a report served once for a slot.
LEMMA ServingStep ==
    ASSUME SingleWorker, SlotInv, [Next]_vars
    PROVE  Serving'
<1> USE DEF SlotInv, Serving
<1> clock \in Nat /\ TypeOK
  BY BoundAssumption DEF NextInv, TypeOK
<1> Worker \subseteq Thread /\ Client \subseteq Thread
  BY DEF Thread
<1>1. CASE Tick
  BY <1>1 DEF Tick, RunsAlone, SlotsHaveCome, NextIsAhead, BatchIsNew, Calm, Sends, Ahead, Executing, Exists, TypeOK
<1>2. ASSUME NEW id \in Id, NEW enabled \in BOOLEAN, NEW cadence \in Cadence,
             Create(id, enabled, cadence)
      PROVE  Serving'
  <2> DEFINE next == NextRun(enabled, cadence, clock)
  <2>1. next \in NextOrNever /\ (next = Never \/ next > clock)
    BY NextRunFits
  <2> HIDE DEF next
  <2>2. /\ schedules'[id].next = next
        /\ \A x \in Id : x # id => schedules'[x] = schedules[x]
        /\ UNCHANGED <<clock, due, run, edit, delivered, disturbed>>
    BY <1>2 DEF Create, TypeOK, Row, next
  <2>3. Ahead(next, id)
    BY <2>1 DEF SlotsHaveCome, Ahead, TypeOK, NextOrNever
  <2>4. RunsAlone' /\ SlotsHaveCome' /\ BatchIsNew'
    BY <2>2 DEF RunsAlone, SlotsHaveCome, BatchIsNew, Calm, Executing
  <2>5. NextIsAhead'
    BY <2>2, <2>3 DEF NextIsAhead, Calm, Sends, Ahead, Exists
  <2> QED
    BY <2>4, <2>5
<1>3. ASSUME NEW id \in Id, Delete(id) PROVE Serving'
  <2>1. /\ schedules'[id] = Deleted
        /\ \A x \in Id : x # id => schedules'[x] = schedules[x]
        /\ UNCHANGED <<clock, due, run, edit, delivered, disturbed>>
    BY <1>3 DEF Delete, TypeOK
  <2>2. RunsAlone' /\ SlotsHaveCome' /\ BatchIsNew'
    BY <2>1 DEF RunsAlone, SlotsHaveCome, BatchIsNew, Calm, Executing
  <2>3. NextIsAhead'
    BY <2>1 DEF NextIsAhead, Calm, Sends, Ahead, Exists, Deleted
  <2> QED
    BY <2>2, <2>3
<1>4. ASSUME NEW c \in Client, NEW id \in Id, NEW payload \in Payload,
             EditRead(c, id, payload.enabled, payload.cadence)
      PROVE  Serving'
  <2> DEFINE enabled == Merged(schedules[id].enabled, payload.enabled)
             cadence == Merged(schedules[id].cadence, payload.cadence)
             next == NextRun(enabled, cadence, clock)
  <2>1. next \in NextOrNever /\ (next = Never \/ next > clock)
    <3>1. /\ payload.enabled \in BOOLEAN \cup {Keep}
          /\ payload.cadence \in Cadence \cup {Keep}
      BY PayloadAssumption
    <3>2. enabled \in BOOLEAN /\ cadence \in Cadence
      BY <1>4, <3>1, MergedFields DEF EditRead
    <3> QED
      BY <3>2, NextRunFits
  <2> HIDE DEF next
  <2>2. /\ edit'[c] = [stage |-> "computed", id |-> id, enabled |-> payload.enabled,
                       cadence |-> payload.cadence, next |-> next]
        /\ \A b \in Client : b # c => edit'[b] = edit[b]
        /\ \A x \in Id : disturbed[x] \subseteq disturbed'[x]
        /\ UNCHANGED <<clock, schedules, due, run, delivered>>
    BY <1>4 DEF EditRead, TypeOK, next
  <2>3. \A x \in Id : Calm(x)' => Calm(x)
    BY <2>2 DEF Calm
  <2>4. Ahead(next, id)
    BY <2>1 DEF SlotsHaveCome, Ahead, TypeOK, NextOrNever
  <2>5. RunsAlone'
    BY <2>2 DEF RunsAlone, Executing
  <2>6. SlotsHaveCome'
    BY <2>2 DEF SlotsHaveCome
  <2>7. BatchIsNew'
    BY <2>2, <2>3, RunParts DEF BatchIsNew, TypeOK
  <2>8. NextIsAhead'
    BY <2>2, <2>3, <2>4, RunParts, EditParts DEF NextIsAhead, Sends, Ahead, Exists
  <2> QED
    BY <2>5, <2>6, <2>7, <2>8
<1>5. ASSUME NEW c \in Client, EditMerge(c) PROVE Serving'
  <2>1. /\ edit[c].stage = "computed"
        /\ UNCHANGED <<clock, schedules, due, run, delivered, disturbed>>
        /\ \A b \in Client : b # c => edit'[b] = edit[b]
        /\ \/ edit'[c] = NoEdit
           \/ /\ edit'[c].stage = "merged" /\ edit'[c].id = edit[c].id
              /\ edit'[c].row.next = edit[c].next
    BY <1>5 DEF EditMerge, TypeOK, Row
  <2>2. RunsAlone' /\ SlotsHaveCome' /\ BatchIsNew'
    BY <2>1 DEF RunsAlone, SlotsHaveCome, BatchIsNew, Calm, Executing
  <2>3. NextIsAhead'
    BY <2>1 DEF NextIsAhead, Calm, Sends, Ahead, Exists, NoEdit
  <2> QED
    BY <2>2, <2>3
<1>6. ASSUME NEW c \in Client, EditWrite(c) PROVE Serving'
  <2> DEFINE id == edit[c].id
  <2>1. /\ edit[c].stage = "merged" /\ id \in Id /\ edit[c].row \in RowType
        /\ UNCHANGED <<clock, due, run, delivered, disturbed>>
        /\ edit'[c] = NoEdit
        /\ \A b \in Client : b # c => edit'[b] = edit[b]
        /\ \A x \in Id : x # id => schedules'[x] = schedules[x]
        /\ schedules'[id] = IF Exists(id) THEN edit[c].row ELSE schedules[id]
    BY <1>6, EditParts DEF EditWrite, TypeOK
  <2>2. RunsAlone' /\ SlotsHaveCome' /\ BatchIsNew'
    BY <2>1 DEF RunsAlone, SlotsHaveCome, BatchIsNew, Calm, Executing
  <2>3. NextIsAhead'
    BY <2>1 DEF NextIsAhead, Calm, Sends, Ahead, Exists, NoEdit
  <2> QED
    BY <2>2, <2>3
<1>7. ASSUME NEW c \in Client, NEW id \in Id, RunNow(c, id) PROVE Serving'
  <2>1. Fetch(c, id, Requested) /\ UNCHANGED <<clock, schedules, due, edit, delivered>>
    BY <1>7 DEF RunNow
  <2>2. /\ RunsAlone' /\ NextIsAhead'
        /\ \A x \in Id : Calm(x)' => Calm(x)
        /\ run'[c].slot = Requested
        /\ \A w \in Thread : w # c => run'[w] = run[w]
    <3>1. c \in Thread /\ Requested \in Nat \cup {Requested}
      OBVIOUS
    <3> HIDE DEF SlotInv, Serving
    <3> QED
      BY <2>1, <3>1, FetchServes DEF Serving
  <2>3. \A w \in Worker : run'[w] = run[w]
    BY <2>2, ThreadAssumption
  <2>4. SlotsHaveCome'
    BY <2>1, <2>2, <2>3 DEF SlotsHaveCome
  <2>5. BatchIsNew'
    BY <2>1, <2>2, <2>3, RunParts DEF BatchIsNew, TypeOK
  <2> QED
    BY <2>2, <2>4, <2>5
<1>8. ASSUME NEW w \in Worker, CollectDue(w) PROVE Serving'
  <2>1. /\ run[w].stage = "idle"
        /\ \A v \in Worker : v = w
        /\ due'[w] = {[id |-> id, slot |-> schedules[id].next] : id \in {x \in Id : IsDue(x)}}
        /\ UNCHANGED <<clock, schedules, run, edit, delivered, disturbed>>
    BY <1>8 DEF CollectDue, TypeOK, SingleWorker
  <2>2. RunsAlone' /\ NextIsAhead'
    BY <2>1 DEF RunsAlone, NextIsAhead, Calm, Sends, Ahead, Executing, Exists
  <2>3. SlotsHaveCome'
    BY <2>1 DEF SlotsHaveCome, IsDue
  <2>4. \A id \in Id : IsDue(id) /\ Calm(id) => schedules[id].next \notin delivered[id]
    <3> SUFFICES ASSUME NEW id \in Id, IsDue(id), Calm(id), schedules[id].next \in delivered[id]
                 PROVE  FALSE
      OBVIOUS
    <3>1. \A v \in Worker : ~ Sends(v, id)
      BY <2>1 DEF Sends
    <3>2. Ahead(schedules[id].next, id)
      BY <3>1 DEF NextIsAhead, IsDue
    <3>3. schedules[id].next \in Nat
      BY RowParts DEF IsDue, NextOrNever
    <3> QED
      BY <3>2, <3>3 DEF Ahead, IsDue
  <2>5. BatchIsNew'
    BY <2>1, <2>4 DEF BatchIsNew, Calm
  <2> QED
    BY <2>2, <2>3, <2>5
<1>9. ASSUME NEW w \in Worker, FetchDue(w) PROVE Serving'
  <2>1. PICK item \in due[w] : /\ Fetch(w, item.id, item.slot)
                               /\ due' = [due EXCEPT ![w] = @ \ {item}]
                               /\ UNCHANGED <<clock, schedules, edit, delivered>>
    BY <1>9 DEF FetchDue
  <2>2. item.id \in Id /\ item.slot \in Nat
    BY DEF TypeOK
  <2>3. /\ RunsAlone' /\ NextIsAhead'
        /\ \A x \in Id : Calm(x)' => Calm(x)
        /\ run'[w].id = item.id /\ run'[w].slot = item.slot
        /\ \A u \in Thread : u # w => run'[u] = run[u]
    <3>1. w \in Thread
      OBVIOUS
    <3> HIDE DEF SlotInv, Serving
    <3> QED
      BY <2>1, <2>2, <3>1, FetchServes
  <2>4. /\ due'[w] = due[w] \ {item}
        /\ \A v \in Worker : v = w
    BY <2>1 DEF TypeOK, SingleWorker
  <2>5. \A c \in Client : run'[c] = run[c]
    BY <2>3, ThreadAssumption
  <2>6. SlotsHaveCome'
    BY <2>1, <2>2, <2>3, <2>4, <2>5 DEF SlotsHaveCome
  <2>7. BatchIsNew'
    BY <2>1, <2>2, <2>3, <2>4 DEF BatchIsNew, TypeOK
  <2> QED
    BY <2>3, <2>6, <2>7
<1>10. ASSUME NEW w \in Worker, FetchMissing(w) PROVE Serving'
  <2>1. /\ \A v \in Worker : due'[v] \subseteq due[v]
        /\ UNCHANGED <<clock, schedules, run, edit, delivered, disturbed>>
    BY <1>10 DEF FetchMissing, TypeOK
  <2>2. RunsAlone' /\ SlotsHaveCome' /\ BatchIsNew'
    BY <2>1 DEF RunsAlone, SlotsHaveCome, BatchIsNew, Calm, Executing
  <2>3. NextIsAhead'
    BY <2>1 DEF NextIsAhead, Calm, Sends, Ahead, Exists
  <2> QED
    BY <2>2, <2>3
<1>11. ASSUME NEW t \in Thread, Deliver(t) PROVE Serving'
  <2> DEFINE id == run[t].id
             next == NextRun(run[t].enabled, run[t].cadence, clock)
  <2>1. /\ run[t].stage = "fetched" /\ id \in Id
        /\ run[t].slot \in Nat \cup {Requested}
        /\ UNCHANGED <<clock, schedules, due, edit, disturbed>>
    BY <1>11, RunParts DEF Deliver
  <2>2. next \in NextOrNever /\ (next = Never \/ next > clock)
    <3>1. run[t].enabled \in BOOLEAN /\ run[t].cadence \in Cadence
      BY <2>1, RunParts
    <3> QED
      BY <3>1, NextRunFits
  <2> HIDE DEF next
  <2>3. /\ run'[t] = [stage |-> "delivered", id |-> id, slot |-> run[t].slot, next |-> next]
        /\ \A u \in Thread : u # t => run'[u] = run[u]
    BY <1>11 DEF Deliver, TypeOK, next
  <2>4. /\ \A x \in Id : x # id => delivered'[x] = delivered[x]
        /\ delivered'[id] = IF run[t].slot = Requested THEN delivered[id]
                            ELSE delivered[id] \cup {run[t].slot}
    BY <1>11, <2>1 DEF Deliver, TypeOK
  <2>5. \A slot \in delivered'[id] : slot <= clock
    BY <2>1, <2>4, ThreadAssumption DEF SlotsHaveCome, Thread
  <2>6. RunsAlone'
    BY <2>1, <2>3 DEF RunsAlone, Executing
  <2>7. SlotsHaveCome'
    BY <2>1, <2>3, <2>4, <2>5 DEF SlotsHaveCome
  <2>8. run[t].slot # Requested => t \in Worker /\ \A v \in Worker : v = t
    BY <2>1 DEF SlotsHaveCome, Thread, SingleWorker
  <2>9. Calm(id) => /\ \A u \in Thread : u # t => ~ Executing(u, id)
                    /\ \A c \in Client : ~ Editing(c, id)
    BY <2>1 DEF NextInv, RunsAlone, EditAlone, Calm, Unedited, Executing
  <2>10. next = Never \/ \A slot \in delivered'[id] : next > slot
    <3>1. delivered'[id] \subseteq Nat
      BY <2>1, <2>4 DEF TypeOK
    <3> QED
      BY <2>2, <2>5, <3>1 DEF NextOrNever
  <2>11. NextIsAhead'
    <3>1. ASSUME NEW u \in Thread, (run[u].stage = "delivered" /\ Calm(run[u].id))'
          PROVE  Ahead(run[u].next, run[u].id)'
      <4>1. CASE u = t
        BY <2>3, <2>10, <4>1 DEF Ahead
      <4>2. CASE u # t
        <5>1. /\ run'[u] = run[u] /\ run[u].id \in Id
              /\ Calm(run[u].id) /\ run[u].id # id
          BY <2>1, <2>3, <2>9, <3>1, <4>2, RunParts DEF Calm, Executing
        <5> QED
          BY <2>4, <3>1, <5>1 DEF NextIsAhead, Ahead
      <4> QED
        BY <4>1, <4>2
    <3>2. ASSUME NEW c \in Client, edit[c].stage # "idle", Calm(edit[c].id)
          PROVE  delivered'[edit[c].id] = delivered[edit[c].id]
      BY <2>4, <2>9, <3>2, EditParts DEF Editing
    <3>3. ASSUME NEW x \in Id, Exists(x), Calm(x)
          PROVE  Ahead(schedules[x].next, x)' \/ \E w \in Worker : Sends(w, x)'
      <4>1. CASE run[t].slot # Requested /\ x = id
        BY <2>3, <2>8, <4>1 DEF Sends
      <4>2. CASE run[t].slot = Requested \/ x # id
        <5>1. delivered'[x] = delivered[x]
          BY <2>4, <4>2
        <5>2. \A w \in Worker : Sends(w, x) => Sends(w, x)'
          BY <2>1, <2>3 DEF Sends
        <5> QED
          BY <2>1, <3>3, <5>1, <5>2 DEF NextIsAhead, Ahead
      <4> QED
        BY <4>1, <4>2
    <3> QED
      BY <2>1, <3>1, <3>2, <3>3, EditParts DEF NextIsAhead, Ahead, Calm, Exists
  <2>12. BatchIsNew'
    BY <2>1, <2>3, <2>4, <2>8, <2>9, RunParts DEF BatchIsNew, Calm, Executing, TypeOK
  <2> QED
    BY <2>6, <2>7, <2>11, <2>12
<1>12. ASSUME NEW t \in Thread, Record(t), Exists(run[t].id) PROVE Serving'
  <2> DEFINE id == run[t].id
  <2>1. /\ run[t].stage = "delivered" /\ id \in Id
        /\ UNCHANGED <<clock, due, edit, delivered, disturbed>>
        /\ run'[t] = [stage |-> "recorded", id |-> id]
        /\ \A u \in Thread : u # t => run'[u] = run[u]
        /\ \A x \in Id : x # id => schedules'[x] = schedules[x]
        /\ schedules'[id] = [schedules[id] EXCEPT !.next = run[t].next]
    BY <1>12, RunParts DEF Record, TypeOK
  <2>2. schedules'[id].next = run[t].next
    BY <1>12, <2>1, RowParts DEF RowType
  <2>3. RunsAlone' /\ SlotsHaveCome' /\ BatchIsNew'
    BY <2>1 DEF RunsAlone, SlotsHaveCome, BatchIsNew, Calm, Executing
  <2>4. ASSUME NEW x \in Id, Exists(x)', Calm(x)
        PROVE  Ahead(schedules'[x].next, x) \/ \E w \in Worker : Sends(w, x)'
    <3>1. CASE x = id
      BY <2>1, <2>2, <2>4, <3>1 DEF NextIsAhead
    <3>2. CASE x # id
      <4>1. \A w \in Worker : Sends(w, x) => Sends(w, x)'
        BY <2>1, <3>2 DEF Sends
      <4> QED
        BY <2>1, <2>4, <3>2, <4>1 DEF NextIsAhead, Exists
    <3> QED
      BY <3>1, <3>2
  <2>5. \A u \in Thread : run'[u].stage = "delivered" => run'[u] = run[u]
    BY <2>1
  <2>6. NextIsAhead'
    BY <2>1, <2>4, <2>5 DEF NextIsAhead, Calm, Ahead
  <2> QED
    BY <2>3, <2>6
<1>13. ASSUME NEW t \in Thread, Break(t), ~ Exists(run[t].id) \/ run[t].stage = "recorded",
              UNCHANGED <<clock, schedules, edit, delivered, disturbed>>
       PROVE  Serving'
  <2>1. /\ run'[t] = NoRun
        /\ \A u \in Thread : u # t => run'[u] = run[u]
        /\ \A w \in Worker : due'[w] \subseteq due[w]
    BY <1>13 DEF Break, TypeOK
  <2>2. RunsAlone' /\ SlotsHaveCome' /\ BatchIsNew'
    BY <1>13, <2>1 DEF RunsAlone, SlotsHaveCome, BatchIsNew, Calm, Executing, NoRun
  <2>3. \A w \in Worker, x \in Id : Exists(x) /\ Sends(w, x) => Sends(w, x)'
    BY <1>13, <2>1 DEF Sends
  <2>4. \A u \in Thread : run'[u].stage = "delivered" => run'[u] = run[u]
    BY <2>1 DEF NoRun
  <2>5. NextIsAhead'
    BY <1>13, <2>3, <2>4 DEF NextIsAhead, Calm, Ahead, Exists
  <2> QED
    BY <2>2, <2>5
<1>14. ASSUME NEW t \in Thread, Record(t) PROVE Serving'
  <2>1. CASE Exists(run[t].id)
    BY <1>12, <1>14, <2>1
  <2>2. CASE ~ Exists(run[t].id)
    BY <1>13, <1>14, <2>2 DEF Record
  <2> QED
    BY <2>1, <2>2
<1>15. ASSUME NEW t \in Thread, Reload(t) PROVE Serving'
  <2>1. CASE ~ Exists(run[t].id)
    BY <1>13, <1>15, <2>1 DEF Reload
  <2>2. CASE Exists(run[t].id)
    <3>1. /\ run[t].stage = "recorded" /\ run'[t] = NoRun
          /\ \A u \in Thread : u # t => run'[u] = run[u]
          /\ UNCHANGED <<clock, schedules, due, edit, delivered, disturbed>>
      BY <1>15, <2>2 DEF Reload, TypeOK
    <3>2. RunsAlone' /\ SlotsHaveCome' /\ BatchIsNew'
      BY <3>1 DEF RunsAlone, SlotsHaveCome, BatchIsNew, Calm, Executing, NoRun
    <3>3. \A w \in Worker, x \in Id : Sends(w, x) => Sends(w, x)'
      BY <3>1 DEF Sends
    <3>4. \A u \in Thread : run'[u].stage = "delivered" => run'[u] = run[u]
      BY <3>1 DEF NoRun
    <3>5. NextIsAhead'
      BY <3>1, <3>3, <3>4 DEF NextIsAhead, Calm, Ahead, Exists
    <3> QED
      BY <3>2, <3>5
  <2> QED
    BY <2>1, <2>2
<1>16. ASSUME NEW p \in Process, Crash(p) PROVE Serving'
  <2>1. /\ \A u \in Thread : run'[u] = IF Home[u] = p THEN NoRun ELSE run[u]
        /\ \A w \in Worker : due'[w] \subseteq due[w]
        /\ \A c \in Client : edit'[c] \in {edit[c], NoEdit}
        /\ \A x \in Id : disturbed[x] \subseteq disturbed'[x]
        /\ \A x \in Id, u \in Thread : Home[u] = p /\ Sends(u, x) => ~ Calm(x)'
        /\ UNCHANGED <<clock, schedules, delivered>>
    BY <1>16 DEF Crash, TypeOK, Sends, Calm
  <2>2. \A x \in Id : Calm(x)' => Calm(x)
    BY <2>1 DEF Calm
  <2>3. RunsAlone'
    BY <2>1 DEF RunsAlone, Executing, NoRun
  <2>4. SlotsHaveCome'
    BY <2>1 DEF SlotsHaveCome, NoRun
  <2>5. BatchIsNew'
    BY <2>1, <2>2, RunParts DEF BatchIsNew, NoRun, TypeOK
  <2>6. \A w \in Worker, x \in Id : Calm(x)' /\ Sends(w, x) => Sends(w, x)'
    BY <2>1 DEF Sends
  <2>7. NextIsAhead'
    BY <2>1, <2>2, <2>6, RunParts, EditParts DEF NextIsAhead, Ahead, Exists, NoRun, NoEdit
  <2> QED
    BY <2>3, <2>4, <2>5, <2>7
<1>17. CASE UNCHANGED vars
  BY <1>17 DEF vars, RunsAlone, SlotsHaveCome, NextIsAhead, BatchIsNew, Calm, Sends, Ahead, Executing, Exists
<1> QED
  BY <1>1, <1>2, <1>3, <1>4, <1>5, <1>6, <1>7, <1>8, <1>9, <1>10, <1>11, <1>14, <1>15, <1>16, <1>17
  DEF Next

\* A worker that delivers serves a slot that was not served, unless something
\* has disturbed the schedule.
LEMMA DeliveryIsNew ==
    ASSUME SlotInv, [Next]_vars, NEW w \in Worker,
           run[w].stage = "fetched", run'[w].stage = "delivered"
    PROVE  run[w].slot \notin delivered[run[w].id] \/ disturbed[run[w].id] # {}
BY DEF SlotInv, Serving, BatchIsNew, Calm

\* Where one worker leads, it sends a report once for a slot, whatever requests
\* run, edit and delete beside it, in however many processes.
THEOREM SentOncePerSlot ==
    ASSUME SingleWorker
    PROVE  Spec => SlotDeliveredOnce
<1>1. Init => SlotInv
  <2> SUFFICES ASSUME Init PROVE SlotInv
    OBVIOUS
  <2>1. NextInv
    BY InitMatches
  <2>2. Serving
    BY DEF Init, Serving, RunsAlone, SlotsHaveCome, NextIsAhead, BatchIsNew, Executing, Exists,
           NoRun, NoEdit, Unborn, Thread
  <2> QED
    BY <2>1, <2>2 DEF SlotInv
<1>2. SlotInv /\ [Next]_vars => SlotInv'
  BY TypeStep, MatchingStep, ServingStep DEF SlotInv, NextInv, Matching
<1>3. SlotInv /\ [Next]_vars =>
        [\A w \in Worker : run[w].stage = "fetched" /\ run'[w].stage = "delivered" =>
            run[w].slot \notin delivered[run[w].id] \/ disturbed[run[w].id] # {}]_vars
  BY DeliveryIsNew
<1> QED
  BY <1>1, <1>2, <1>3, PTL DEF Spec, SlotDeliveredOnce
=============================================================================
