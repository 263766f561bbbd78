-------------------------- MODULE BackgroundLease --------------------------
(***************************************************************************)
(* Which process runs the background jobs of a workspace: the lease in the *)
(* setting "runtime_background_leader" and the flag _background_leader     *)
(* each process derives from it at every heartbeat (backend/app/           *)
(* runtime.py).  The lease is read, judged and written in separate calls   *)
(* to a database that several processes share, with nothing that makes     *)
(* them one.                                                               *)
(*                                                                         *)
(* Time is kept as ages: that of the lease, and the time since the last    *)
(* heartbeat of each process ended.  A process that restarts has a new     *)
(* worker id, so that the lease of its former life belongs to nobody.      *)
(***************************************************************************)
EXTENDS Integers, FiniteSets

CONSTANTS
    Process,    \* the processes with the role "all" or "worker"
    Nobody,     \* owner of a lease that no running process has written
    Heartbeat,  \* EIP_BACKGROUND_HEARTBEAT_INTERVAL_SECONDS
    Stale,      \* _background_stale_after_seconds
    Slack,      \* how late a heartbeat may end, clock skew included
    MaxFaults   \* bound on crashes and failed heartbeats together

ASSUME OwnerAssumption == Nobody \notin Process

\* The constructor raises Stale to three heartbeats; the rest is an assumption
\* about the machine.
ASSUME TimeAssumption ==
    /\ Heartbeat \in Nat \ {0} /\ Slack \in Nat /\ Stale \in Nat
    /\ Stale >= 3 * Heartbeat
    /\ Slack <= 2 * Heartbeat

ASSUME FaultAssumption == MaxFaults \in Nat

VARIABLES
    lease,    \* [owner, age] as stored; a missing lease is as good as a stale one
    pc,       \* where each process is
    leader,   \* _background_leader of each process
    elapsed,  \* time since its last heartbeat ended
    missed,   \* whether a heartbeat of it failed since the last that did not
    faults

vars == <<lease, pc, leader, elapsed, missed, faults>>

\* "first": about to write the lease in its constructor; "storing": about to
\* write it in the loop of the thread.
Places == {"down", "first", "waiting", "storing"}

Latest == Heartbeat + Slack

Up(p) == pc[p] # "down"
Claiming(p) == pc[p] \in {"first", "storing"}

Init ==
    /\ lease = [owner |-> Nobody, age |-> Stale + 1]
    /\ pc = [p \in Process |-> "down"]
    /\ leader = [p \in Process |-> FALSE]
    /\ elapsed = [p \in Process |-> 0]
    /\ missed = [p \in Process |-> FALSE]
    /\ faults = 0

\* Mutant: a lease counts as stale after one heartbeat.
IsStaleAfterHeartbeat == lease.age > Heartbeat

\* _background_leader_is_stale
IsStale == lease.age > Stale

\* What _refresh_background_leader makes of the lease it has read.
Claims(p) == IsStale \/ lease.owner = p

\* Time passes unless a heartbeat would get too late.  Ages beyond Stale are
\* all alike.
Tick ==
    /\ \A p \in Process : Up(p) => elapsed[p] < Latest
    /\ lease' = [lease EXCEPT !.age = IF @ > Stale THEN @ ELSE @ + 1]
    /\ elapsed' = [p \in Process |-> IF Up(p) THEN elapsed[p] + 1 ELSE elapsed[p]]
    /\ UNCHANGED <<pc, leader, missed, faults>>

\* The constructor reads the lease (_start_background_runtime).
Start(p) ==
    /\ pc[p] = "down"
    /\ pc' = [pc EXCEPT ![p] = IF Claims(p) THEN "first" ELSE "waiting"]
    /\ elapsed' = [elapsed EXCEPT ![p] = IF Claims(p) THEN Heartbeat ELSE 0]
    /\ UNCHANGED <<lease, leader, missed, faults>>

\* The thread wakes up and reads the lease.
Load(p) ==
    /\ pc[p] = "waiting" /\ elapsed[p] >= Heartbeat
    /\ IF Claims(p)
       THEN /\ pc' = [pc EXCEPT ![p] = "storing"]
            /\ UNCHANGED <<leader, elapsed, missed>>
       ELSE /\ leader' = [leader EXCEPT ![p] = FALSE]
            /\ elapsed' = [elapsed EXCEPT ![p] = 0]
            /\ missed' = [missed EXCEPT ![p] = FALSE]
            /\ UNCHANGED pc
    /\ UNCHANGED <<lease, faults>>

\* Mutant: an owner that renews its lease keeps the old updated_at.
StoreKeepingTime(p) ==
    /\ Claiming(p)
    /\ lease' = [owner |-> p, age |-> IF lease.owner = p THEN lease.age ELSE 0]
    /\ leader' = [leader EXCEPT ![p] = TRUE]
    /\ pc' = [pc EXCEPT ![p] = "waiting"]
    /\ elapsed' = [elapsed EXCEPT ![p] = 0]
    /\ missed' = [missed EXCEPT ![p] = FALSE]
    /\ UNCHANGED faults

\* Mutant: the flag is set by the first claim only.
StoreFirstOnly(p) ==
    /\ Claiming(p)
    /\ lease' = [owner |-> p, age |-> 0]
    /\ leader' = [leader EXCEPT ![p] = pc[p] = "first"]
    /\ pc' = [pc EXCEPT ![p] = "waiting"]
    /\ elapsed' = [elapsed EXCEPT ![p] = 0]
    /\ missed' = [missed EXCEPT ![p] = FALSE]
    /\ UNCHANGED faults

\* It writes the lease, whatever the lease has become since it was read.
Store(p) ==
    /\ Claiming(p)
    /\ lease' = [owner |-> p, age |-> 0]
    /\ leader' = [leader EXCEPT ![p] = TRUE]
    /\ pc' = [pc EXCEPT ![p] = "waiting"]
    /\ elapsed' = [elapsed EXCEPT ![p] = 0]
    /\ missed' = [missed EXCEPT ![p] = FALSE]
    /\ UNCHANGED faults

\* The storage raises in the loop of the thread: the exception is logged and
\* the flag stays what it was.
BeatFails(p) ==
    /\ \/ pc[p] = "waiting" /\ elapsed[p] >= Heartbeat
       \/ pc[p] = "storing"
    /\ faults < MaxFaults
    /\ faults' = faults + 1
    /\ pc' = [pc EXCEPT ![p] = "waiting"]
    /\ elapsed' = [elapsed EXCEPT ![p] = 0]
    /\ missed' = [missed EXCEPT ![p] = TRUE]
    /\ UNCHANGED <<lease, leader>>

\* The process ends; in its constructor a storage that raises has that effect.
Crash(p) ==
    /\ Up(p) /\ faults < MaxFaults
    /\ faults' = faults + 1
    /\ pc' = [pc EXCEPT ![p] = "down"]
    /\ leader' = [leader EXCEPT ![p] = FALSE]
    /\ missed' = [missed EXCEPT ![p] = FALSE]
    /\ lease' = [lease EXCEPT !.owner = IF @ = p THEN Nobody ELSE @]
    /\ UNCHANGED elapsed

Next ==
    \/ Tick
    \/ \E p \in Process : Start(p) \/ Load(p) \/ Store(p) \/ BeatFails(p) \/ Crash(p)

Spec == Init /\ [][Next]_vars

\* Clocks run, threads that are due get to run, and a supervisor restarts a
\* stopped process (restart: unless-stopped in the compose files).
Fairness ==
    /\ WF_vars(Tick)
    /\ \A p \in Process : WF_vars(Start(p)) /\ WF_vars(Load(p)) /\ WF_vars(Store(p))

FairSpec == Spec /\ Fairness

------------------------------------------------------------------------------
(* Properties.                                                             *)

TypeOK ==
    /\ lease \in [owner : Process \cup {Nobody}, age : 0..(Stale + 1)]
    /\ pc \in [Process -> Places]
    /\ leader \in [Process -> BOOLEAN]
    /\ elapsed \in [Process -> 0..Latest]
    /\ missed \in [Process -> BOOLEAN]
    /\ faults \in 0..MaxFaults

\* The owner of the lease runs and knows that it leads; with heartbeats that
\* succeed it keeps the lease younger than its own last heartbeat.
OwnerRenews ==
    \A p \in Process : lease.owner = p =>
        Up(p) /\ leader[p] /\ (missed[p] \/ lease.age <= elapsed[p])

\* A process that leads without owning the lease runs, and if its heartbeats
\* succeed it was overtaken after its last one and so will know at the next.
FlagIsRecent ==
    \A p \in Process : leader[p] =>
        Up(p) /\ (missed[p] \/ lease.owner = p \/ lease.age <= elapsed[p])

\* The variables keep their types, and the flags agree with the lease except for
\* processes overtaken since their last heartbeat or with a heartbeat that failed.
LeaseInv == TypeOK /\ OwnerRenews /\ FlagIsRecent

Settled(p) ==
    /\ lease.owner = p /\ ~ missed[p]
    /\ \A q \in Process \ {p} : ~ Claiming(q)

\* Nobody takes the lease from a running owner whose heartbeats succeed, unless
\* it had read a stale lease before that owner wrote its own: Stale is long
\* enough for the pace of the heartbeats.
SettledOwnerStays ==
    [][\A p \in Process : Settled(p) => Settled(p)' \/ missed'[p] \/ pc'[p] = "down"]_vars

\* Once the faults are over the jobs are never again without a process that runs
\* them: a lease nobody renews is taken over, and whoever steps down leaves an
\* owner that does not.
EventuallySomeoneLeads == <>[](\E p \in Process : leader[p])

\* Two owners whose heartbeats interleave can take the lease from each other again
\* and again, each having read its own before the other writes.  If that does not go
\* on for ever, one process, and only one, runs the jobs from some time on.
SettledElection ==
    []<>(\E p \in Process : Settled(p)) => <>[](Cardinality({p \in Process : leader[p]}) = 1)
=============================================================================
