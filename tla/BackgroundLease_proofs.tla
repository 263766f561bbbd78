----------------------- MODULE BackgroundLease_proofs -----------------------
(***************************************************************************)
(* The invariant of the background lease, and that a settled owner stays,  *)
(* for every number of processes and every admissible timing.              *)
(***************************************************************************)
EXTENDS BackgroundLease, TLAPS

\* The lease of an owner that keeps its pace is not stale: three heartbeats
\* cover the latest next one.
LEMMA RenewedIsFresh ==
    ASSUME LeaseInv, NEW p \in Process, lease.owner = p, ~ missed[p]
    PROVE  ~ IsStale
  BY TimeAssumption DEF LeaseInv, TypeOK, OwnerRenews, IsStale, Latest

\* Every step keeps the types of the variables.
LEMMA TypeStep ==
    ASSUME TypeOK, [Next]_vars
    PROVE  TypeOK'
<1> USE OwnerAssumption, TimeAssumption, FaultAssumption DEF TypeOK, Places, Latest, Up
<1>1. CASE Tick
  BY <1>1 DEF Tick
<1>2. ASSUME NEW p \in Process, Start(p) PROVE TypeOK'
  BY <1>2 DEF Start
<1>3. ASSUME NEW p \in Process, Load(p) PROVE TypeOK'
  <2>1. CASE Claims(p)
    <3>1. /\ pc' = [pc EXCEPT ![p] = "storing"]
          /\ UNCHANGED <<lease, leader, elapsed, missed, faults>>
      BY <1>3, <2>1 DEF Load
    <3>. QED
      BY <3>1
  <2>2. CASE ~ Claims(p)
    <3>1. /\ leader' = [leader EXCEPT ![p] = FALSE]
          /\ elapsed' = [elapsed EXCEPT ![p] = 0]
          /\ missed' = [missed EXCEPT ![p] = FALSE]
          /\ UNCHANGED <<lease, pc, faults>>
      BY <1>3, <2>2 DEF Load
    <3>. QED
      BY <3>1
  <2>. QED
    BY <2>1, <2>2
<1>4. ASSUME NEW p \in Process, Store(p) PROVE TypeOK'
  BY <1>4 DEF Store
<1>5. ASSUME NEW p \in Process, BeatFails(p) PROVE TypeOK'
  BY <1>5 DEF BeatFails
<1>6. ASSUME NEW p \in Process, Crash(p) PROVE TypeOK'
  BY <1>6 DEF Crash
<1>7. CASE UNCHANGED vars
  BY <1>7 DEF vars
<1>. QED
  BY <1>1, <1>2, <1>3, <1>4, <1>5, <1>6, <1>7 DEF Next

\* Every step keeps the agreement of the flags with the lease.
LEMMA AgreementStep ==
    ASSUME LeaseInv, [Next]_vars
    PROVE  OwnerRenews' /\ FlagIsRecent'
<1> USE OwnerAssumption DEF LeaseInv, TypeOK, OwnerRenews, FlagIsRecent, Up
<1>1. CASE Tick
  BY <1>1, TimeAssumption DEF Tick, Latest
<1>2. ASSUME NEW p \in Process, Start(p) PROVE OwnerRenews' /\ FlagIsRecent'
  BY <1>2 DEF Start
<1>3. ASSUME NEW p \in Process, Load(p) PROVE OwnerRenews' /\ FlagIsRecent'
  BY <1>3 DEF Load, Claims
<1>4. ASSUME NEW p \in Process, Store(p) PROVE OwnerRenews' /\ FlagIsRecent'
  BY <1>4 DEF Store, Latest
<1>5. ASSUME NEW p \in Process, BeatFails(p) PROVE OwnerRenews' /\ FlagIsRecent'
  BY <1>5 DEF BeatFails
<1>6. ASSUME NEW p \in Process, Crash(p) PROVE OwnerRenews' /\ FlagIsRecent'
  BY <1>6 DEF Crash
<1>7. CASE UNCHANGED vars
  BY <1>7 DEF vars
<1>. QED
  BY <1>1, <1>2, <1>3, <1>4, <1>5, <1>6, <1>7 DEF Next

\* The flags of the processes agree with the lease, whatever the number of
\* processes and the faults.
THEOREM LeaseInvariant == Spec => []LeaseInv
<1>1. Init => LeaseInv
  BY OwnerAssumption, TimeAssumption, FaultAssumption
  DEF Init, LeaseInv, TypeOK, OwnerRenews, FlagIsRecent, Places, Latest, Up
<1>2. LeaseInv /\ [Next]_vars => LeaseInv'
  BY TypeStep, AgreementStep DEF LeaseInv
<1>. QED
  BY <1>1, <1>2, PTL DEF Spec

\* A step takes the lease from a settled owner only when a heartbeat of the owner
\* fails or the owner stops.
LEMMA SettledStep ==
    ASSUME LeaseInv, [Next]_vars, NEW p \in Process, Settled(p)
    PROVE  Settled(p)' \/ missed'[p] \/ pc'[p] = "down"
<1> USE DEF LeaseInv, TypeOK, Settled, Claiming
<1>1. ~ IsStale
  BY RenewedIsFresh DEF Settled
<1>2. CASE Tick
  BY <1>2 DEF Tick
<1>3. ASSUME NEW q \in Process, Start(q) PROVE Settled(p)'
  BY <1>1, <1>3 DEF Start, Claims, OwnerRenews, Up
<1>4. ASSUME NEW q \in Process, Load(q) PROVE Settled(p)'
  BY <1>1, <1>4 DEF Load, Claims
<1>5. ASSUME NEW q \in Process, Store(q) PROVE Settled(p)'
  BY <1>5 DEF Store
<1>6. ASSUME NEW q \in Process, BeatFails(q) PROVE Settled(p)' \/ missed'[p]
  BY <1>6 DEF BeatFails
<1>7. ASSUME NEW q \in Process, Crash(q) PROVE Settled(p)' \/ pc'[p] = "down"
  BY <1>7 DEF Crash
<1>8. CASE UNCHANGED vars
  BY <1>8 DEF vars
<1>. QED
  BY <1>2, <1>3, <1>4, <1>5, <1>6, <1>7, <1>8 DEF Next

\* Stale is long enough: nobody takes the lease from an owner whose heartbeats
\* succeed, unless it had read a stale lease before that owner wrote its own.
THEOREM OwnerStays == Spec => SettledOwnerStays
<1>1. LeaseInv /\ [Next]_vars =>
        [\A p \in Process : Settled(p) => Settled(p)' \/ missed'[p] \/ pc'[p] = "down"]_vars
  BY SettledStep
<1>. QED
  BY <1>1, LeaseInvariant, PTL DEF Spec, SettledOwnerStays
=============================================================================
