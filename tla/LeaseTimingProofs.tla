------------------------- MODULE LeaseTimingProofs -------------------------
(***************************************************************************)
(* Proofs that the bounds of LeaseTiming hold for every lease, interval,   *)
(* lag and drift.                                                          *)
(***************************************************************************)
EXTENDS LeaseTiming, LeaseTableProofs

USE DEF Table, Record

\* Storing a record granted now preserves the invariant.
LEMMA StorePreserves ==
  ASSUME IInv, NEW a \in Agents, NEW record \in Record, Store(a, record),
         record.lease = Wall + LeaseDuration
  PROVE  IInv'
<1>1. TypeOK'
  BY LeaseTableAssumption DEF IInv, TypeOK, Store
<1>2. (loopTime <= wakeAt + MaxLag)' /\ (LastSweep <= loopTime)'
  BY DEF IInv, Store, LastSweep
<1>3. ASSUME NEW b \in Agents, agents'[b] # Absent
      PROVE  (/\ grantedAt[b] + LeaseDuration <= agents[b].lease
              /\ agents[b].lease <= grantedAt[b] + LeaseDuration + MaxDrift
              /\ LastSweep < grantedAt[b] + LeaseDuration + MaxDrift)'
  <2>1. CASE b = a
    BY <2>1, LeaseTableAssumption, LeaseTimingAssumption
       DEF IInv, TypeOK, Store, LastSweep, Wall
  <2>2. CASE b # a
    BY <1>3, <2>2 DEF IInv, TypeOK, Store, LastSweep
  <2>3. QED
    BY <2>1, <2>2
<1>4. QED
  BY <1>1, <1>2, <1>3 DEF IInv

\* The invariant holds at first and every step preserves it.
LEMMA Initially == Init => IInv
  BY EmptyTable, LeaseTableAssumption, LeaseTimingAssumption
     DEF Init, IInv, TypeOK, LastSweep, Empty

LEMMA Inductive == IInv /\ [Next]_vars => IInv'
<1> SUFFICES ASSUME IInv, [Next]_vars
             PROVE  IInv'
  OBVIOUS
<1> USE LeaseTableAssumption, LeaseTimingAssumption
<1>1. ASSUME NEW c \in RegisterCall, Register(c)
      PROVE  IInv'
  <2>1. c.agent \in Agents /\ Registered(c, Wall) \in Record
    BY DEF RegisterCall, Registered, IInv, TypeOK, Wall
  <2>2. Registered(c, Wall).lease = Wall + LeaseDuration
    BY DEF Registered
  <2>3. QED
    BY <1>1, <2>1, <2>2, StorePreserves DEF Register
<1>2. ASSUME NEW a \in Agents, Renew(a)
      PROVE  IInv'
  <2>1. agents[a] \in Record
    BY <1>2 DEF Renew, IInv, TypeOK
  <2>2. Wall \in Nat
    BY DEF IInv, TypeOK, Wall
  <2>3. /\ Renewed(agents[a], Wall) \in Record
        /\ Renewed(agents[a], Wall).lease = Wall + LeaseDuration
    BY ONLY <2>1, <2>2, RenewedRecord
  <2>4. QED
    BY <1>2, <2>3, StorePreserves DEF Renew
<1>3. ASSUME NEW a \in Agents, Deregister(a)
      PROVE  IInv'
  BY <1>3 DEF Deregister, IInv, TypeOK, LastSweep
<1>4. CASE Sweep
  <2>1. WithoutExpired(agents, Wall) \in Table
    BY DEF WithoutExpired, IInv, TypeOK
  <2>2. TypeOK'
    BY <1>4, <2>1 DEF Sweep, IInv, TypeOK
  <2>3. LastSweep' = loopTime
    BY <1>4 DEF Sweep, IInv, TypeOK, LastSweep
  <2>4. (loopTime <= wakeAt + MaxLag)' /\ (LastSweep <= loopTime)'
    BY <1>4, <2>3 DEF Sweep, IInv, TypeOK
  <2>5. ASSUME NEW a \in Agents, agents'[a] # Absent
        PROVE  (/\ grantedAt[a] + LeaseDuration <= agents[a].lease
                /\ agents[a].lease <= grantedAt[a] + LeaseDuration + MaxDrift
                /\ LastSweep < grantedAt[a] + LeaseDuration + MaxDrift)'
    <3>1. /\ agents[a] # Absent /\ agents'[a] = agents[a]
          /\ ~ (agents[a].lease <= Wall)
      BY <1>4, <2>5 DEF Sweep, WithoutExpired, ExpiredAt
    <3>2. agents[a].lease \in Nat /\ grantedAt[a] \in Nat
      BY <3>1 DEF IInv, TypeOK
    <3>3. grantedAt'[a] = grantedAt[a]
      BY <1>4 DEF Sweep
    <3>4. QED
      BY <2>3, <3>1, <3>2, <3>3 DEF IInv, TypeOK, Wall
  <2>6. QED
    BY <2>2, <2>4, <2>5 DEF IInv
<1>5. CASE Tick
  BY <1>5 DEF Tick, IInv, TypeOK, LastSweep
<1>6. CASE SetClock
  BY <1>6 DEF SetClock, IInv, TypeOK, LastSweep
<1>7. CASE UNCHANGED vars
  BY <1>7 DEF vars, IInv, TypeOK, LastSweep
<1>8. QED
  BY <1>1, <1>2, <1>3, <1>4, <1>5, <1>6, <1>7 DEF Next

THEOREM Invariance == Spec => []IInv
  BY Initially, Inductive, PTL DEF Spec

-----------------------------------------------------------------------------
\* For every lease, interval, lag and drift: an agent that has died is listed
\* for less than their sum after its last renewal.
THEOREM DeadAgentsAreGone == Spec => []DeadAgentsGone
<1>1. IInv => DeadAgentsGone
  <2> SUFFICES ASSUME IInv, NEW a \in Agents, agents[a] # Absent
               PROVE  loopTime < grantedAt[a] + LeaseDuration + SweepInterval
                                     + MaxLag + MaxDrift
    BY DEF DeadAgentsGone
  <2> QED
    BY LeaseTableAssumption, LeaseTimingAssumption
       DEF IInv, TypeOK, LastSweep
<1>2. QED
  BY <1>1, Invariance, PTL

\* For every lease, interval, lag and drift: no sweep takes from an agent more
\* of its lease than the wall clock's jumps account for.
THEOREM LeasesAreHonoured == Spec => LeaseHonoured
<1> DEFINE Honoured ==
      Sweep => \A a \in Agents :
          agents[a] # Absent /\ agents'[a] = Absent
            => loopTime + MaxDrift >= grantedAt[a] + LeaseDuration
<1>1. IInv => Honoured
  <2> SUFFICES ASSUME IInv, Sweep, NEW a \in Agents,
                      agents[a] # Absent, agents'[a] = Absent
               PROVE  loopTime + MaxDrift >= grantedAt[a] + LeaseDuration
    OBVIOUS
  <2>1. agents[a].lease <= Wall
    BY DEF Sweep, WithoutExpired, ExpiredAt
  <2>2. agents[a].lease \in Nat /\ grantedAt[a] \in Nat
    BY DEF IInv, TypeOK
  <2>3. QED
    BY <2>1, <2>2, LeaseTableAssumption, LeaseTimingAssumption
       DEF IInv, TypeOK, Wall
<1>2. IInv => [Honoured]_vars
  BY <1>1
<1>3. QED
  BY <1>2, Invariance, PTL DEF LeaseHonoured
=============================================================================
