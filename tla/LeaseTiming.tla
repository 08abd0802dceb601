---------------------------- MODULE LeaseTiming ----------------------------
(***************************************************************************)
(* How long the registry lists an agent.  The requests are the atomic ones *)
(* of LeaseRegistry, without their clients; what this module adds is the   *)
(* sweeper's timer and the two clocks the service runs on.  asyncio.sleep  *)
(* measures loopTime, the loop's monotonic clock; leases are granted and   *)
(* compared with SystemClock, the wall clock, which is loopTime plus a     *)
(* drift that time synchronisation may change at any moment, backwards or  *)
(* forwards, within MaxDrift.                                              *)
(*                                                                         *)
(* The loop is prompt: the sweep runs at most MaxLag after its timer is    *)
(* due.  Without such a bound nothing can be said about real time.         *)
(***************************************************************************)
EXTENDS LeaseTable

CONSTANTS SweepInterval,   \* lease_sweep_interval_seconds
          MaxLag,          \* how late the loop may run a due timer
          MaxDrift,        \* how far the wall clock strays from the loop's
          MaxTime          \* bound on loopTime

ASSUME LeaseTimingAssumption ==
    /\ SweepInterval \in Nat \ {0}
    /\ MaxLag \in Nat
    /\ MaxDrift \in Nat
    /\ MaxTime \in Nat

VARIABLES loopTime,   \* the loop's clock
          drift,      \* wall clock minus loopTime
          agents,     \* the table
          wakeAt,     \* when the sweeper's sleep is due, in loopTime
          grantedAt   \* history: loopTime of each agent's last lease

vars == <<loopTime, drift, agents, wakeAt, grantedAt>>

Wall == loopTime + drift

\* The variables have their types.
TypeOK ==
    /\ loopTime \in Nat
    /\ drift \in 0 .. MaxDrift
    /\ agents \in Table
    /\ wakeAt \in Nat
    /\ grantedAt \in [Agents -> Nat]

Init ==
    /\ loopTime = 0
    /\ drift \in 0 .. MaxDrift
    /\ agents = Empty
    /\ wakeAt = SweepInterval
    /\ grantedAt = [a \in Agents |-> 0]

-----------------------------------------------------------------------------
Store(a, record) ==
    /\ agents' = [agents EXCEPT ![a] = record]
    /\ grantedAt' = [grantedAt EXCEPT ![a] = loopTime]
    /\ UNCHANGED <<loopTime, drift, wakeAt>>

Register(call) == Store(call.agent, Registered(call, Wall))

\* Wrong on purpose: a renewal that leaves the lease as it was.
RenewNothing(a) ==
    /\ agents[a] # Absent
    /\ Store(a, agents[a])

Renew(a) ==
    /\ agents[a] # Absent
    /\ Store(a, Renewed(agents[a], Wall))

Deregister(a) ==
    /\ agents[a] # Absent
    /\ agents' = [agents EXCEPT ![a] = Absent]
    /\ UNCHANGED <<loopTime, drift, wakeAt, grantedAt>>

\* Wrong on purpose: the sweeper sleeps for twice the interval.
SweepRarely ==
    /\ wakeAt <= loopTime
    /\ agents' = WithoutExpired(agents, Wall)
    /\ wakeAt' = loopTime + 2 * SweepInterval
    /\ UNCHANGED <<loopTime, drift, grantedAt>>

\* The sweeper wakes, sweeps, and sleeps again for a whole interval.
Sweep ==
    /\ wakeAt <= loopTime
    /\ agents' = WithoutExpired(agents, Wall)
    /\ wakeAt' = loopTime + SweepInterval
    /\ UNCHANGED <<loopTime, drift, grantedAt>>

Tick ==
    /\ loopTime < MaxTime
    /\ loopTime < wakeAt + MaxLag
    /\ loopTime' = loopTime + 1
    /\ UNCHANGED <<drift, agents, wakeAt, grantedAt>>

\* Somebody sets the wall clock.
SetClock ==
    /\ drift' \in 0 .. MaxDrift
    /\ UNCHANGED <<loopTime, agents, wakeAt, grantedAt>>

Next ==
    \/ \E call \in RegisterCall : Register(call)
    \/ \E a \in Agents : Renew(a) \/ Deregister(a)
    \/ Sweep
    \/ Tick
    \/ SetClock

Spec == Init /\ [][Next]_vars

-----------------------------------------------------------------------------
(* Properties. *)

\* An agent that dies after its last renewal is listed for less than its lease,
\* one sweep interval, the loop's delay and the clock's stray together: the
\* bound on how stale a discovery answer can be.
DeadAgentsGone ==
    \A a \in Agents :
        agents[a] # Absent
            => loopTime < grantedAt[a] + LeaseDuration + SweepInterval
                            + MaxLag + MaxDrift

\* The sweeper leaves an agent its whole lease, less what the wall clock may
\* jump forward: an agent that renews more often than that is never dropped.
LeaseHonoured ==
    [][Sweep => \A a \in Agents :
          agents[a] # Absent /\ agents'[a] = Absent
            => loopTime + MaxDrift >= grantedAt[a] + LeaseDuration]_vars

\* Inductive: the grant and the end of a lease are LeaseDuration apart up to
\* the drift, no lease was over at the last sweep, and no sweep is overdue.
LastSweep == wakeAt - SweepInterval

IInv ==
    /\ TypeOK
    /\ loopTime <= wakeAt + MaxLag
    /\ LastSweep <= loopTime
    /\ \A a \in Agents :
        agents[a] # Absent =>
            /\ grantedAt[a] + LeaseDuration <= agents[a].lease
            /\ agents[a].lease <= grantedAt[a] + LeaseDuration + MaxDrift
            /\ LastSweep < grantedAt[a] + LeaseDuration + MaxDrift
=============================================================================
