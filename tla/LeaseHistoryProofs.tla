------------------------- MODULE LeaseHistoryProofs -------------------------
(***************************************************************************)
(* The agent registry over time, for any connections, agents and skills    *)
(* and however the clock is set: no agent that was live all along loses    *)
(* its place, and no lease is taken back by a slower request.              *)
(***************************************************************************)
EXTENDS AgentRegistryProofs

\* A step that takes records away: their history goes with them.
LEMMA RemovalClock ==
    ASSUME ClockOK, UNCHANGED <<now, sweepNow>>,
           kept' = KeptIn(agents'),
           \A a \in Agents : agents'[a] # Absent => agents[a] # Absent,
           shown' = shown,
           method'[Sweeper] # "none" => method[Sweeper] # "none"
    PROVE ClockOK'
  BY DEF ClockOK, KeptIn

LEMMA ClockNext ==
    ASSUME TaskInv, ClockOK, [Next]_vars
    PROVE ClockOK'
<1> USE AgentRegistryAssumption DEF lockVars, handlerVars, taskVars, sweepVars
<1>0. /\ pc \in [Tasks -> Places] /\ method \in [Tasks -> Methods]
      /\ agents \in Table /\ kept \in [Agents -> SUBSET Nat]
      /\ Sweeper \in Tasks /\ Requests \subseteq Tasks /\ Sweeper \notin Requests
  BY DEF TaskInv, TypeOK, Tasks
<1>1. ASSUME NEW t \in Tasks, LockStep(t) \/ Schedule(t) PROVE ClockOK'
  BY <1>1 DEF LockStep, Schedule, Acquire, Enqueue, Wake, Resume, ClockOK
<1>2. ASSUME NEW r \in Requests, Upsert(r) PROVE ClockOK'
  BY <1>0, <1>2 DEF Upsert, Leave, Finish, ClockOK, Table
<1>3. ASSUME NEW r \in Requests, Get(r) \/ BuildRegistration(r) \/ BuildRenewal(r)
      PROVE ClockOK'
  BY <1>0, <1>3
  DEF Get, BuildRegistration, BuildRenewal, CallUpsert, Leave, ClockOK
<1>4. ASSUME NEW r \in Requests,
             \/ RefuseRenewal(r) \/ ListAll(r) \/ ListCapabilities(r)
             \/ FindByCapability(r)
      PROVE ClockOK'
  BY <1>0, <1>4
  DEF RefuseRenewal, ListAll, ListCapabilities, FindByCapability, Leave, Finish,
      ClockOK
<1>5. ASSUME NEW r \in Requests, Remove(r) PROVE ClockOK'
  BY <1>0, <1>5, RemovalClock DEF Remove, Leave, Finish, Table
<1>6. ASSUME NEW r \in Requests, Arrive(r) \/ Return(r) PROVE ClockOK'
  BY <1>0, <1>6 DEF Arrive, Begin, Return, ClockOK
<1>7. CASE RemoveExpired
  BY <1>0, <1>7, SweptTable DEF RemoveExpired, Leave, KeptIn, ClockOK
<1>8. CASE SweeperWakes
  BY <1>0, <1>8 DEF SweeperWakes, Begin, ClockOK
<1>9. CASE Startup \/ StopRequested
  BY <1>9 DEF Startup, StopRequested, ClockOK
<1>10. CASE Stop
  BY <1>0, <1>10 DEF Stop, ClockOK
<1>11. CASE Boot
  BY <1>11, RemovalClock DEF Boot, Empty
<1>12. CASE ClockMoves
  BY <1>12 DEF ClockMoves, ClockOK
<1>13. CASE UNCHANGED vars
  BY <1>13 DEF vars, ClockOK
<1> QED
  BY <1>1, <1>2, <1>3, <1>4, <1>5, <1>6, <1>7, <1>8, <1>9, <1>10, <1>11, <1>12,
     <1>13 DEF Next, RunningStep, HandlerStep

LEMMA InitClock == Init => ClockOK
  BY DEF Init, ClockOK, Empty, Tasks

\* Whatever awaits do and however the clock is set: a sweep in progress works
\* with a time the clock has shown since the last one.
THEOREM ClockInvariance == Spec => []ClockOK
<1>1. TaskInv /\ ClockOK /\ [Next]_vars => ClockOK'
  BY ClockNext
<1> QED
  BY <1>1, InitClock, TaskInvariance, PTL DEF Spec

-----------------------------------------------------------------------------
(* What a step may do to the table. *)

\* A step stores a handler's record or takes records away.
LEMMA TableSteps ==
    ASSUME TaskInv, [Next]_vars
    PROVE  \/ \E r \in Requests : Upsert(r)
           \/ \E r \in Requests : Remove(r)
           \/ RemoveExpired
           \/ Boot
           \/ UNCHANGED agents
<1> USE DEF lockVars, handlerVars, taskVars, sweepVars
<1>1. ASSUME NEW t \in Tasks, LockStep(t) \/ Schedule(t) PROVE UNCHANGED agents
  BY <1>1 DEF LockStep, Schedule, Acquire, Enqueue, Wake, Resume
<1>2. ASSUME NEW r \in Requests, HandlerStep(r)
      PROVE Upsert(r) \/ Remove(r) \/ UNCHANGED agents
  BY <1>2 DEF HandlerStep, Get, BuildRegistration, BuildRenewal, CallUpsert,
              RefuseRenewal, ListAll, ListCapabilities, FindByCapability
<1>3. ASSUME NEW r \in Requests, Arrive(r) \/ Return(r) PROVE UNCHANGED agents
  BY <1>3 DEF Arrive, Return
<1>4. CASE SweeperWakes \/ Startup \/ StopRequested \/ Stop \/ ClockMoves
  BY <1>4 DEF SweeperWakes, Startup, StopRequested, Stop, ClockMoves
<1>5. CASE UNCHANGED vars
  BY <1>5 DEF vars
<1> QED
  BY <1>1, <1>2, <1>3, <1>4, <1>5 DEF Next, RunningStep

\* One step of LiveAgentsStay, and one of NewerLeasesPrevail.
Leaves(a) ==
    /\ agents[a] # Absent
    /\ \A t \in shown : ~ExpiredAt(agents[a], t)
    /\ agents'[a] = Absent
Dismissed(a) ==
    \/ phase = "stopped"
    \/ \E r \in Requests : /\ call[r].kind = "deregister"
                           /\ call[r].agent = a
                           /\ pc[r] # "answered"
                           /\ pc'[r] = "answered"
Prevails(a) ==
    /\ agents[a] # Absent /\ agents'[a] # Absent
    /\ agents'[a] # agents[a]
    => \E t \in kept[a] : agents'[a].lease = t + LeaseDuration

LEMMA LeavingStep ==
    ASSUME TaskInv, ClockOK, [Next]_vars, NEW a \in Agents, Leaves(a)
    PROVE  Dismissed(a)
<1>1. agents \in Table /\ agents[a] \in Record /\ agents' # agents
  BY DEF Leaves, TaskInv, TypeOK, Table
<1>2. ASSUME NEW r \in Requests, Upsert(r) PROVE FALSE
  <2>1. record[r] # Absent
    BY <1>2, LeaseTableAssumption
    DEF Upsert, Leave, TaskInv, CallOK, Record
  <2>2. agents' = [agents EXCEPT ![call[r].agent] = record[r]]
    BY <1>2 DEF Upsert
  <2> QED
    BY <1>1, <2>1, <2>2 DEF Leaves, Table
<1>3. ASSUME NEW r \in Requests, Remove(r) PROVE Dismissed(a)
  <2>1. /\ method[r] = "remove" /\ pc[r] = "inside"
        /\ pc' = [pc EXCEPT ![r] = "answered"]
        /\ agents' = [agents EXCEPT ![call[r].agent] = Absent]
    BY <1>3 DEF Remove, Leave, Step
  <2>2. call[r].kind = "deregister"
    BY <2>1, CallFields DEF TaskInv, CallOK, FirstMethod
  <2>3. call[r].agent = a
    BY <1>1, <2>1 DEF Leaves, Table
  <2> QED
    BY <2>1, <2>2, <2>3 DEF Dismissed, TaskInv, TypeOK, Tasks
<1>4. CASE RemoveExpired
  <2>1. ExpiredAt(agents[a], sweepNow)
    BY <1>1, <1>4 DEF RemoveExpired, WithoutExpired, Leaves
  <2>2. sweepNow \in shown
    BY <1>4 DEF RemoveExpired, Leave, ClockOK
  <2> QED
    BY <2>1, <2>2 DEF Leaves
<1>5. CASE Boot
  BY <1>5 DEF Boot, Dismissed
<1> QED
  BY <1>1, <1>2, <1>3, <1>4, <1>5, TableSteps

\* The record that replaces another was built after that one was stored.
LEMMA PrevailingStep ==
    ASSUME LoopInv, [Next]_vars, NEW a \in Agents
    PROVE  Prevails(a)
<1>1. agents \in Table /\ TaskInv
  BY DEF LoopInv, TaskInv, TypeOK
<1>2. ASSUME NEW r \in Requests, Upsert(r) PROVE Prevails(a)
  <2>1. /\ method[r] = "upsert" /\ pc[r] = "inside"
        /\ agents' = [agents EXCEPT ![call[r].agent] = record[r]]
    BY <1>2 DEF Upsert, Leave, Step
  <2>2. PICK t \in since[r] : record[r].lease = t + LeaseDuration
    BY <1>1, <2>1, GrantedRecord DEF LoopInv
  <2>3. agents[a] # Absent => t \in kept[a]
    BY <2>1, <2>2 DEF LoopInv, Unbroken, Between
  <2>4. CASE a = call[r].agent
    BY <1>1, <2>1, <2>2, <2>3, <2>4 DEF Prevails, Table
  <2>5. CASE a # call[r].agent
    BY <1>1, <2>1, <2>5 DEF Prevails, Table
  <2> QED
    BY <2>4, <2>5
<1>3. ASSUME NEW r \in Requests, Remove(r) PROVE Prevails(a)
  BY <1>1, <1>3 DEF Remove, Prevails, Table
<1>4. CASE RemoveExpired
  BY <1>4 DEF RemoveExpired, WithoutExpired, Prevails
<1>5. CASE Boot
  BY <1>5 DEF Boot, Empty, Prevails
<1>6. CASE UNCHANGED agents
  BY <1>6 DEF Prevails
<1> QED
  BY <1>1, <1>2, <1>3, <1>4, <1>5, <1>6, TableSteps

-----------------------------------------------------------------------------
(* Every behaviour. *)

\* Whatever awaits do and however the clock is set: an agent leaves the table by
\* its own deregistration, with the process, or when its lease was over at a time
\* the clock has shown since the last sweep (repository.py, lease_manager.py).
THEOREM LiveAgentsAreKept == Spec => LiveAgentsStay
<1>1. TaskInv /\ ClockOK /\ [Next]_vars
        => [\A a \in Agents : Leaves(a) => Dismissed(a)]_vars
  BY LeavingStep
<1>2. Spec => [][\A a \in Agents : Leaves(a) => Dismissed(a)]_vars
  BY <1>1, TaskInvariance, ClockInvariance, PTL DEF Spec
<1> QED
  BY <1>2 DEF LiveAgentsStay, Leaves, Dismissed

\* In the build, however the clock is set: the lease that replaces another is
\* counted from a time shown since that one was stored, however requests overtake
\* each other (service.py).
THEOREM NewerLeasesAreKept == Build /\ Spec => NewerLeasesPrevail
<1>1. LoopInv /\ [Next]_vars => [\A a \in Agents : Prevails(a)]_vars
  BY PrevailingStep
<1>2. Build /\ Spec => [][\A a \in Agents : Prevails(a)]_vars
  BY <1>1, LoopInvariance, PTL DEF Spec
<1> QED
  BY <1>2 DEF NewerLeasesPrevail, Prevails
=============================================================================
