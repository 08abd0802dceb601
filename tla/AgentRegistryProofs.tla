------------------------ MODULE AgentRegistryProofs ------------------------
(***************************************************************************)
(* Proofs about the tasks of AgentRegistry, for any number of connections, *)
(* agents and skills and any lease.                                        *)
(***************************************************************************)
EXTENDS AgentRegistry, LeaseTableProofs, SequenceTheorems

USE AgentRegistryAssumption

LEMMA AcquireTask ==
  ASSUME TaskInv, NEW t \in Tasks, Acquire(t)
  PROVE  TaskInv'
<1> USE DEF Acquire, Step, AfterAwait, lockVars, handlerVars, taskVars,
            sweepVars
<1>1. TypeOK'
  BY DEF TaskInv, TypeOK, Tasks, Places
<1>2. \A q \in Requests : CallOK(q)'
  BY DEF TaskInv, TypeOK, Tasks, CallOK
<1>3. LoopOK'
  BY DEF TaskInv, LoopOK, Between
<1>4. LockDiscipline'
  BY DEF TaskInv, TypeOK, LockDiscipline
<1>5. QED
  BY <1>1, <1>2, <1>3, <1>4 DEF TaskInv

LEMMA EnqueueTask ==
  ASSUME TaskInv, NEW t \in Tasks, Enqueue(t)
  PROVE  TaskInv'
<1> USE DEF Enqueue, Step, lockVars, handlerVars, taskVars, sweepVars
<1>1. TypeOK'
  BY DEF TaskInv, TypeOK, Tasks, Places
<1>2. \A q \in Requests : CallOK(q)'
  BY DEF TaskInv, TypeOK, Tasks, CallOK
<1>3. LoopOK'
  BY DEF TaskInv, LoopOK
<1>4. LockDiscipline'
  <2> DEFINE n == Len(waiters)
  <2>1. /\ Len(waiters') = n + 1
        /\ waiters'[n + 1] = t
        /\ \A i \in 1 .. n : waiters'[i] = waiters[i]
        /\ n \in Nat
    BY AppendProperties, LenProperties DEF TaskInv, TypeOK
  <2>2. \A i \in 1 .. n : waiters[i] # t
    BY DEF TaskInv, LockDiscipline
  <2>3. pc' = [pc EXCEPT ![t] = "queued"] /\ pc[t] = "entering" /\ phase \notin {"created", "stopped"}
    BY DEF TaskInv, TypeOK, LoopOK
  <2>4. ASSUME NEW u \in Tasks
        PROVE  pc'[u] = "queued" <=> \E i \in 1 .. Len(waiters') : waiters'[i] = u
    <3>1. CASE u = t
      BY <2>1, <2>3, <3>1 DEF TaskInv, TypeOK
    <3>2. CASE u # t
      <4>1. pc'[u] = pc[u]
        BY <2>3, <3>2 DEF TaskInv, TypeOK
      <4>2. \A i \in 1 .. n + 1 : waiters'[i] = u <=> i \in 1 .. n /\ waiters[i] = u
        BY <2>1, <3>2
      <4>3. QED
        BY <2>1, <4>1, <4>2 DEF TaskInv, LockDiscipline
    <3>3. QED
      BY <3>1, <3>2
  <2>5. ASSUME NEW i \in 1 .. Len(waiters'), NEW j \in 1 .. Len(waiters'),
               waiters'[i] = waiters'[j]
        PROVE  i = j
    BY <2>1, <2>2, <2>5 DEF TaskInv, LockDiscipline
  <2>6. \A u \in Tasks : pc'[u] = "inside" <=> lock' = u
    BY <2>3 DEF TaskInv, TypeOK, LockDiscipline
  <2>7. QED
    BY <2>3, <2>4, <2>5, <2>6 DEF LockDiscipline
<1>5. QED
  BY <1>1, <1>2, <1>3, <1>4 DEF TaskInv

LEMMA WakeTask ==
  ASSUME TaskInv, NEW t \in Tasks, Wake(t)
  PROVE  TaskInv'
<1> USE DEF Wake, lockVars, handlerVars, taskVars, sweepVars
<1>0. /\ pc[t] = "queued"
      /\ t = waiters[1]
      /\ Len(waiters) \in Nat \ {0}
  BY EmptySeq, LenProperties DEF TaskInv, TypeOK, LockDiscipline
<1>1. TypeOK'
  BY <1>0 DEF TaskInv, TypeOK, Tasks, Places
<1>2. \A q \in Requests : CallOK(q)'
  BY <1>0 DEF TaskInv, TypeOK, Tasks, CallOK
<1>3. LoopOK'
  BY <1>0 DEF TaskInv, TypeOK, Tasks, LoopOK, Between
<1>4. LockDiscipline'
  <2>1. /\ Len(waiters') = Len(waiters) - 1
        /\ \A i \in 1 .. Len(waiters') : waiters'[i] = waiters[i + 1]
    BY HeadTailProperties DEF TaskInv, TypeOK
  <2>2. pc' = [pc EXCEPT ![t] = "inside"] /\ phase \notin {"created", "stopped"}
    BY <1>0 DEF TaskInv, TypeOK, LoopOK
  <2>3. ASSUME NEW u \in Tasks
        PROVE  pc'[u] = "queued" <=> \E i \in 1 .. Len(waiters') : waiters'[i] = u
    <3>1. CASE u = t
      <4>1. \A i \in 2 .. Len(waiters) : waiters[i] # t
        BY <1>0 DEF TaskInv, LockDiscipline
      <4>2. QED
        BY <1>0, <2>1, <2>2, <3>1, <4>1 DEF TaskInv, TypeOK
    <3>2. CASE u # t
      <4>1. pc'[u] = pc[u]
        BY <2>2, <3>2 DEF TaskInv, TypeOK
      <4>2. ASSUME NEW i \in 1 .. Len(waiters), waiters[i] = u
            PROVE  i - 1 \in 1 .. Len(waiters') /\ waiters'[i - 1] = u
        BY <1>0, <2>1, <3>2, <4>2
      <4>3. ASSUME NEW i \in 1 .. Len(waiters'), waiters'[i] = u
            PROVE  i + 1 \in 1 .. Len(waiters) /\ waiters[i + 1] = u
        BY <1>0, <2>1, <4>3
      <4>4. (\E i \in 1 .. Len(waiters) : waiters[i] = u)
              <=> \E i \in 1 .. Len(waiters') : waiters'[i] = u
        BY ONLY <4>2, <4>3
      <4>5. pc[u] = "queued" <=> \E i \in 1 .. Len(waiters) : waiters[i] = u
        BY DEF TaskInv, LockDiscipline
      <4>6. QED
        BY ONLY <4>1, <4>4, <4>5
    <3>3. QED
      BY <3>1, <3>2
  <2>4. ASSUME NEW i \in 1 .. Len(waiters'), NEW j \in 1 .. Len(waiters'),
               waiters'[i] = waiters'[j]
        PROVE  i = j
    <3>1. i + 1 \in 1 .. Len(waiters) /\ j + 1 \in 1 .. Len(waiters)
      BY <1>0, <2>1
    <3>2. i + 1 = j + 1
      BY <2>1, <2>4, <3>1 DEF TaskInv, LockDiscipline
    <3>3. QED
      BY <3>2
  <2>5. \A u \in Tasks : pc'[u] = "inside" <=> lock' = u
    BY <2>2 DEF TaskInv, TypeOK, LockDiscipline
  <2>6. QED
    BY <2>2, <2>3, <2>4, <2>5 DEF LockDiscipline
<1>5. QED
  BY <1>1, <1>2, <1>3, <1>4 DEF TaskInv

LEMMA ResumeTask ==
  ASSUME TaskInv, NEW t \in Tasks, Resume(t)
  PROVE  TaskInv'
<1> USE DEF Resume, Between, lockVars, handlerVars, taskVars, sweepVars
<1>1. TypeOK'
  BY DEF TaskInv, TypeOK, Tasks
<1>2. \A q \in Requests : CallOK(q)'
  BY DEF TaskInv, TypeOK, Tasks, CallOK
<1>3. LoopOK'
  BY DEF TaskInv, LoopOK
<1>4. LockDiscipline'
  BY DEF TaskInv, TypeOK, LockDiscipline, LoopOK
<1>5. QED
  BY <1>1, <1>2, <1>3, <1>4 DEF TaskInv

LEMMA ArriveTask ==
  ASSUME TaskInv, NEW r \in Requests, Arrive(r)
  PROVE  TaskInv'
<1> USE DEF Arrive, Begin, AfterAwait, FirstMethod, lockVars, handlerVars,
            taskVars, sweepVars
<1>0. PICK c \in Calls : /\ call' = [call EXCEPT ![r] = c]
                        /\ Begin(r, FirstMethod(c))
  OBVIOUS
<1>a. FirstMethod(c) \in Methods \ {"none", "upsert"}
  BY CallFields DEF FirstMethod, Methods
<1>1. TypeOK'
  <2>1. since' \in [Requests -> SUBSET Nat] /\ call' \in [Requests -> Calls \cup {NoCall}]
    BY <1>0 DEF TaskInv, TypeOK
  <2>2. /\ pc' \in [Tasks -> Places] /\ method' \in [Tasks -> Methods]
        /\ running' \in Tasks \cup {Nobody}
    BY <1>0, <1>a DEF TaskInv, TypeOK, Tasks, Places
  <2>3. QED
    BY <2>1, <2>2 DEF TaskInv, TypeOK
<1>2. \A q \in Requests : CallOK(q)'
  <2> TAKE q \in Requests
  <2>1. CASE q = r
    BY <1>0, <1>a, <2>1 DEF TaskInv, TypeOK, Tasks, CallOK
  <2>2. CASE q # r
    BY <1>0, <2>2 DEF TaskInv, TypeOK, Tasks, CallOK
  <2>3. QED
    BY <2>1, <2>2
<1>3. LoopOK'
  BY <1>0, <1>a DEF TaskInv, TypeOK, Tasks, LoopOK, Between
<1>4. LockDiscipline'
  BY <1>0, <1>a DEF TaskInv, TypeOK, LockDiscipline, LoopOK
<1>5. QED
  BY <1>1, <1>2, <1>3, <1>4 DEF TaskInv

LEMMA GetTask ==
  ASSUME TaskInv, NEW r \in Requests, Get(r)
  PROVE  TaskInv'
<1> USE DEF Get, Leave, Step, AfterAwait, lockVars, handlerVars, taskVars,
            sweepVars
<1>0. call[r].agent \in Agents
  BY CallFields DEF TaskInv, CallOK, FirstMethod, UpdateKinds
<1>1. TypeOK'
  <2>1. existing' \in [Requests -> Record \cup {Absent}]
    BY <1>0 DEF TaskInv, TypeOK, Table
  <2>2. QED
    BY <2>1 DEF TaskInv, TypeOK, Tasks, Places, Methods
<1>2. \A q \in Requests : CallOK(q)'
  BY <1>0, CallFields
  DEF TaskInv, TypeOK, Tasks, CallOK, UpdateKinds, FirstMethod
<1>3. LoopOK'
  BY <1>0 DEF TaskInv, TypeOK, Tasks, LoopOK, Between
<1>4. LockDiscipline'
  BY <1>0 DEF TaskInv, TypeOK, Tasks, LockDiscipline
<1>5. QED
  BY <1>1, <1>2, <1>3, <1>4 DEF TaskInv

LEMMA BuildRegistrationTask ==
  ASSUME TaskInv, NEW r \in Requests, BuildRegistration(r)
  PROVE  TaskInv'
<1> USE DEF BuildRegistration, CallUpsert, Step, AfterAwait, lockVars,
            handlerVars, taskVars, sweepVars
<1>0. Registered(call[r], now) \in Record
  BY CallFields, RegisteredRecord DEF TaskInv, TypeOK, CallOK
<1>1. TypeOK'
  BY <1>0 DEF TaskInv, TypeOK, Tasks, Places, Methods
<1>2. \A q \in Requests : CallOK(q)'
  BY <1>0 DEF TaskInv, TypeOK, Tasks, CallOK
<1>3. LoopOK'
  BY <1>0 DEF TaskInv, TypeOK, Tasks, LoopOK, Between
<1>4. LockDiscipline'
  BY <1>0 DEF TaskInv, TypeOK, LockDiscipline
<1>5. QED
  BY <1>1, <1>2, <1>3, <1>4 DEF TaskInv

LEMMA BuildRenewalTask ==
  ASSUME TaskInv, NEW r \in Requests, BuildRenewal(r)
  PROVE  TaskInv'
<1> USE DEF BuildRenewal, CallUpsert, Step, AfterAwait, lockVars, handlerVars,
            taskVars, sweepVars
<1>0. Renewed(existing[r], now) \in Record
  <2>1. existing[r] \in Record /\ now \in Nat
    BY DEF TaskInv, TypeOK
  <2>2. QED
    BY ONLY <2>1, RenewedRecord
<1>1. TypeOK'
  BY <1>0 DEF TaskInv, TypeOK, Tasks, Places, Methods
<1>2. \A q \in Requests : CallOK(q)'
  BY <1>0 DEF TaskInv, TypeOK, Tasks, CallOK
<1>3. LoopOK'
  BY <1>0 DEF TaskInv, TypeOK, Tasks, LoopOK, Between
<1>4. LockDiscipline'
  BY <1>0 DEF TaskInv, TypeOK, LockDiscipline
<1>5. QED
  BY <1>1, <1>2, <1>3, <1>4 DEF TaskInv

LEMMA RefuseRenewalTask ==
  ASSUME TaskInv, NEW r \in Requests, RefuseRenewal(r)
  PROVE  TaskInv'
<1> USE DEF RefuseRenewal, Finish, Step, lockVars, handlerVars, taskVars,
            sweepVars
<1>1. TypeOK'
  BY CallFields, ReplyTypes
  DEF TaskInv, TypeOK, Tasks, Places, CallOK, UpdateKinds
<1>2. \A q \in Requests : CallOK(q)'
  BY DEF TaskInv, TypeOK, Tasks, CallOK
<1>3. LoopOK'
  BY DEF TaskInv, TypeOK, Tasks, LoopOK
<1>4. LockDiscipline'
  BY DEF TaskInv, TypeOK, LockDiscipline
<1>5. QED
  BY <1>1, <1>2, <1>3, <1>4 DEF TaskInv

LEMMA UpsertTask ==
  ASSUME TaskInv, NEW r \in Requests, Upsert(r)
  PROVE  TaskInv'
<1> USE DEF Upsert, Leave, Step, Finish, lockVars, handlerVars, taskVars,
            sweepVars
<1>1. TypeOK'
  BY CallFields, ReplyTypes
  DEF TaskInv, TypeOK, Tasks, Places, Methods, CallOK, UpdateKinds, Table
<1>2. \A q \in Requests : CallOK(q)'
  BY DEF TaskInv, TypeOK, Tasks, CallOK
<1>3. LoopOK'
  BY DEF TaskInv, TypeOK, Tasks, LoopOK
<1>4. LockDiscipline'
  BY DEF TaskInv, TypeOK, Tasks, LockDiscipline
<1>5. QED
  BY <1>1, <1>2, <1>3, <1>4 DEF TaskInv

LEMMA RemoveTask ==
  ASSUME TaskInv, NEW r \in Requests, Remove(r)
  PROVE  TaskInv'
<1> USE DEF KeptIn, Remove, Leave, Step, Finish, lockVars, handlerVars, taskVars,
            sweepVars
<1>1. TypeOK'
  BY CallFields, ReplyTypes
  DEF TaskInv, TypeOK, Tasks, Places, Methods, CallOK, UpdateKinds, Table
<1>2. \A q \in Requests : CallOK(q)'
  BY DEF TaskInv, TypeOK, Tasks, CallOK
<1>3. LoopOK'
  BY DEF TaskInv, TypeOK, Tasks, LoopOK
<1>4. LockDiscipline'
  BY DEF TaskInv, TypeOK, Tasks, LockDiscipline
<1>5. QED
  BY <1>1, <1>2, <1>3, <1>4 DEF TaskInv

LEMMA ListAllTask ==
  ASSUME TaskInv, NEW r \in Requests, ListAll(r)
  PROVE  TaskInv'
<1> USE DEF ListAll, Leave, Step, Finish, lockVars, handlerVars, taskVars,
            sweepVars
<1>1. TypeOK'
  BY CallFields, ReplyTypes
  DEF TaskInv, TypeOK, Tasks, Places, Methods, CallOK, UpdateKinds
<1>2. \A q \in Requests : CallOK(q)'
  BY DEF TaskInv, TypeOK, Tasks, CallOK
<1>3. LoopOK'
  BY DEF TaskInv, TypeOK, Tasks, LoopOK
<1>4. LockDiscipline'
  BY DEF TaskInv, TypeOK, Tasks, LockDiscipline
<1>5. QED
  BY <1>1, <1>2, <1>3, <1>4 DEF TaskInv

LEMMA ListCapabilitiesTask ==
  ASSUME TaskInv, NEW r \in Requests, ListCapabilities(r)
  PROVE  TaskInv'
<1> USE DEF ListCapabilities, Leave, Step, Finish, lockVars, handlerVars,
            taskVars, sweepVars
<1>1. TypeOK'
  BY CallFields, ReplyTypes
  DEF TaskInv, TypeOK, Tasks, Places, Methods, CallOK, UpdateKinds
<1>2. \A q \in Requests : CallOK(q)'
  BY DEF TaskInv, TypeOK, Tasks, CallOK
<1>3. LoopOK'
  BY DEF TaskInv, TypeOK, Tasks, LoopOK
<1>4. LockDiscipline'
  BY DEF TaskInv, TypeOK, Tasks, LockDiscipline
<1>5. QED
  BY <1>1, <1>2, <1>3, <1>4 DEF TaskInv

LEMMA FindByCapabilityTask ==
  ASSUME TaskInv, NEW r \in Requests, FindByCapability(r)
  PROVE  TaskInv'
<1> USE DEF FindByCapability, Leave, Step, Finish, lockVars, handlerVars,
            taskVars, sweepVars
<1>1. TypeOK'
  BY CallFields, ReplyTypes
  DEF TaskInv, TypeOK, Tasks, Places, Methods, CallOK, UpdateKinds
<1>2. \A q \in Requests : CallOK(q)'
  BY DEF TaskInv, TypeOK, Tasks, CallOK
<1>3. LoopOK'
  BY DEF TaskInv, TypeOK, Tasks, LoopOK
<1>4. LockDiscipline'
  BY DEF TaskInv, TypeOK, Tasks, LockDiscipline
<1>5. QED
  BY <1>1, <1>2, <1>3, <1>4 DEF TaskInv

LEMMA ReturnTask ==
  ASSUME TaskInv, NEW r \in Requests, Return(r)
  PROVE  TaskInv'
<1> USE DEF Return, lockVars, handlerVars, taskVars, sweepVars
<1>1. TypeOK'
  BY DEF TaskInv, TypeOK, Tasks, Places
<1>2. \A q \in Requests : CallOK(q)'
  BY DEF TaskInv, TypeOK, Tasks, CallOK
<1>3. LoopOK'
  BY DEF TaskInv, TypeOK, Tasks, LoopOK, Between
<1>4. LockDiscipline'
  BY DEF TaskInv, TypeOK, LockDiscipline
<1>5. QED
  BY <1>1, <1>2, <1>3, <1>4 DEF TaskInv

LEMMA SweeperWakesTask ==
  ASSUME TaskInv, SweeperWakes
  PROVE  TaskInv'
<1> USE DEF SweeperWakes, Begin, AfterAwait, lockVars, handlerVars, taskVars,
            sweepVars
<1>1. TypeOK'
  BY DEF TaskInv, TypeOK, Tasks, Places, Methods
<1>2. \A q \in Requests : CallOK(q)'
  BY DEF TaskInv, TypeOK, Tasks, CallOK
<1>3. LoopOK'
  BY DEF TaskInv, TypeOK, Tasks, LoopOK, Between
<1>4. LockDiscipline'
  BY DEF TaskInv, TypeOK, Tasks, LockDiscipline, LoopOK
<1>5. QED
  BY <1>1, <1>2, <1>3, <1>4 DEF TaskInv

LEMMA RemoveExpiredTask ==
  ASSUME TaskInv, RemoveExpired
  PROVE  TaskInv'
<1> USE DEF KeptIn, RemoveExpired, Leave, Step, lockVars, handlerVars, taskVars,
            sweepVars
<1>1. TypeOK'
  BY RegisteredRecord, RenewedRecord, SweptTable, EmptyTable, EmptySeq
  DEF TaskInv, TypeOK, Tasks, Places, Methods
<1>2. \A q \in Requests : CallOK(q)'
  BY DEF TaskInv, TypeOK, Tasks, CallOK
<1>3. LoopOK'
  BY DEF TaskInv, TypeOK, Tasks, LoopOK
<1>4. LockDiscipline'
  BY DEF TaskInv, TypeOK, Tasks, LockDiscipline
<1>5. QED
  BY <1>1, <1>2, <1>3, <1>4 DEF TaskInv

LEMMA StartupTask ==
  ASSUME TaskInv, Startup
  PROVE  TaskInv'
<1> USE DEF Startup, lockVars, handlerVars, taskVars, sweepVars
<1>1. TypeOK'
  BY DEF TaskInv, TypeOK, Tasks, Places
<1>2. \A q \in Requests : CallOK(q)'
  BY DEF TaskInv, TypeOK, Tasks, CallOK
<1>3. LoopOK'
  BY DEF TaskInv, LoopOK, Between
<1>4. LockDiscipline'
  BY DEF TaskInv, TypeOK, LockDiscipline, LoopOK
<1>5. QED
  BY <1>1, <1>2, <1>3, <1>4 DEF TaskInv

LEMMA StopRequestedTask ==
  ASSUME TaskInv, StopRequested
  PROVE  TaskInv'
<1> USE DEF StopRequested, lockVars, handlerVars, taskVars, sweepVars
<1>1. TypeOK'
  BY DEF TaskInv, TypeOK, Tasks
<1>2. \A q \in Requests : CallOK(q)'
  BY DEF TaskInv, TypeOK, Tasks, CallOK
<1>3. LoopOK'
  BY DEF TaskInv, LoopOK
<1>4. LockDiscipline'
  BY DEF TaskInv, TypeOK, LockDiscipline
<1>5. QED
  BY <1>1, <1>2, <1>3, <1>4 DEF TaskInv

LEMMA StopTask ==
  ASSUME TaskInv, Stop
  PROVE  TaskInv'
<1> USE DEF Tasks, lockVars, handlerVars, taskVars, sweepVars
<1>a. /\ running = Nobody /\ \A r \in Requests : pc[r] = "idle"
      /\ pc' = [pc EXCEPT ![Sweeper] = "off"]
      /\ method' = [method EXCEPT ![Sweeper] = "none"]
      /\ phase' = "stopped" /\ sweepNow' = 0
      /\ UNCHANGED <<now, agents, kept, running, handlerVars, shown>>
  BY DEF Stop
<1>b. lock \in {Sweeper, Nobody}
  BY <1>a DEF TaskInv, TypeOK, LockDiscipline, Tasks
<1>c. lock' = Nobody
  BY <1>b DEF Stop
<1>0. waiters' = <<>>
  <2>0. Len(waiters) \in Nat /\ \A i \in 1 .. Len(waiters) : waiters[i] \in Tasks
    BY ElementOfSeq, LenProperties DEF TaskInv, TypeOK
  <2>n. Len(waiters) \in Nat
    BY <2>0
  <2>1. \A i \in 1 .. Len(waiters) : waiters[i] = Sweeper /\ pc[Sweeper] = "queued"
    BY <1>a, <2>0 DEF TaskInv, LockDiscipline, Tasks
  <2>3. CASE Len(waiters) = 0
    <3>1. waiters = <<>>
      BY <2>3, EmptySeq DEF TaskInv, TypeOK
    <3>2. pc[Sweeper] # "queued"
      BY <2>3 DEF TaskInv, LockDiscipline, Tasks
    <3>3. QED
      BY <3>1, <3>2 DEF Stop
  <2>4. CASE Len(waiters) # 0
    <3>0. ~(Len(waiters) >= 2)
      <4>1. SUFFICES ASSUME Len(waiters) >= 2
                     PROVE  FALSE
        OBVIOUS
      <4>2. waiters[1] = waiters[2]
        BY <2>n, <2>1, <4>1
      <4>3. 1 \in 1 .. Len(waiters) /\ 2 \in 1 .. Len(waiters)
        BY <2>n, <4>1
      <4>4. QED
        BY <4>2, <4>3 DEF TaskInv, LockDiscipline
    <3>1. Len(waiters) = 1
      <4>1. \A n \in Nat : n # 0 /\ ~(n >= 2) => n = 1
        OBVIOUS
      <4>2. QED
        BY <2>n, <2>4, <3>0, <4>1, Zenon
    <3>2. waiters' = Tail(waiters)
      BY <2>1, <3>1 DEF Stop
    <3>3. Tail(waiters) \in Seq(Tasks) /\ Len(Tail(waiters)) = 0
      <4>1. waiters # <<>>
        BY <2>4, EmptySeq
      <4>2. QED
        BY <3>1, <4>1, HeadTailProperties DEF TaskInv, TypeOK
    <3>4. QED
      BY <3>2, <3>3, EmptySeq
  <2>5. QED
    BY <2>3, <2>4
<1>1. TypeOK'
  BY <1>0, <1>a, <1>c DEF TaskInv, TypeOK, Tasks, Places, Methods
<1>2. \A q \in Requests : CallOK(q)'
  BY <1>0, <1>a, <1>c DEF TaskInv, TypeOK, Tasks, CallOK
<1>3. LoopOK'
  <2>1. pc' = [t \in Tasks |-> IF t = Sweeper THEN "off" ELSE "idle"]
    BY <1>a DEF TaskInv, TypeOK, Tasks
  <2>2. QED
    BY <1>a, <2>1 DEF TaskInv, TypeOK, LoopOK, Tasks
<1>4. LockDiscipline'
  BY <1>0, <1>a, <1>c DEF TaskInv, TypeOK, LockDiscipline
<1>5. QED
  BY <1>1, <1>2, <1>3, <1>4 DEF TaskInv

LEMMA BootTask ==
  ASSUME TaskInv, Boot
  PROVE  TaskInv'
<1> USE DEF KeptIn, Boot, lockVars, handlerVars, taskVars, sweepVars
<1>1. TypeOK'
  BY RegisteredRecord, RenewedRecord, SweptTable, EmptyTable, EmptySeq
  DEF TaskInv, TypeOK, Tasks
<1>2. \A q \in Requests : CallOK(q)'
  BY DEF TaskInv, TypeOK, Tasks, CallOK
<1>3. LoopOK'
  BY DEF TaskInv, LoopOK
<1>4. LockDiscipline'
  BY DEF TaskInv, TypeOK, LockDiscipline
<1>5. QED
  BY <1>1, <1>2, <1>3, <1>4 DEF TaskInv

LEMMA ClockMovesTask ==
  ASSUME TaskInv, ClockMoves
  PROVE  TaskInv'
<1> USE DEF ClockMoves, lockVars, handlerVars, taskVars, sweepVars
<1>1. TypeOK'
  BY DEF TaskInv, TypeOK, Tasks
<1>2. \A q \in Requests : CallOK(q)'
  BY DEF TaskInv, TypeOK, Tasks, CallOK
<1>3. LoopOK'
  BY DEF TaskInv, LoopOK
<1>4. LockDiscipline'
  BY DEF TaskInv, TypeOK, LockDiscipline
<1>5. QED
  BY <1>1, <1>2, <1>3, <1>4 DEF TaskInv

\* The lease a handler is about to store is counted from a time within its request.
LEMMA GrantedRecord ==
  ASSUME TaskInv, NEW r \in Requests, GrantOK(r), method[r] = "upsert"
  PROVE  /\ record[r] \in Record
         /\ \E t \in since[r] : t \in Nat /\ record[r].lease = t + LeaseDuration
<1>1. /\ call[r] \in Calls /\ call[r].kind \in UpdateKinds
      /\ record[r] \in Record
      /\ existing[r] = Absent => call[r].kind = "register"
  BY DEF TaskInv, CallOK
<1>2. PICK t \in since[r] :
          record[r] = IF call[r].kind = "register"
                      THEN Registered(call[r], t)
                      ELSE Renewed(existing[r], t)
  BY DEF GrantOK
<1>3. t \in Nat /\ existing[r] \in Record \cup {Absent}
  BY DEF TaskInv, TypeOK
<1>4. record[r].lease = t + LeaseDuration
  <2>1. CASE call[r].kind = "register"
    <3>1. call[r] \in RegisterCall /\ record[r] = Registered(call[r], t)
      BY <1>1, <1>2, <2>1, CallFields
    <3>2. QED
      BY ONLY <1>3, <3>1, RegisteredRecord
  <2>2. CASE call[r].kind # "register"
    <3>1. existing[r] \in Record /\ record[r] = Renewed(existing[r], t)
      BY <1>1, <1>2, <1>3, <2>2
    <3>2. QED
      BY ONLY <1>3, <3>1, RenewedRecord
  <2>3. QED
    BY <2>1, <2>2
<1>5. QED
  BY <1>1, <1>2, <1>3, <1>4

\* In the build, a task that runs is the only one in the middle of its work.
LEMMA Alone ==
  ASSUME TaskInv, RunToAnswer
  PROVE  /\ \A t \in Tasks : pc[t] # "queued"
         /\ \A t, u \in Tasks : pc[t] \in Between /\ pc[u] \in Between => t = u
         /\ \A r \in Requests : method[r] # "none" => running = r
         /\ running = Nobody => lock = Nobody
<1>1. \A t \in Tasks : pc[t] # "queued"
  BY EmptySeq DEF TaskInv, LockDiscipline, RunToAnswer
<1>2. \A r \in Requests : method[r] # "none" => pc[r] \in Between
  BY <1>1 DEF TaskInv, CallOK, Between, Tasks
<1>3. running = Nobody => lock = Nobody
  BY DEF TaskInv, TypeOK, LockDiscipline, RunToAnswer, Between, Tasks
<1>4. QED
  BY <1>1, <1>2, <1>3 DEF RunToAnswer, Tasks

LEMMA AcquireLoop ==
  ASSUME ~AwaitYields, LoopInv, NEW t \in Tasks, Acquire(t), TaskInv'
  PROVE  LoopInv'
<1> USE DEF Acquire, Step, AfterAwait, lockVars, handlerVars, taskVars,
            sweepVars
<1>1. RunToAnswer'
  BY DEF LoopInv, TaskInv, TypeOK, RunToAnswer, Between
<1>2. SnapshotCurrent'
  BY DEF LoopInv, TaskInv, TypeOK, SnapshotCurrent
<1>3. ListedOutliveSweep'
  BY DEF LoopInv, ListedOutliveSweep
<1>4. ClockOK'
  BY DEF LoopInv, TaskInv, TypeOK, ClockOK, Between
<1>5. \A q \in Requests : GrantOK(q)'
  BY DEF LoopInv, TaskInv, TypeOK, GrantOK
<1>6. \A q \in Requests : Unbroken(q)'
  BY DEF LoopInv, TaskInv, TypeOK, Tasks, Unbroken, Between
<1>7. QED
  BY <1>1, <1>2, <1>3, <1>4, <1>5, <1>6 DEF LoopInv

LEMMA ArriveLoop ==
  ASSUME ~AwaitYields, LoopInv, NEW r \in Requests, Arrive(r), TaskInv'
  PROVE  LoopInv'
<1> USE DEF Arrive, Begin, AfterAwait, FirstMethod, lockVars, handlerVars,
            taskVars, sweepVars
<1>0. method'[r] # "upsert" /\ since'[r] = {now}
  <2>1. PICK c \in Calls : Begin(r, FirstMethod(c))
    OBVIOUS
  <2>2. FirstMethod(c) # "upsert"
    BY CallFields DEF FirstMethod
  <2>3. QED
    BY <2>1, <2>2 DEF LoopInv, TaskInv, TypeOK, Tasks
<1>1. RunToAnswer'
  BY <1>0 DEF LoopInv, TaskInv, TypeOK, RunToAnswer, Between
<1>2. SnapshotCurrent'
  BY <1>0, CallFields
  DEF LoopInv, TaskInv, TypeOK, SnapshotCurrent, Tasks, UpdateKinds, FirstMethod
<1>3. ListedOutliveSweep'
  BY <1>0 DEF LoopInv, ListedOutliveSweep
<1>4. ClockOK'
  BY <1>0 DEF LoopInv, TaskInv, TypeOK, ClockOK
<1>5. \A q \in Requests : GrantOK(q)'
  <2> TAKE q \in Requests
  <2>1. CASE q = r
    <3>1. now' = now /\ now \in Nat
      BY DEF LoopInv, TaskInv, TypeOK
    <3>2. QED
      BY ONLY <1>0, <2>1, <3>1 DEF GrantOK
  <2>2. CASE q # r
    <3>1. since'[q] = since[q] /\ method'[q] = method[q] /\ call'[q] = call[q]
          /\ UNCHANGED <<record, existing>>
      BY <2>2 DEF LoopInv, TaskInv, TypeOK, Tasks
    <3>2. GrantOK(q)
      BY DEF LoopInv
    <3>3. QED
      BY ONLY <3>1, <3>2 DEF GrantOK
  <2>3. QED
    BY <2>1, <2>2
<1>6. \A q \in Requests : Unbroken(q)'
  BY <1>0, <1>4 DEF LoopInv, TaskInv, TypeOK, Tasks, Unbroken, Between, ClockOK
<1>7. QED
  BY <1>1, <1>2, <1>3, <1>4, <1>5, <1>6 DEF LoopInv

LEMMA GetLoop ==
  ASSUME ~AwaitYields, LoopInv, NEW r \in Requests, Get(r), TaskInv'
  PROVE  LoopInv'
<1> USE DEF Get, Leave, Step, AfterAwait, lockVars, handlerVars, taskVars,
            sweepVars
<1>1. RunToAnswer'
  BY DEF LoopInv, TaskInv, TypeOK, RunToAnswer, Between
<1>2. SnapshotCurrent'
  BY DEF LoopInv, TaskInv, TypeOK, SnapshotCurrent
<1>3. ListedOutliveSweep'
  BY DEF LoopInv, ListedOutliveSweep
<1>4. ClockOK'
  BY DEF LoopInv, TaskInv, TypeOK, ClockOK
<1>5. \A q \in Requests : GrantOK(q)'
  BY DEF LoopInv, TaskInv, TypeOK, GrantOK
<1>6. \A q \in Requests : Unbroken(q)'
  BY DEF LoopInv, TaskInv, TypeOK, Tasks, Unbroken, Between
<1>7. QED
  BY <1>1, <1>2, <1>3, <1>4, <1>5, <1>6 DEF LoopInv

LEMMA BuildRegistrationLoop ==
  ASSUME ~AwaitYields, LoopInv, NEW r \in Requests, BuildRegistration(r), TaskInv'
  PROVE  LoopInv'
<1> USE DEF BuildRegistration, CallUpsert, Step, AfterAwait, lockVars,
            handlerVars, taskVars, sweepVars
<1>1. RunToAnswer'
  BY DEF LoopInv, TaskInv, TypeOK, RunToAnswer, Between
<1>2. SnapshotCurrent'
  BY DEF LoopInv, TaskInv, TypeOK, SnapshotCurrent
<1>3. ListedOutliveSweep'
  BY DEF LoopInv, ListedOutliveSweep
<1>4. ClockOK'
  BY DEF LoopInv, TaskInv, TypeOK, ClockOK
<1>5. \A q \in Requests : GrantOK(q)'
  <2>1. now \in since[r]
    BY DEF LoopInv, Unbroken, Between
  <2>2. QED
    BY <2>1 DEF LoopInv, TaskInv, TypeOK, GrantOK
<1>6. \A q \in Requests : Unbroken(q)'
  BY DEF LoopInv, TaskInv, TypeOK, Tasks, Unbroken, Between
<1>7. QED
  BY <1>1, <1>2, <1>3, <1>4, <1>5, <1>6 DEF LoopInv

LEMMA BuildRenewalLoop ==
  ASSUME ~AwaitYields, LoopInv, NEW r \in Requests, BuildRenewal(r), TaskInv'
  PROVE  LoopInv'
<1> USE DEF BuildRenewal, CallUpsert, Step, AfterAwait, lockVars, handlerVars,
            taskVars, sweepVars
<1>1. RunToAnswer'
  BY DEF LoopInv, TaskInv, TypeOK, RunToAnswer, Between
<1>2. SnapshotCurrent'
  BY DEF LoopInv, TaskInv, TypeOK, SnapshotCurrent
<1>3. ListedOutliveSweep'
  BY DEF LoopInv, ListedOutliveSweep
<1>4. ClockOK'
  BY DEF LoopInv, TaskInv, TypeOK, ClockOK
<1>5. \A q \in Requests : GrantOK(q)'
  <2>1. now \in since[r]
    BY DEF LoopInv, Unbroken, Between
  <2>2. QED
    BY <2>1 DEF LoopInv, TaskInv, TypeOK, GrantOK
<1>6. \A q \in Requests : Unbroken(q)'
  BY DEF LoopInv, TaskInv, TypeOK, Tasks, Unbroken, Between
<1>7. QED
  BY <1>1, <1>2, <1>3, <1>4, <1>5, <1>6 DEF LoopInv

LEMMA RefuseRenewalLoop ==
  ASSUME ~AwaitYields, LoopInv, NEW r \in Requests, RefuseRenewal(r), TaskInv'
  PROVE  LoopInv'
<1> USE DEF RefuseRenewal, Finish, Step, lockVars, handlerVars, taskVars,
            sweepVars
<1>1. RunToAnswer'
  BY DEF LoopInv, TaskInv, TypeOK, RunToAnswer, Between
<1>2. SnapshotCurrent'
  BY DEF LoopInv, TaskInv, TypeOK, SnapshotCurrent
<1>3. ListedOutliveSweep'
  BY DEF LoopInv, ListedOutliveSweep
<1>4. ClockOK'
  BY DEF LoopInv, TaskInv, TypeOK, ClockOK
<1>5. \A q \in Requests : GrantOK(q)'
  BY DEF LoopInv, TaskInv, TypeOK, CallOK, GrantOK
<1>6. \A q \in Requests : Unbroken(q)'
  BY DEF LoopInv, TaskInv, TypeOK, Tasks, Unbroken, Between
<1>7. QED
  BY <1>1, <1>2, <1>3, <1>4, <1>5, <1>6 DEF LoopInv

LEMMA UpsertLoop ==
  ASSUME ~AwaitYields, LoopInv, NEW r \in Requests, Upsert(r), TaskInv'
  PROVE  LoopInv'
<1> USE DEF Upsert, Leave, Step, Finish, lockVars, handlerVars, taskVars,
            sweepVars
<1>0. record[r] \in Record /\ \E t \in shown : record[r].lease > t
  <2>1. PICK t \in since[r] : t \in Nat /\ record[r].lease = t + LeaseDuration
    BY GrantedRecord DEF LoopInv
  <2>2. since[r] \subseteq shown
    BY DEF LoopInv, Unbroken, Between
  <2>3. QED
    BY <2>1, <2>2, GrantedRecord, LeaseTableAssumption DEF LoopInv
<1>1. RunToAnswer'
  BY <1>0 DEF LoopInv, TaskInv, TypeOK, RunToAnswer, Between
<1>2. SnapshotCurrent'
  BY <1>0, Alone, CallFields
  DEF LoopInv, TaskInv, TypeOK, RunToAnswer, SnapshotCurrent, Tasks, Between,
      UpdateKinds, FirstMethod
<1>3. ListedOutliveSweep'
  BY <1>0 DEF LoopInv, ListedOutliveSweep
<1>4. ClockOK'
  BY <1>0 DEF LoopInv, TaskInv, TypeOK, ClockOK
<1>5. \A q \in Requests : GrantOK(q)'
  BY <1>0 DEF LoopInv, TaskInv, TypeOK, GrantOK
<1>6. \A q \in Requests : Unbroken(q)'
  <2> TAKE q \in Requests
  <2>1. q # r => pc[q] \notin Between
    BY DEF LoopInv, RunToAnswer, Tasks
  <2>2. pc'[q] = IF q = r THEN "answered" ELSE pc[q]
    BY DEF LoopInv, TaskInv, TypeOK, Tasks
  <2>3. QED
    BY <2>1, <2>2 DEF Unbroken, Between
<1>7. QED
  BY <1>1, <1>2, <1>3, <1>4, <1>5, <1>6 DEF LoopInv

LEMMA RemoveLoop ==
  ASSUME ~AwaitYields, LoopInv, NEW r \in Requests, Remove(r), TaskInv'
  PROVE  LoopInv'
<1> USE DEF KeptIn, Remove, Leave, Step, Finish, lockVars, handlerVars, taskVars,
            sweepVars
<1>1. RunToAnswer'
  BY DEF LoopInv, TaskInv, TypeOK, RunToAnswer, Between
<1>2. SnapshotCurrent'
  BY Alone, CallFields
  DEF LoopInv, TaskInv, TypeOK, RunToAnswer, SnapshotCurrent, Tasks, Between,
      UpdateKinds, FirstMethod
<1>3. ListedOutliveSweep'
  BY DEF LoopInv, ListedOutliveSweep
<1>4. ClockOK'
  BY DEF LoopInv, TaskInv, TypeOK, ClockOK
<1>5. \A q \in Requests : GrantOK(q)'
  BY DEF LoopInv, TaskInv, TypeOK, GrantOK
<1>6. \A q \in Requests : Unbroken(q)'
  BY DEF LoopInv, TaskInv, TypeOK, Tasks, Unbroken, Between
<1>7. QED
  BY <1>1, <1>2, <1>3, <1>4, <1>5, <1>6 DEF LoopInv

LEMMA ListAllLoop ==
  ASSUME ~AwaitYields, LoopInv, NEW r \in Requests, ListAll(r), TaskInv'
  PROVE  LoopInv'
<1> USE DEF ListAll, Leave, Step, Finish, lockVars, handlerVars, taskVars,
            sweepVars
<1>1. RunToAnswer'
  BY DEF LoopInv, TaskInv, TypeOK, RunToAnswer, Between
<1>2. SnapshotCurrent'
  BY DEF LoopInv, TaskInv, TypeOK, SnapshotCurrent
<1>3. ListedOutliveSweep'
  BY DEF LoopInv, ListedOutliveSweep
<1>4. ClockOK'
  BY DEF LoopInv, TaskInv, TypeOK, ClockOK
<1>5. \A q \in Requests : GrantOK(q)'
  BY DEF LoopInv, TaskInv, TypeOK, GrantOK
<1>6. \A q \in Requests : Unbroken(q)'
  BY DEF LoopInv, TaskInv, TypeOK, Tasks, Unbroken, Between
<1>7. QED
  BY <1>1, <1>2, <1>3, <1>4, <1>5, <1>6 DEF LoopInv

LEMMA ListCapabilitiesLoop ==
  ASSUME ~AwaitYields, LoopInv, NEW r \in Requests, ListCapabilities(r), TaskInv'
  PROVE  LoopInv'
<1> USE DEF ListCapabilities, Leave, Step, Finish, lockVars, handlerVars,
            taskVars, sweepVars
<1>1. RunToAnswer'
  BY DEF LoopInv, TaskInv, TypeOK, RunToAnswer, Between
<1>2. SnapshotCurrent'
  BY DEF LoopInv, TaskInv, TypeOK, SnapshotCurrent
<1>3. ListedOutliveSweep'
  BY DEF LoopInv, ListedOutliveSweep
<1>4. ClockOK'
  BY DEF LoopInv, TaskInv, TypeOK, ClockOK
<1>5. \A q \in Requests : GrantOK(q)'
  BY DEF LoopInv, TaskInv, TypeOK, GrantOK
<1>6. \A q \in Requests : Unbroken(q)'
  BY DEF LoopInv, TaskInv, TypeOK, Tasks, Unbroken, Between
<1>7. QED
  BY <1>1, <1>2, <1>3, <1>4, <1>5, <1>6 DEF LoopInv

LEMMA FindByCapabilityLoop ==
  ASSUME ~AwaitYields, LoopInv, NEW r \in Requests, FindByCapability(r), TaskInv'
  PROVE  LoopInv'
<1> USE DEF FindByCapability, Leave, Step, Finish, lockVars, handlerVars,
            taskVars, sweepVars
<1>1. RunToAnswer'
  BY DEF LoopInv, TaskInv, TypeOK, RunToAnswer, Between
<1>2. SnapshotCurrent'
  BY DEF LoopInv, TaskInv, TypeOK, SnapshotCurrent
<1>3. ListedOutliveSweep'
  BY DEF LoopInv, ListedOutliveSweep
<1>4. ClockOK'
  BY DEF LoopInv, TaskInv, TypeOK, ClockOK
<1>5. \A q \in Requests : GrantOK(q)'
  BY DEF LoopInv, TaskInv, TypeOK, GrantOK
<1>6. \A q \in Requests : Unbroken(q)'
  BY DEF LoopInv, TaskInv, TypeOK, Tasks, Unbroken, Between
<1>7. QED
  BY <1>1, <1>2, <1>3, <1>4, <1>5, <1>6 DEF LoopInv

LEMMA ReturnLoop ==
  ASSUME ~AwaitYields, LoopInv, NEW r \in Requests, Return(r), TaskInv'
  PROVE  LoopInv'
<1> USE DEF Return, lockVars, handlerVars, taskVars, sweepVars
<1>1. RunToAnswer'
  BY DEF LoopInv, TaskInv, TypeOK, RunToAnswer, Between
<1>2. SnapshotCurrent'
  BY DEF LoopInv, TaskInv, TypeOK, SnapshotCurrent, CallOK
<1>3. ListedOutliveSweep'
  BY DEF LoopInv, ListedOutliveSweep
<1>4. ClockOK'
  BY DEF LoopInv, TaskInv, TypeOK, ClockOK
<1>5. \A q \in Requests : GrantOK(q)'
  BY DEF LoopInv, TaskInv, TypeOK, GrantOK, CallOK
<1>6. \A q \in Requests : Unbroken(q)'
  BY DEF LoopInv, TaskInv, TypeOK, Tasks, Unbroken, Between
<1>7. QED
  BY <1>1, <1>2, <1>3, <1>4, <1>5, <1>6 DEF LoopInv

LEMMA SweeperWakesLoop ==
  ASSUME ~AwaitYields, LoopInv, SweeperWakes, TaskInv'
  PROVE  LoopInv'
<1> USE DEF SweeperWakes, Begin, AfterAwait, lockVars, handlerVars, taskVars,
            sweepVars
<1>1. RunToAnswer'
  BY DEF LoopInv, TaskInv, TypeOK, RunToAnswer, Between
<1>2. SnapshotCurrent'
  BY DEF LoopInv, TaskInv, TypeOK, SnapshotCurrent
<1>3. ListedOutliveSweep'
  BY DEF LoopInv, ListedOutliveSweep
<1>4. ClockOK'
  BY DEF LoopInv, TaskInv, TypeOK, ClockOK
<1>5. \A q \in Requests : GrantOK(q)'
  BY DEF LoopInv, TaskInv, TypeOK, GrantOK
<1>6. \A q \in Requests : Unbroken(q)'
  BY DEF LoopInv, TaskInv, TypeOK, Tasks, Unbroken, Between
<1>7. QED
  BY <1>1, <1>2, <1>3, <1>4, <1>5, <1>6 DEF LoopInv

LEMMA RemoveExpiredLoop ==
  ASSUME ~AwaitYields, LoopInv, RemoveExpired, TaskInv'
  PROVE  LoopInv'
<1> USE DEF KeptIn, RemoveExpired, Leave, Step, lockVars, handlerVars, taskVars,
            sweepVars
<1>1. RunToAnswer'
  BY DEF LoopInv, TaskInv, TypeOK, RunToAnswer, Between
<1>2. SnapshotCurrent'
  BY Alone, CallFields
  DEF LoopInv, TaskInv, TypeOK, RunToAnswer, SnapshotCurrent, Tasks, Between,
      UpdateKinds, FirstMethod
<1>3. ListedOutliveSweep'
  <2>1. ASSUME NEW a \in Agents, agents'[a] # Absent
        PROVE  \E t \in shown' : agents'[a].lease > t
    <3>1. /\ agents' = WithoutExpired(agents, sweepNow) /\ shown' = {sweepNow, now}
          /\ agents \in Table /\ sweepNow \in Nat
      BY DEF LoopInv, TaskInv, TypeOK
    <3>2. agents'[a] = agents[a] /\ agents[a] # Absent /\ ~(agents[a].lease <= sweepNow)
      BY <2>1, <3>1, SweptTable
    <3>3. agents[a].lease \in Nat
      BY <3>1, <3>2, RecordsHaveLeases
    <3>4. QED
      BY <3>1, <3>2, <3>3
  <2>2. QED
    BY <2>1 DEF ListedOutliveSweep
<1>4. ClockOK'
  <2>1. agents \in Table /\ agents' = WithoutExpired(agents, sweepNow)
    BY DEF LoopInv, TaskInv, TypeOK
  <2>2. \A a \in Agents : agents'[a] # Absent => now' \in kept'[a]
    BY <2>1, SweptTable DEF LoopInv, ClockOK
  <2>3. method'[Sweeper] = "none" /\ now' \in shown'
    BY DEF LoopInv, TaskInv, TypeOK, Tasks
  <2>4. QED
    BY <2>2, <2>3 DEF ClockOK
<1>5. \A q \in Requests : GrantOK(q)'
  <2> TAKE q \in Requests
  <2>1. running = Sweeper /\ Sweeper \notin Requests
    BY AgentRegistryAssumption
  <2>2. method[q] = "none"
    BY <2>1, Alone DEF LoopInv
  <2>3. method'[q] = "none"
    BY <2>1, <2>2 DEF LoopInv, TaskInv, TypeOK, Tasks
  <2>4. QED
    BY <2>3 DEF GrantOK
<1>6. \A q \in Requests : Unbroken(q)'
  <2> TAKE q \in Requests
  <2>1. running = Sweeper /\ q # Sweeper
    BY AgentRegistryAssumption
  <2>2. pc[q] \notin Between
    BY <2>1 DEF LoopInv, RunToAnswer, Tasks
  <2>3. pc'[q] = pc[q]
    BY <2>1 DEF LoopInv, TaskInv, TypeOK, Tasks
  <2>4. QED
    BY <2>2, <2>3 DEF Unbroken, Between
<1>7. QED
  BY <1>1, <1>2, <1>3, <1>4, <1>5, <1>6 DEF LoopInv

LEMMA StartupLoop ==
  ASSUME ~AwaitYields, LoopInv, Startup, TaskInv'
  PROVE  LoopInv'
<1> USE DEF Startup, lockVars, handlerVars, taskVars, sweepVars
<1>1. RunToAnswer'
  BY DEF LoopInv, TaskInv, TypeOK, RunToAnswer, Between
<1>2. SnapshotCurrent'
  BY DEF LoopInv, TaskInv, TypeOK, SnapshotCurrent
<1>3. ListedOutliveSweep'
  BY DEF LoopInv, ListedOutliveSweep
<1>4. ClockOK'
  BY DEF LoopInv, TaskInv, TypeOK, ClockOK, Between
<1>5. \A q \in Requests : GrantOK(q)'
  BY DEF LoopInv, TaskInv, TypeOK, GrantOK
<1>6. \A q \in Requests : Unbroken(q)'
  BY DEF LoopInv, TaskInv, TypeOK, Tasks, Unbroken, Between
<1>7. QED
  BY <1>1, <1>2, <1>3, <1>4, <1>5, <1>6 DEF LoopInv

LEMMA StopRequestedLoop ==
  ASSUME ~AwaitYields, LoopInv, StopRequested, TaskInv'
  PROVE  LoopInv'
<1> USE DEF StopRequested, lockVars, handlerVars, taskVars, sweepVars
<1>1. RunToAnswer'
  BY DEF LoopInv, TaskInv, TypeOK, RunToAnswer, Between
<1>2. SnapshotCurrent'
  BY DEF LoopInv, TaskInv, TypeOK, SnapshotCurrent
<1>3. ListedOutliveSweep'
  BY DEF LoopInv, ListedOutliveSweep
<1>4. ClockOK'
  BY DEF LoopInv, TaskInv, TypeOK, ClockOK
<1>5. \A q \in Requests : GrantOK(q)'
  BY DEF LoopInv, TaskInv, TypeOK, GrantOK
<1>6. \A q \in Requests : Unbroken(q)'
  BY DEF LoopInv, TaskInv, TypeOK, Tasks, Unbroken, Between
<1>7. QED
  BY <1>1, <1>2, <1>3, <1>4, <1>5, <1>6 DEF LoopInv

LEMMA StopLoop ==
  ASSUME ~AwaitYields, LoopInv, Stop, TaskInv'
  PROVE  LoopInv'
<1> USE DEF Stop, lockVars, handlerVars, taskVars, sweepVars
<1>1. RunToAnswer'
  BY DEF LoopInv, TaskInv, TypeOK, RunToAnswer, Between
<1>2. SnapshotCurrent'
  BY DEF LoopInv, TaskInv, TypeOK, SnapshotCurrent
<1>3. ListedOutliveSweep'
  BY DEF LoopInv, ListedOutliveSweep
<1>4. ClockOK'
  BY DEF LoopInv, TaskInv, TypeOK, ClockOK, Between
<1>5. \A q \in Requests : GrantOK(q)'
  BY DEF LoopInv, TaskInv, TypeOK, GrantOK
<1>6. \A q \in Requests : Unbroken(q)'
  BY DEF LoopInv, TaskInv, TypeOK, Tasks, Unbroken, Between
<1>7. QED
  BY <1>1, <1>2, <1>3, <1>4, <1>5, <1>6 DEF LoopInv

LEMMA BootLoop ==
  ASSUME ~AwaitYields, LoopInv, Boot, TaskInv'
  PROVE  LoopInv'
<1> USE DEF KeptIn, Boot, lockVars, handlerVars, taskVars, sweepVars
<1>0. \A r \in Requests : pc[r] = "idle" /\ method[r] = "none"
  BY DEF LoopInv, TaskInv, LoopOK, CallOK, Tasks
<1>1. RunToAnswer'
  BY <1>0 DEF LoopInv, TaskInv, TypeOK, RunToAnswer, Between
<1>2. SnapshotCurrent'
  BY <1>0 DEF LoopInv, TaskInv, TypeOK, SnapshotCurrent
<1>3. ListedOutliveSweep'
  BY DEF ListedOutliveSweep, Empty
<1>4. ClockOK'
  BY <1>0 DEF LoopInv, TaskInv, TypeOK, ClockOK, Empty
<1>5. \A q \in Requests : GrantOK(q)'
  BY <1>0 DEF LoopInv, TaskInv, TypeOK, GrantOK
<1>6. \A q \in Requests : Unbroken(q)'
  BY <1>0 DEF LoopInv, TaskInv, TypeOK, Tasks, Unbroken, Between
<1>7. QED
  BY <1>1, <1>2, <1>3, <1>4, <1>5, <1>6 DEF LoopInv

LEMMA ClockMovesLoop ==
  ASSUME ~AwaitYields, LoopInv, ClockMoves, TaskInv'
  PROVE  LoopInv'
<1> USE DEF ClockMoves, lockVars, handlerVars, taskVars, sweepVars
<1>1. RunToAnswer'
  BY DEF LoopInv, TaskInv, TypeOK, RunToAnswer, Between
<1>2. SnapshotCurrent'
  BY DEF LoopInv, TaskInv, TypeOK, SnapshotCurrent
<1>3. ListedOutliveSweep'
  BY DEF LoopInv, ListedOutliveSweep
<1>4. ClockOK'
  BY DEF LoopInv, TaskInv, TypeOK, ClockOK
<1>5. \A q \in Requests : GrantOK(q)'
  <2> TAKE q \in Requests
  <2>1. method[q] = "upsert" => since[q] \subseteq since'[q]
    BY DEF LoopInv, TaskInv, CallOK
  <2>2. GrantOK(q)
    BY DEF LoopInv
  <2>3. QED
    BY <2>1, <2>2 DEF GrantOK
<1>6. \A q \in Requests : Unbroken(q)'
  BY DEF LoopInv, TaskInv, TypeOK, Tasks, Unbroken, Between
<1>7. QED
  BY <1>1, <1>2, <1>3, <1>4, <1>5, <1>6 DEF LoopInv

-----------------------------------------------------------------------------
(* The build implements LeaseRegistry: the step that stores, removes, reads  *)
(* or refuses is the one where the request takes effect.                     *)

\* LR's copies of the operators of LeaseTable are those operators.
LEMMA SameTable ==
  /\ LR!Empty = Empty /\ LR!NoReply = NoReply /\ LR!Calls = Calls
  /\ LR!UnknownAgent = UnknownAgent
  /\ \A table : /\ LR!ListReply(table) = ListReply(table)
                /\ LR!CapabilitiesReply(table) = CapabilitiesReply(table)
  /\ \A table, s : LR!DiscoverReply(table, s) = DiscoverReply(table, s)
  /\ \A table, t : LR!WithoutExpired(table, t) = WithoutExpired(table, t)
  /\ \A x : LR!DeregisterReply(x) = DeregisterReply(x)
  /\ \A c, t : LR!Registered(c, t) = Registered(c, t)
  /\ \A x, t : LR!Renewed(x, t) = Renewed(x, t)
  /\ \A a, x : LR!RenewReply(a, x) = RenewReply(a, x)
  /\ \A a, e, x : LR!RegisterReply(a, e, x) = RegisterReply(a, e, x)
  BY DEF Empty, LR!Empty, NoReply, LR!NoReply, Calls, LR!Calls, RegisterCall,
         LR!RegisterCall, AgentCall, LR!AgentCall, ReadCall, LR!ReadCall,
         DiscoverCall, LR!DiscoverCall, UnknownAgent, LR!UnknownAgent, Answer,
         LR!Answer, ListReply, LR!ListReply, CapabilitiesReply,
         LR!CapabilitiesReply, Advertised, LR!Advertised, DiscoverReply,
         LR!DiscoverReply, Offering, LR!Offering, WithoutExpired,
         LR!WithoutExpired, ExpiredAt, LR!ExpiredAt, DeregisterReply,
         LR!DeregisterReply, Registered, LR!Registered, Renewed, LR!Renewed,
         RenewReply, LR!RenewReply, RegisterReply, LR!RegisterReply, Only,
         LR!Only

LEMMA ClientStep ==
  ASSUME TypeOK, NEW t \in Tasks, NEW place \in Places,
         pc' = [pc EXCEPT ![t] = place]
  PROVE  Client' = IF t = Sweeper THEN Client
                   ELSE [Client EXCEPT ![t] = ClientAt(place)]
<1>1. CASE t = Sweeper
  BY <1>1 DEF TypeOK, Client, Tasks
<1>2. CASE t # Sweeper
  <2>1. t \in Requests
    BY <1>2 DEF Tasks
  <2>2. \A r \in Requests : pc'[r] = IF r = t THEN place ELSE pc[r]
    BY DEF TypeOK, Tasks
  <2>3. Client' = [r \in Requests |-> IF r = t THEN ClientAt(place) ELSE Client[r]]
    BY <2>2 DEF Client
  <2>4. [Client EXCEPT ![t] = ClientAt(place)]
          = [r \in Requests |-> IF r = t THEN ClientAt(place) ELSE Client[r]]
    BY DEF Client
  <2>5. QED
    BY <1>2, <2>3, <2>4
<1>3. QED
  BY <1>1, <1>2

\* A step that neither answers nor accepts a request, and leaves the table alone.
LEMMA StutterRefines ==
  ASSUME TypeOK, NEW t \in Tasks, NEW place \in Places,
         pc' = [pc EXCEPT ![t] = place],
         t # Sweeper => ClientAt(place) = ClientAt(pc[t]),
         UNCHANGED <<now, agents, call, since, reply, shown>>
  PROVE  UNCHANGED LR!vars
<1>1. Client' = Client
  BY ClientStep DEF Client, Tasks
<1>2. QED
  BY <1>1 DEF LR!vars, LR!requestVars

LEMMA InnerStepRefines ==
  ASSUME LoopInv,
         \/ \E t \in Tasks : LockStep(t) \/ Schedule(t)
         \/ \E r \in Requests : Get(r) \/ BuildRegistration(r) \/ BuildRenewal(r)
         \/ SweeperWakes
  PROVE  UNCHANGED LR!vars
<1> USE DEF LoopInv, TaskInv, handlerVars, sweepVars, Places, ClientAt
<1>1. ASSUME NEW t \in Tasks, LockStep(t) \/ Wake(t)
      PROVE  UNCHANGED LR!vars
  <2>1. CASE Acquire(t)
    BY <2>1, StutterRefines DEF Acquire, Step
  <2>2. CASE Enqueue(t)
    BY <2>2, StutterRefines DEF Enqueue, Step
  <2>3. CASE Wake(t)
    BY <2>3 DEF Wake, RunToAnswer
  <2>4. QED
    BY <1>1, <2>1, <2>2, <2>3 DEF LockStep
<1>2. ASSUME NEW t \in Tasks, Resume(t)
      PROVE  UNCHANGED LR!vars
  BY <1>2 DEF Resume, LR!vars, LR!requestVars, Client
<1>3. ASSUME NEW r \in Requests, Get(r) \/ BuildRegistration(r) \/ BuildRenewal(r)
      PROVE  UNCHANGED LR!vars
  BY <1>3, StutterRefines
     DEF Get, BuildRegistration, BuildRenewal, CallUpsert, Leave, Step, Tasks
<1>4. CASE SweeperWakes
  BY <1>4, StutterRefines DEF SweeperWakes, Begin, Tasks
<1>5. QED
  BY <1>1, <1>2, <1>3, <1>4 DEF Schedule

\* A handler takes effect and is answered.
LEMMA EffectStep ==
  ASSUME TaskInv, NEW r \in Requests, pc[r] \in {"inside", "service"},
         pc' = [pc EXCEPT ![r] = "answered"]
  PROVE  Client[r] = "open" /\ Client' = [Client EXCEPT ![r] = "done"]
<1>1. Client' = [Client EXCEPT ![r] = "done"]
  BY ClientStep, AgentRegistryAssumption DEF TaskInv, Tasks, Places, ClientAt
<1>2. Client[r] = "open"
  BY DEF Client, ClientAt
<1>3. QED
  BY <1>1, <1>2

LEMMA UpsertRefines ==
  ASSUME LoopInv, NEW r \in Requests, Upsert(r)
  PROVE  LR!Register(r) \/ LR!Renew(r)
<1> DEFINE a == call[r].agent
<1>1. /\ pc[r] = "inside" /\ method[r] = "upsert"
      /\ pc' = [pc EXCEPT ![r] = "answered"]
      /\ agents' = [agents EXCEPT ![a] = record[r]]
      /\ reply' = [reply EXCEPT ![r] = IF call[r].kind = "register"
                                      THEN RegisterReply(a, existing[r], record[r])
                                      ELSE RenewReply(a, record[r])]
      /\ since' = [since EXCEPT ![r] = {}]
      /\ UNCHANGED <<now, call, shown>>
  BY DEF Upsert, Leave, Step, Finish, sweepVars
<1>2. /\ existing[r] = agents[a]
      /\ call[r].kind \in UpdateKinds
      /\ existing[r] = Absent => call[r].kind = "register"
  BY <1>1 DEF LoopInv, TaskInv, CallOK, SnapshotCurrent
<1>3. PICK t \in since[r] :
          record[r] = IF call[r].kind = "register"
                      THEN Registered(call[r], t) ELSE Renewed(existing[r], t)
  BY <1>1 DEF LoopInv, GrantOK
<1>4. t \in LR!LeaseStart(r)
  BY <1>1, <1>3 DEF LoopInv, Unbroken, Between, LR!LeaseStart
<1>5. Client[r] = "open" /\ Client' = [Client EXCEPT ![r] = "done"]
  BY <1>1, EffectStep DEF LoopInv
<1>6. CASE call[r].kind = "register"
  BY <1>1, <1>2, <1>3, <1>4, <1>5, <1>6, SameTable
     DEF LR!Register, LR!Open, LR!TakeEffect
<1>7. CASE call[r].kind = "renew"
  BY <1>1, <1>2, <1>3, <1>4, <1>5, <1>7, SameTable
     DEF LR!Renew, LR!Open, LR!TakeEffect
<1>8. QED
  BY <1>2, <1>6, <1>7 DEF UpdateKinds

LEMMA AnswerRefines ==
  ASSUME LoopInv, NEW r \in Requests,
         \/ RefuseRenewal(r) \/ Remove(r) \/ ListAll(r)
         \/ ListCapabilities(r) \/ FindByCapability(r)
  PROVE  LR!RefuseRenewal(r) \/ LR!Deregister(r) \/ LR!Read(r)
<1>1. /\ method[r] = "remove" => call[r].kind = "deregister"
      /\ method[r] = "list_all" => call[r].kind = "list"
      /\ method[r] = "list_capabilities" => call[r].kind = "capabilities"
      /\ method[r] = "find_by_capability" => call[r].kind = "discover"
  BY CallFields DEF LoopInv, TaskInv, CallOK, FirstMethod
<1>2. /\ pc[r] \in {"inside", "service"}
      /\ pc' = [pc EXCEPT ![r] = "answered"]
      /\ since' = [since EXCEPT ![r] = {}]
      /\ UNCHANGED <<now, call, shown>>
  BY DEF RefuseRenewal, Remove, ListAll, ListCapabilities, FindByCapability,
         Leave, Step, Finish, sweepVars
<1>3. Client[r] = "open" /\ Client' = [Client EXCEPT ![r] = "done"]
  BY <1>2, EffectStep DEF LoopInv
<1> USE <1>2, <1>3, SameTable
    DEF Leave, Step, Finish, LR!TakeEffect, LR!Open
<1>4. CASE RefuseRenewal(r)
  <2>1. agents[call[r].agent] = Absent
    BY <1>4 DEF RefuseRenewal, LoopInv, SnapshotCurrent
  <2>2. QED
    BY <1>4, <2>1 DEF RefuseRenewal, LR!RefuseRenewal
<1>5. CASE Remove(r)
  BY <1>1, <1>5 DEF Remove, LR!Deregister
<1>6. CASE ListAll(r)
  BY <1>1, <1>6 DEF ListAll, LR!Read
<1>7. CASE ListCapabilities(r)
  BY <1>1, <1>7 DEF ListCapabilities, LR!Read
<1>8. CASE FindByCapability(r)
  BY <1>1, <1>8 DEF FindByCapability, LR!Read
<1>9. QED
  BY <1>4, <1>5, <1>6, <1>7, <1>8

LEMMA ClientRefines ==
  ASSUME LoopInv, NEW r \in Requests
  PROVE  /\ Arrive(r) => \E c \in Calls : LR!Invoke(r, c)
         /\ Return(r) => LR!Return(r)
<1> USE AgentRegistryAssumption
    DEF LoopInv, TaskInv, Tasks, Places, ClientAt, sweepVars
<1>1. ASSUME Arrive(r)
      PROVE  \E c \in Calls : LR!Invoke(r, c)
  <2>1. PICK c \in Calls : /\ call' = [call EXCEPT ![r] = c]
                          /\ pc[r] = "idle"
                          /\ pc' = [pc EXCEPT ![r] = "entering"]
    BY <1>1 DEF Arrive, Begin
  <2>2. Client' = [Client EXCEPT ![r] = "open"] /\ Client[r] = "free"
    BY <2>1, ClientStep DEF Client
  <2>3. QED
    BY <1>1, <2>1, <2>2 DEF Arrive, LR!Invoke
<1>2. ASSUME Return(r)
      PROVE  LR!Return(r)
  <2>1. Client' = [Client EXCEPT ![r] = "free"] /\ Client[r] = "done"
    BY <1>2, ClientStep DEF Return, Client
  <2>2. QED
    BY <1>2, <2>1, SameTable DEF Return, LR!Return, NoCall, LR!NoCall
<1>3. QED
  BY <1>1, <1>2

LEMMA ServerRefines ==
  ASSUME LoopInv
  PROVE  /\ RemoveExpired => LR!Sweep
         /\ Startup \/ StopRequested \/ Stop => UNCHANGED LR!vars
         /\ Boot => LR!Restart
         /\ ClockMoves => LR!ClockMoves
<1> USE AgentRegistryAssumption
    DEF LoopInv, TaskInv, Tasks, Places, ClientAt, lockVars, taskVars,
        handlerVars, sweepVars
<1>1. ASSUME RemoveExpired
      PROVE  LR!Sweep
  <2>1. Client' = Client
    BY <1>1, ClientStep DEF RemoveExpired, Leave, Step
  <2>2. sweepNow \in shown
    BY <1>1 DEF RemoveExpired, Leave, Step, ClockOK
  <2>3. QED
    BY <1>1, <2>1, <2>2, SameTable DEF RemoveExpired, LR!Sweep, LR!requestVars
<1>2. ASSUME Startup \/ StopRequested \/ Stop
      PROVE  UNCHANGED LR!vars
  <2>1. CASE Startup \/ Stop
    BY <2>1, StutterRefines DEF Startup, Stop
  <2>2. CASE StopRequested
    BY <2>2 DEF StopRequested, Client, LR!vars, LR!requestVars
  <2>3. QED
    BY <1>2, <2>1, <2>2
<1>3. ASSUME Boot
      PROVE  LR!Restart
  BY <1>3, SameTable DEF Boot, LoopOK, Client, LR!Restart, LR!requestVars
<1>4. ASSUME ClockMoves
      PROVE  LR!ClockMoves
  BY <1>4 DEF ClockMoves, Client, LR!ClockMoves, LR!requestVars
<1>5. QED
  BY <1>1, <1>2, <1>3, <1>4

-----------------------------------------------------------------------------
(* Every behaviour. *)

LEMMA InitTask == Init => TaskInv
  BY EmptyTable, EmptySeq, LeaseTableAssumption
     DEF Init, TaskInv, TypeOK, CallOK, LoopOK, LockDiscipline, Tasks, Places,
         Methods, Between

LEMMA NextTask == TaskInv /\ [Next]_vars => TaskInv'
<1> SUFFICES ASSUME TaskInv, [Next]_vars PROVE TaskInv'
  OBVIOUS
<1>1. ASSUME NEW t \in Tasks, LockStep(t) \/ Schedule(t) PROVE TaskInv'
  BY <1>1, AcquireTask, EnqueueTask, WakeTask, ResumeTask DEF LockStep, Schedule
<1>2. ASSUME NEW r \in Requests, HandlerStep(r) PROVE TaskInv'
  BY <1>2, GetTask, BuildRegistrationTask, BuildRenewalTask, RefuseRenewalTask,
     UpsertTask, RemoveTask, ListAllTask, ListCapabilitiesTask,
     FindByCapabilityTask DEF HandlerStep
<1>3. ASSUME NEW r \in Requests, Arrive(r) \/ Return(r) PROVE TaskInv'
  BY <1>3, ArriveTask, ReturnTask
<1>4. CASE SweeperWakes \/ RemoveExpired
  BY <1>4, SweeperWakesTask, RemoveExpiredTask
<1>5. CASE Startup \/ StopRequested \/ Stop \/ Boot \/ ClockMoves
  BY <1>5, StartupTask, StopRequestedTask, StopTask, BootTask, ClockMovesTask
<1>6. CASE UNCHANGED vars
  BY <1>6 DEF vars, lockVars, handlerVars, taskVars, sweepVars, TaskInv, TypeOK,
              CallOK, LoopOK, LockDiscipline
<1>7. QED
  BY <1>1, <1>2, <1>3, <1>4, <1>5, <1>6 DEF Next, RunningStep

\* Whatever awaits do: the tasks are where their requests call for.
THEOREM TaskInvariance == Spec => []TaskInv
  BY InitTask, NextTask, PTL DEF Spec

\* Whatever awaits do: every variable has its type.
THEOREM TypeCorrectness == Spec => []TypeOK
<1>1. TaskInv => TypeOK
  BY DEF TaskInv
<1>2. QED
  BY <1>1, TaskInvariance, PTL

\* Whatever awaits do: the lock admits one task, its queue holds the suspended
\* ones, and a shutdown leaves it free.
THEOREM LockIsDisciplined == Spec => []LockDiscipline
<1>1. TaskInv => LockDiscipline
  BY DEF TaskInv
<1>2. QED
  BY <1>1, TaskInvariance, PTL

\* The build is the instance in which awaits do not yield.
Build == ~AwaitYields

LEMMA InitLoop == Init => LoopInv
  BY InitTask
     DEF Init, LoopInv, RunToAnswer, SnapshotCurrent, ListedOutliveSweep,
         ClockOK, GrantOK, Unbroken, Between, Tasks, Empty

LEMMA NextLoop == Build /\ LoopInv /\ [Next]_vars => LoopInv'
<1> SUFFICES ASSUME Build, LoopInv, [Next]_vars PROVE LoopInv'
  OBVIOUS
<1> USE DEF Build
<1>0. TaskInv'
  BY NextTask DEF LoopInv
<1>1. ASSUME NEW t \in Tasks, LockStep(t) \/ Schedule(t) PROVE LoopInv'
  <2>1. CASE Acquire(t)
    BY <1>0, <2>1, AcquireLoop
  <2>2. CASE Resume(t)
    BY <2>2, AgentRegistryAssumption DEF Resume, LoopInv, RunToAnswer
  <2>3. CASE Enqueue(t)
    <3>1. lock # Nobody /\ pc[t] = "entering" /\ running = t
      BY <2>3 DEF Enqueue, Step, LoopInv, RunToAnswer
    <3>2. lock \in Tasks /\ pc[lock] = "inside"
      BY <3>1 DEF LoopInv, TaskInv, TypeOK, LockDiscipline
    <3>3. QED
      BY <3>1, <3>2 DEF LoopInv, RunToAnswer, Between
  <2>4. CASE Wake(t)
    BY <2>4 DEF Wake, LoopInv, RunToAnswer
  <2>5. QED
    BY <1>1, <2>1, <2>2, <2>3, <2>4 DEF LockStep, Schedule
<1>2. ASSUME NEW r \in Requests, HandlerStep(r) PROVE LoopInv'
  BY <1>0, <1>2, GetLoop, BuildRegistrationLoop, BuildRenewalLoop,
     RefuseRenewalLoop, UpsertLoop, RemoveLoop, ListAllLoop,
     ListCapabilitiesLoop, FindByCapabilityLoop DEF HandlerStep
<1>3. ASSUME NEW r \in Requests, Arrive(r) \/ Return(r) PROVE LoopInv'
  BY <1>0, <1>3, ArriveLoop, ReturnLoop
<1>4. CASE SweeperWakes \/ RemoveExpired
  BY <1>0, <1>4, SweeperWakesLoop, RemoveExpiredLoop
<1>5. CASE Startup \/ StopRequested \/ Stop \/ Boot \/ ClockMoves
  BY <1>0, <1>5, StartupLoop, StopRequestedLoop, StopLoop, BootLoop, ClockMovesLoop
<1>6. CASE UNCHANGED vars
  BY <1>0, <1>6
     DEF vars, lockVars, handlerVars, taskVars, sweepVars, LoopInv, RunToAnswer,
         SnapshotCurrent, ListedOutliveSweep, ClockOK, GrantOK, Unbroken
<1>7. QED
  BY <1>1, <1>2, <1>3, <1>4, <1>5, <1>6 DEF Next, RunningStep

\* In the build: tasks never meet at the lock.
THEOREM LoopInvariance == Build /\ Spec => []LoopInv
<1>1. Build /\ LoopInv /\ [Next]_vars => (Build /\ LoopInv)'
  BY NextLoop DEF Build
<1>2. Build /\ Spec => [](Build /\ LoopInv)
  BY <1>1, InitLoop, PTL DEF Spec
<1>3. QED
  BY <1>2, PTL

\* In the build: what register and renew read is current when they store.
THEOREM SnapshotsAreCurrent == Build /\ Spec => []SnapshotCurrent
<1>1. LoopInv => SnapshotCurrent
  BY DEF LoopInv
<1>2. QED
  BY <1>1, LoopInvariance, PTL

\* In the build, however the clock is set: no listed lease was over both at the
\* last sweep's reading and at every time the clock has shown since.
THEOREM ListedLeasesOutliveSweep == Build /\ Spec => []ListedOutliveSweep
<1>1. LoopInv => ListedOutliveSweep
  BY DEF LoopInv
<1>2. QED
  BY <1>1, LoopInvariance, PTL

\* In the build: the tasks implement the atomic registry.
THEOREM Refinement == Build /\ Spec => ImplementsLeaseRegistry
<1>1. Init => LR!Init
  <2>1. Init => Client = [r \in Requests |-> "free"]
    BY AgentRegistryAssumption DEF Init, Client, ClientAt, Tasks
  <2>2. QED
    BY <2>1, SameTable DEF Init, LR!Init, NoCall, LR!NoCall
<1>2. LoopInv /\ [Next]_vars => [LR!Next]_(LR!vars)
  <2> SUFFICES ASSUME LoopInv, [Next]_vars
               PROVE  LR!Next \/ UNCHANGED LR!vars
    OBVIOUS
  <2>1. ASSUME NEW t \in Tasks, LockStep(t) \/ Schedule(t)
        PROVE  UNCHANGED LR!vars
    BY <2>1, InnerStepRefines
  <2>2. ASSUME NEW r \in Requests, HandlerStep(r)
        PROVE  LR!Next \/ UNCHANGED LR!vars
    <3>1. CASE Get(r) \/ BuildRegistration(r) \/ BuildRenewal(r)
      BY <3>1, InnerStepRefines
    <3>2. CASE Upsert(r)
      BY <3>2, UpsertRefines DEF LR!Next
    <3>3. CASE \/ RefuseRenewal(r) \/ Remove(r) \/ ListAll(r)
               \/ ListCapabilities(r) \/ FindByCapability(r)
      BY <3>3, AnswerRefines DEF LR!Next
    <3>4. QED
      BY <2>2, <3>1, <3>2, <3>3 DEF HandlerStep
  <2>3. ASSUME NEW r \in Requests, Arrive(r) \/ Return(r)
        PROVE  LR!Next
    BY <2>3, ClientRefines, SameTable DEF LR!Next
  <2>4. CASE SweeperWakes
    BY <2>4, InnerStepRefines
  <2>5. CASE RemoveExpired \/ Startup \/ StopRequested \/ Stop \/ Boot \/ ClockMoves
    BY <2>5, ServerRefines DEF LR!Next
  <2>6. CASE UNCHANGED vars
    BY <2>6 DEF vars, taskVars, handlerVars, sweepVars, LR!vars, LR!requestVars,
                Client
  <2>7. QED
    BY <2>1, <2>2, <2>3, <2>4, <2>5, <2>6 DEF Next, RunningStep
<1>3. QED
  BY <1>1, <1>2, LoopInvariance, PTL
  DEF Spec, LR!Spec, ImplementsLeaseRegistry
=============================================================================
