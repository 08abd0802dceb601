--------------------------- MODULE AgentRegistry ---------------------------
(***************************************************************************)
(* agent-registry: the FastAPI handlers, RegistryService, AgentRepository  *)
(* with its asyncio.Lock, and the LeaseManager's sweeper, as tasks of one  *)
(* event loop.                                                             *)
(*                                                                         *)
(* A task is a request handler or the sweeper.  The loop runs one task at  *)
(* a time (`running`), until it suspends.  Every repository method is one  *)
(* `async with self._lock` section: the task asks for the lock, is inside, *)
(* and leaves with a result.  register and renew use two sections, get and *)
(* then upsert, with the service's own code, which reads the clock, in     *)
(* between; the lock is not held there.                                    *)
(*                                                                         *)
(* AwaitYields says whether an `await` may give the loop to another task   *)
(* even when nothing blocks.  In the build it does not (FALSE): awaiting a *)
(* coroutine runs it directly, and an uncontended lock is taken without    *)
(* suspending.  TRUE is the weakest reading of `await`, under which only   *)
(* the lock orders the tasks; the difference between the two is what the   *)
(* registry owes to the event loop rather than to its lock.                *)
(***************************************************************************)
EXTENDS LeaseTable, Sequences

CONSTANTS Requests,      \* client connections, one request at a time each
          Sweeper,       \* the LeaseManager's task
          Nobody,        \* no task
          AwaitYields,   \* whether every await may suspend the task
          MaxTime        \* bound on the clock

Tasks == Requests \cup {Sweeper}

ASSUME AgentRegistryAssumption ==
    /\ Sweeper \notin Requests
    /\ Nobody \notin Tasks
    /\ AwaitYields \in BOOLEAN
    /\ MaxTime \in Nat

VARIABLES
    now,        \* the clock
    agents,     \* AgentRepository._agents
    lock,       \* the task that holds AgentRepository._lock, or Nobody
    waiters,    \* the tasks suspended in its acquire(), oldest first
    running,    \* the task the loop is running, or Nobody
    phase,      \* the lifespan: "created", "serving", "stopping", "stopped"
    pc,         \* where each task is, see Places
    method,     \* the repository method a task is calling
    call,       \* the request a handler serves
    existing,   \* the local of that name in register and renew
    record,     \* the record a handler is about to store
    reply,      \* the answer of a handler that has returned
    sweepNow,   \* the argument `now` of the sweeper's remove_expired (0: no call)
    since,      \* history: the times the clock has shown during each request
    kept,       \* history: those since each listed agent's record was stored
    shown       \* history: those since the last remove_expired, its `now` included

lockVars == <<lock, waiters>>
handlerVars == <<call, existing, record, reply, since>>
taskVars == <<running, pc, method>>
sweepVars == <<sweepNow, shown>>
vars == <<now, agents, kept, lockVars, phase, taskVars, handlerVars, sweepVars>>

Places == {"idle",      \* handler: no request; sweeper: asleep
           "off",       \* sweeper: no task exists
           "entering",  \* about to acquire the lock for `method`
           "queued",    \* suspended in acquire()
           "inside",    \* holds the lock
           "service",   \* back from get(), in the service's code
           "answered"}  \* the handler has returned
Methods == {"none", "get", "upsert", "remove", "list_all",
            "list_capabilities", "find_by_capability", "remove_expired"}
NoCall == [kind |-> "none"]

\* The variables have their types, whatever the tasks are doing.
TypeOK ==
    /\ now \in Nat
    /\ agents \in Table
    /\ lock \in Tasks \cup {Nobody}
    /\ waiters \in Seq(Tasks)
    /\ running \in Tasks \cup {Nobody}
    /\ phase \in {"created", "serving", "stopping", "stopped"}
    /\ pc \in [Tasks -> Places]
    /\ method \in [Tasks -> Methods]
    /\ call \in [Requests -> Calls \cup {NoCall}]
    /\ existing \in [Requests -> Record \cup {Absent}]
    /\ record \in [Requests -> Record \cup {Absent}]
    /\ reply \in [Requests -> Replies \cup {NoReply}]
    /\ since \in [Requests -> SUBSET Nat]
    /\ kept \in [Agents -> SUBSET Nat]
    /\ sweepNow \in Nat
    /\ shown \in SUBSET Nat

Init ==
    /\ now = 0
    /\ agents = Empty
    /\ lock = Nobody
    /\ waiters = <<>>
    /\ running = Nobody
    /\ phase = "created"
    /\ pc = [t \in Tasks |-> IF t = Sweeper THEN "off" ELSE "idle"]
    /\ method = [t \in Tasks |-> "none"]
    /\ call = [r \in Requests |-> NoCall]
    /\ existing = [r \in Requests |-> Absent]
    /\ record = [r \in Requests |-> Absent]
    /\ reply = [r \in Requests |-> NoReply]
    /\ since = [r \in Requests |-> {}]
    /\ kept = [a \in Agents |-> {}]
    /\ sweepNow = 0
    /\ shown = {now}

-----------------------------------------------------------------------------
(* The event loop and the lock. *)

\* Where the loop stands once task t has come to an await that need not block.
AfterAwait(t) == IF AwaitYields THEN {t, Nobody} ELSE {t}

\* Task t, which is running at place `from`, goes on to place `to`.
Step(t, from, to) ==
    /\ running = t
    /\ pc[t] = from
    /\ pc' = [pc EXCEPT ![t] = to]

\* The first await of a handler or of the sweeper: t asks for the lock.
Begin(t, m) ==
    /\ running = Nobody
    /\ running' \in AfterAwait(t)
    /\ pc[t] = "idle"
    /\ pc' = [pc EXCEPT ![t] = "entering"]
    /\ method' = [method EXCEPT ![t] = m]

\* The fast path of acquire(): nobody holds the lock or waits for it.
Acquire(t) ==
    /\ Step(t, "entering", "inside")
    /\ lock = Nobody
    /\ waiters = <<>>
    /\ lock' = t
    /\ running' \in AfterAwait(t)
    /\ UNCHANGED <<now, agents, kept, waiters, method, phase, handlerVars,
                   sweepVars>>

\* The slow path: t appends its future to the waiters and suspends.
Enqueue(t) ==
    /\ Step(t, "entering", "queued")
    /\ lock # Nobody \/ waiters # <<>>
    /\ waiters' = Append(waiters, t)
    /\ running' = Nobody
    /\ UNCHANGED <<now, agents, kept, lock, method, phase, handlerVars, sweepVars>>

\* release() woke the oldest waiter, which now takes the free lock.
Wake(t) ==
    /\ running = Nobody
    /\ running' = t
    /\ lock = Nobody
    /\ waiters # <<>>
    /\ Head(waiters) = t
    /\ waiters' = Tail(waiters)
    /\ lock' = t
    /\ pc' = [pc EXCEPT ![t] = "inside"]
    /\ UNCHANGED <<now, agents, kept, method, phase, handlerVars, sweepVars>>

\* The loop comes back to a task that an await has suspended without need.
Between == {"entering", "inside", "service"}

Resume(t) ==
    /\ running = Nobody
    /\ pc[t] \in Between
    /\ running' = t
    /\ UNCHANGED <<now, agents, kept, lockVars, phase, pc, method, handlerVars,
                   sweepVars>>

\* Task t finishes method m: the end of its `async with`.
Leave(t, m, to) ==
    /\ Step(t, "inside", to)
    /\ method[t] = m
    /\ method' = [method EXCEPT ![t] = "none"]
    /\ lock' = Nobody
    /\ UNCHANGED waiters

\* The history of the agents that `table` lists.
KeptIn(table) == [a \in Agents |-> IF table[a] = Absent THEN {} ELSE kept[a]]

\* The handler r returns an answer: its locals die, its task leaves the loop.
Finish(r, answer) ==
    /\ running' = Nobody
    /\ reply' = [reply EXCEPT ![r] = answer]
    /\ existing' = [existing EXCEPT ![r] = Absent]
    /\ record' = [record EXCEPT ![r] = Absent]
    /\ since' = [since EXCEPT ![r] = {}]
    /\ UNCHANGED <<now, phase, call, sweepVars>>
-----------------------------------------------------------------------------
(* The handlers. *)

\* Wrong on purpose: deregister looks the agent up before it removes it.
FirstMethodReads(c) ==
    CASE c.kind \in {"register", "renew", "deregister"} -> "get"
      [] c.kind = "list" -> "list_all"
      [] c.kind = "capabilities" -> "list_capabilities"
      [] c.kind = "discover" -> "find_by_capability"

FirstMethod(c) ==
    CASE c.kind \in {"register", "renew"} -> "get"
      [] c.kind = "deregister" -> "remove"
      [] c.kind = "list" -> "list_all"
      [] c.kind = "capabilities" -> "list_capabilities"
      [] c.kind = "discover" -> "find_by_capability"

Arrive(r) ==
    /\ phase = "serving"
    /\ \E c \in Calls :
        /\ call' = [call EXCEPT ![r] = c]
        /\ Begin(r, FirstMethod(c))
    /\ since' = [since EXCEPT ![r] = {now}]
    /\ UNCHANGED <<now, agents, kept, lockVars, phase, existing, record, reply,
                   sweepVars>>

Get(r) ==
    /\ Leave(r, "get", "service")
    /\ existing' = [existing EXCEPT ![r] = agents[call[r].agent]]
    /\ running' \in AfterAwait(r)
    /\ UNCHANGED <<now, agents, kept, phase, call, record, reply, since,
                   sweepVars>>

\* Wrong on purpose: the service awaits something that suspends before upsert().
YieldBeforeUpsert(r, rec) ==
    /\ Step(r, "service", "entering")
    /\ method' = [method EXCEPT ![r] = "upsert"]
    /\ record' = [record EXCEPT ![r] = rec]
    /\ running' = Nobody
    /\ UNCHANGED <<now, agents, kept, lockVars, phase, call, existing,
                   reply, since, sweepVars>>

\* The service goes on to upsert(rec).
CallUpsert(r, rec) ==
    /\ Step(r, "service", "entering")
    /\ method' = [method EXCEPT ![r] = "upsert"]
    /\ record' = [record EXCEPT ![r] = rec]
    /\ running' \in AfterAwait(r)
    /\ UNCHANGED <<now, agents, kept, lockVars, phase, call, existing,
                   reply, since, sweepVars>>

BuildRegistration(r) ==
    /\ call[r].kind = "register"
    /\ CallUpsert(r, Registered(call[r], now))

\* Wrong on purpose: the old lease is extended, whatever the clock says.
ExtendLease(r) ==
    /\ call[r].kind = "renew"
    /\ existing[r] # Absent
    /\ CallUpsert(r, [existing[r] EXCEPT !.lease = @ + LeaseDuration])

BuildRenewal(r) ==
    /\ call[r].kind = "renew"
    /\ existing[r] # Absent
    /\ CallUpsert(r, Renewed(existing[r], now))

RefuseRenewal(r) ==
    /\ call[r].kind = "renew"
    /\ existing[r] = Absent
    /\ Step(r, "service", "answered")
    /\ Finish(r, UnknownAgent)
    /\ UNCHANGED <<agents, kept, lockVars, method>>

\* upsert(), then the rest of register or renew up to its return.
Upsert(r) ==
    /\ Leave(r, "upsert", "answered")
    /\ agents' = [agents EXCEPT ![call[r].agent] = record[r]]
    /\ kept' = [kept EXCEPT ![call[r].agent] = {now}]
    /\ Finish(r, IF call[r].kind = "register"
                 THEN RegisterReply(call[r].agent, existing[r], record[r])
                 ELSE RenewReply(call[r].agent, record[r]))

\* Wrong on purpose: an early return for an unknown agent skips the release.
RemoveHoldingLock(r) ==
    /\ Step(r, "inside", "answered")
    /\ method[r] = "remove"
    /\ method' = [method EXCEPT ![r] = "none"]
    /\ lock' = IF agents[call[r].agent] = Absent THEN r ELSE Nobody
    /\ agents' = [agents EXCEPT ![call[r].agent] = Absent]
    /\ Finish(r, DeregisterReply(agents[call[r].agent]))
    /\ kept' = KeptIn(agents')
    /\ UNCHANGED waiters

Remove(r) ==
    /\ Leave(r, "remove", "answered")
    /\ agents' = [agents EXCEPT ![call[r].agent] = Absent]
    /\ Finish(r, DeregisterReply(agents[call[r].agent]))
    /\ kept' = KeptIn(agents')

ListAll(r) ==
    /\ Leave(r, "list_all", "answered")
    /\ Finish(r, ListReply(agents))
    /\ UNCHANGED <<agents, kept>>

ListCapabilities(r) ==
    /\ Leave(r, "list_capabilities", "answered")
    /\ Finish(r, CapabilitiesReply(agents))
    /\ UNCHANGED <<agents, kept>>

FindByCapability(r) ==
    /\ Leave(r, "find_by_capability", "answered")
    /\ Finish(r, DiscoverReply(agents, call[r].skill))
    /\ UNCHANGED <<agents, kept>>

\* The response has reached the client.
Return(r) ==
    /\ pc[r] = "answered"
    /\ pc' = [pc EXCEPT ![r] = "idle"]
    /\ call' = [call EXCEPT ![r] = NoCall]
    /\ reply' = [reply EXCEPT ![r] = NoReply]
    /\ UNCHANGED <<now, agents, kept, lockVars, running, phase, method, existing,
                   record, since, sweepVars>>

-----------------------------------------------------------------------------
(* The sweeper, and the lifespan that starts and cancels it. *)

\* The sleep is over: sweep_expired() reads the clock before it asks for the
\* lock.
SweeperWakes ==
    /\ Begin(Sweeper, "remove_expired")
    /\ sweepNow' = now
    /\ UNCHANGED <<now, agents, kept, lockVars, phase, handlerVars, shown>>

\* Wrong on purpose: leases are taken that end within a unit of the sweep.
RemoveEarly ==
    /\ Leave(Sweeper, "remove_expired", "idle")
    /\ agents' = WithoutExpired(agents, sweepNow + 1)
    /\ running' = Nobody
    /\ shown' = {sweepNow, now}
    /\ sweepNow' = 0
    /\ kept' = KeptIn(agents')
    /\ UNCHANGED <<now, phase, handlerVars>>

\* Wrong on purpose: the sweeper's loop ends after its first sweep.
RemoveOnce ==
    /\ Leave(Sweeper, "remove_expired", "off")
    /\ agents' = WithoutExpired(agents, sweepNow)
    /\ running' = Nobody
    /\ shown' = {sweepNow, now}
    /\ sweepNow' = 0
    /\ kept' = KeptIn(agents')
    /\ UNCHANGED <<now, phase, handlerVars>>

RemoveExpired ==
    /\ Leave(Sweeper, "remove_expired", "idle")
    /\ agents' = WithoutExpired(agents, sweepNow)
    /\ running' = Nobody
    /\ shown' = {sweepNow, now}
    /\ sweepNow' = 0
    /\ kept' = KeptIn(agents')
    /\ UNCHANGED <<now, phase, handlerVars>>

\* The lifespan up to its yield: LeaseManager.start().
Startup ==
    /\ phase = "created"
    /\ phase' = "serving"
    /\ pc' = [pc EXCEPT ![Sweeper] = "idle"]
    /\ UNCHANGED <<now, agents, kept, lockVars, running, method, handlerVars,
                   sweepVars>>

\* The server accepts no more requests; those in flight are still served.
StopRequested ==
    /\ phase = "serving"
    /\ phase' = "stopping"
    /\ UNCHANGED <<now, agents, kept, lockVars, taskVars, handlerVars, sweepVars>>

\* Wrong on purpose: a sweeper cancelled in its section keeps the lock.
StopHoldingLock ==
    /\ phase = "stopping"
    /\ phase' = "stopped"
    /\ running = Nobody
    /\ \A r \in Requests : pc[r] = "idle"
    /\ pc' = [pc EXCEPT ![Sweeper] = "off"]
    /\ method' = [method EXCEPT ![Sweeper] = "none"]
    /\ sweepNow' = 0
    /\ UNCHANGED <<now, agents, kept, lockVars, running, handlerVars, shown>>

\* The lifespan after its yield: LeaseManager.stop() cancels the sweeper and
\* awaits its end.  A cancelled section releases the lock; a cancelled acquire()
\* leaves the queue, where with no handler left it was alone.
Stop ==
    /\ phase = "stopping"
    /\ phase' = "stopped"
    /\ running = Nobody
    /\ \A r \in Requests : pc[r] = "idle"
    /\ pc' = [pc EXCEPT ![Sweeper] = "off"]
    /\ method' = [method EXCEPT ![Sweeper] = "none"]
    /\ lock' = IF lock = Sweeper THEN Nobody ELSE lock
    /\ waiters' = IF pc[Sweeper] = "queued" THEN Tail(waiters) ELSE waiters
    /\ sweepNow' = 0
    /\ UNCHANGED <<now, agents, kept, running, handlerVars, shown>>

\* The next process: create_app() makes a new repository.
Boot ==
    /\ phase = "stopped"
    /\ phase' = "created"
    /\ agents' = Empty
    /\ lock' = Nobody
    /\ waiters' = <<>>
    /\ kept' = KeptIn(agents')
    /\ UNCHANGED <<now, taskVars, handlerVars, sweepVars>>

\* datetime.now is a wall clock: it goes on, or is set, forward or back.
ClockMoves ==
    /\ now' \in (0 .. MaxTime) \ {now}
    /\ since' = [r \in Requests |-> IF pc[r] \in {"idle", "answered"} THEN {}
                                ELSE since[r] \cup {now'}]
    /\ kept' = [a \in Agents |-> IF agents[a] = Absent THEN {}
                              ELSE kept[a] \cup {now'}]
    /\ shown' = shown \cup {now'}
    /\ UNCHANGED <<agents, lockVars, phase, taskVars, call, existing, record,
                   reply, sweepNow>>

\* The loop turns to a task.
Schedule(t) == Wake(t) \/ Resume(t)

\* The running task goes on.
LockStep(t) == Acquire(t) \/ Enqueue(t)
HandlerStep(r) ==
    \/ Get(r) \/ BuildRegistration(r) \/ BuildRenewal(r) \/ RefuseRenewal(r)
    \/ Upsert(r) \/ Remove(r) \/ ListAll(r) \/ ListCapabilities(r)
    \/ FindByCapability(r)
RunningStep ==
    \/ \E t \in Tasks : LockStep(t)
    \/ \E r \in Requests : HandlerStep(r)
    \/ RemoveExpired

Next ==
    \/ \E t \in Tasks : Schedule(t)
    \/ RunningStep
    \/ \E r \in Requests : Arrive(r) \/ Return(r)
    \/ SweeperWakes
    \/ Startup \/ StopRequested \/ Stop \/ Boot
    \/ ClockMoves

Spec == Init /\ [][Next]_vars

\* The loop lets the running task run, delivers responses, and serves its
\* ready tasks, timers included, in FIFO order, so none is passed over for
\* ever.  Clients and the operator owe nothing.
Fairness ==
    /\ WF_vars(RunningStep)
    /\ \A r \in Requests : WF_vars(Return(r))
    /\ SF_vars(SweeperWakes)
    /\ \A t \in Tasks : SF_vars(Schedule(t))

FairSpec == Spec /\ Fairness

-----------------------------------------------------------------------------
(* Properties. *)

\* The abstract registry that these tasks implement when awaits do not yield:
\* a request is open until its handler has returned.
ClientAt(place) == CASE place = "idle" -> "free"
                     [] place = "answered" -> "done"
                     [] OTHER -> "open"
Client == [r \in Requests |-> ClientAt(pc[r])]

LR == INSTANCE LeaseRegistry WITH client <- Client

\* Every request takes effect in one step of the table, between its arrival
\* and its answer, with an answer and a lease that fit that step: register and
\* renew behave as one step although they take the lock twice.
ImplementsLeaseRegistry == LR!Spec

\* What register or renew read with get() is still what the table holds when
\* it builds and stores its record: no renewal revives an agent that was
\* deregistered or swept meanwhile, or undoes a newer registration.
SnapshotCurrent ==
    \A r \in Requests :
        pc[r] = "service" \/ method[r] = "upsert"
            => existing[r] = agents[call[r].agent]

\* No listed agent has a lease that was over both at the last sweep's reading of
\* the clock and at every time the clock has shown since: a sweep leaves nothing
\* that was over, and nothing counted before it is stored after it.  Only a
\* clock set back lets a lease be listed that ends by the sweep's own reading.
ListedOutliveSweep ==
    \A a \in Agents :
        agents[a] # Absent => \E t \in shown : agents[a].lease > t

\* An agent leaves the table only by its own deregistration, with the process,
\* or when its lease was over at a time the clock has shown since the last
\* sweep: the sweeper, whose reading may be late, or ahead of a clock set back,
\* when it has had to wait for the lock, takes no agent that was live all along.
LiveAgentsStay ==
    [][\A a \in Agents :
          /\ agents[a] # Absent
          /\ \A t \in shown : ~ExpiredAt(agents[a], t)
          /\ agents'[a] = Absent
          => \/ phase = "stopped"
             \/ \E r \in Requests : /\ call[r].kind = "deregister"
                                    /\ call[r].agent = a
                                    /\ pc[r] # "answered"
                                    /\ pc'[r] = "answered"]_vars

\* No lease granted to an agent is taken back by a slower request: the lease
\* that replaces another is counted from a time the clock has shown since that
\* one was stored.  Only a clock set back meanwhile lets it end earlier.
NewerLeasesPrevail ==
    [][\A a \in Agents :
          /\ agents[a] # Absent /\ agents'[a] # Absent
          /\ agents'[a] # agents[a]
          => \E t \in kept[a] : agents'[a].lease = t + LeaseDuration]_vars

\* The lock admits one task, its queue holds exactly the suspended tasks, and
\* shutting down leaves neither held nor queued, even when the cancellation
\* finds the sweeper inside its section.
LockDiscipline ==
    /\ \A t \in Tasks : pc[t] = "inside" <=> lock = t
    /\ \A t \in Tasks : pc[t] = "queued" <=> \E i \in 1 .. Len(waiters) : waiters[i] = t
    /\ \A i, j \in 1 .. Len(waiters) : waiters[i] = waiters[j] => i = j
    /\ phase = "stopped" => lock = Nobody /\ waiters = <<>> /\ running = Nobody

\* Inductive: a handler is at the method its request calls for and holds what
\* that method needs, and only a task in the middle of its work runs.
UpdateKinds == {"register", "renew"}

CallOK(r) ==
    /\ pc[r] # "off"
    /\ pc[r] # "idle" => call[r] \in Calls
    /\ pc[r] = "service" => call[r].kind \in UpdateKinds
    /\ method[r] # "none" <=> pc[r] \in {"entering", "queued", "inside"}
    /\ method[r] \notin {"none", "upsert"} => method[r] = FirstMethod(call[r])
    /\ method[r] = "upsert" => /\ call[r].kind \in UpdateKinds
                               /\ record[r] \in Record
                               /\ existing[r] = Absent => call[r].kind = "register"

LoopOK ==
    /\ pc[Sweeper] \notin {"service", "answered"}
    /\ method[Sweeper] = IF pc[Sweeper] \in {"idle", "off"}
                        THEN "none" ELSE "remove_expired"
    /\ running # Nobody => pc[running] \in Between
    /\ phase \in {"created", "stopped"} =>
            pc = [t \in Tasks |-> IF t = Sweeper THEN "off" ELSE "idle"]

TaskInv == TypeOK /\ (\A r \in Requests : CallOK(r)) /\ LoopOK /\ LockDiscipline

\* Inductive in the build, where tasks never meet at the lock: a task runs from
\* its first await to its answer, so between get and upsert the table, the
\* clock apart, is as the handler read it.
RunToAnswer ==
    /\ waiters = <<>>
    /\ \A t \in Tasks : pc[t] \in Between => running = t

ClockOK ==
    /\ now \in shown
    /\ \A a \in Agents : agents[a] # Absent => now \in kept[a]
    /\ method[Sweeper] # "none" => sweepNow \in shown

\* No sweep and no other store since the request arrived.
Unbroken(r) ==
    pc[r] \in Between =>
        /\ now \in since[r]
        /\ since[r] \subseteq shown
        /\ \A a \in Agents : agents[a] # Absent => since[r] \subseteq kept[a]

GrantOK(r) ==
    method[r] = "upsert" =>
        \E t \in since[r] :
            record[r] = IF call[r].kind = "register"
                        THEN Registered(call[r], t)
                        ELSE Renewed(existing[r], t)

LoopInv ==
    /\ TaskInv
    /\ RunToAnswer
    /\ SnapshotCurrent
    /\ ListedOutliveSweep
    /\ ClockOK
    /\ \A r \in Requests : Unbroken(r) /\ GrantOK(r)

\* Every request is answered, however many others and sweeps come in between.
EveryRequestAnswered ==
    \A r \in Requests : pc[r] = "entering" ~> pc[r] = "answered"

\* While the registry serves, an agent whose lease is over is dropped or renewed,
\* unless the clock is set back before its lease's end.
ExpiredAgentsLeave ==
    \A a \in Agents :
        ExpiredAt(agents[a], now)
            ~> ~ExpiredAt(agents[a], now) \/ phase # "serving"

(* What the documents say and the code does not do; see the README. *)

\* README.md: renew answers 404 if the agent is already expired.  Here: no
\* renewal succeeds for a lease that was over all the time the request took.
RenewRefusesExpired ==
    [][\A r \in Requests :
          /\ call[r].kind = "renew"
          /\ pc[r] # "answered" /\ pc'[r] = "answered"
          /\ reply'[r].status = 200
          => \E t \in since[r] : ~ExpiredAt(existing[r], t)]_vars

\* The design document: the lock is held around all of register and renew.
UpdateHoldsLock ==
    \A r \in Requests : pc[r] = "service" => lock = r
=============================================================================
