--------------------------- MODULE LeaseRegistry ---------------------------
(***************************************************************************)
(* What the agent registry promises its clients: every request takes       *)
(* effect in one step between its arrival and its answer, a lease is       *)
(* counted from a moment within the request, and an agent whose lease has  *)
(* ended is dropped at some later sweep, until which it is served like any *)
(* other.  AgentRegistry is the same service as the code builds it, out of *)
(* asyncio tasks and a lock; it implements this specification.             *)
(***************************************************************************)
EXTENDS LeaseTable

CONSTANTS Requests,   \* the client connections, one request at a time each
          MaxTime     \* bound on the clock

VARIABLES now,      \* the clock
          agents,   \* the table
          client,   \* client[r]: "free", "open" (no effect yet) or "done"
          call,     \* call[r]: the request
          since,    \* since[r]: the times the clock has shown while it is open
          reply,    \* reply[r]: its answer
          shown     \* those since the last sweep, with the one it compared by

requestVars == <<client, call, since, reply>>
vars == <<now, agents, requestVars, shown>>

NoCall == [kind |-> "none"]

TypeOK ==
    /\ now \in Nat
    /\ agents \in Table
    /\ client \in [Requests -> {"free", "open", "done"}]
    /\ call \in [Requests -> Calls \cup {NoCall}]
    /\ since \in [Requests -> SUBSET Nat]
    /\ reply \in [Requests -> Replies \cup {NoReply}]
    /\ shown \in SUBSET Nat

Init ==
    /\ now = 0
    /\ agents = Empty
    /\ client = [r \in Requests |-> "free"]
    /\ call = [r \in Requests |-> NoCall]
    /\ since = [r \in Requests |-> {}]
    /\ reply = [r \in Requests |-> NoReply]
    /\ shown = {now}

-----------------------------------------------------------------------------
Invoke(r, c) ==
    /\ client[r] = "free"
    /\ client' = [client EXCEPT ![r] = "open"]
    /\ call' = [call EXCEPT ![r] = c]
    /\ since' = [since EXCEPT ![r] = {now}]
    /\ UNCHANGED <<now, agents, reply, shown>>

Open(r, kind) == client[r] = "open" /\ call[r].kind = kind

\* Request r takes effect: it leaves the table `table`, its answer is `answer`.
TakeEffect(r, table, answer) ==
    /\ agents' = table
    /\ client' = [client EXCEPT ![r] = "done"]
    /\ reply' = [reply EXCEPT ![r] = answer]
    /\ since' = [since EXCEPT ![r] = {}]
    /\ UNCHANGED <<now, call, shown>>

\* The moments a lease granted to request r may be counted from.
LeaseStart(r) == since[r] \cap shown

Register(r) ==
    /\ Open(r, "register")
    /\ \E t \in LeaseStart(r) :
        LET a == call[r].agent
            record == Registered(call[r], t)
        IN TakeEffect(r, [agents EXCEPT ![a] = record],
                      RegisterReply(a, agents[a], record))

Renew(r) ==
    /\ Open(r, "renew")
    /\ agents[call[r].agent] # Absent
    /\ \E t \in LeaseStart(r) :
        LET a == call[r].agent
            record == Renewed(agents[a], t)
        IN TakeEffect(r, [agents EXCEPT ![a] = record], RenewReply(a, record))

RefuseRenewal(r) ==
    /\ Open(r, "renew")
    /\ agents[call[r].agent] = Absent
    /\ TakeEffect(r, agents, UnknownAgent)

Deregister(r) ==
    /\ Open(r, "deregister")
    /\ LET a == call[r].agent
       IN TakeEffect(r, [agents EXCEPT ![a] = Absent], DeregisterReply(agents[a]))

Read(r) ==
    \/ Open(r, "list") /\ TakeEffect(r, agents, ListReply(agents))
    \/ Open(r, "capabilities") /\ TakeEffect(r, agents, CapabilitiesReply(agents))
    \/ /\ Open(r, "discover")
       /\ TakeEffect(r, agents, DiscoverReply(agents, call[r].skill))

Return(r) ==
    /\ client[r] = "done"
    /\ client' = [client EXCEPT ![r] = "free"]
    /\ call' = [call EXCEPT ![r] = NoCall]
    /\ reply' = [reply EXCEPT ![r] = NoReply]
    /\ UNCHANGED <<now, agents, since, shown>>

\* A sweep works with a reading of the clock that may be late.
Sweep ==
    \E t \in shown :
        /\ agents' = WithoutExpired(agents, t)
        /\ shown' = {t, now}
        /\ UNCHANGED <<now, requestVars>>

\* The table lives in memory: a new process starts with an empty one.
Restart ==
    /\ \A r \in Requests : client[r] = "free"
    /\ agents' = Empty
    /\ UNCHANGED <<now, requestVars, shown>>

\* The clock goes on, or is set, forward or back.
ClockMoves ==
    /\ now' \in (0 .. MaxTime) \ {now}
    /\ since' = [r \in Requests |-> IF client[r] # "open" THEN {}
                                ELSE since[r] \cup {now'}]
    /\ shown' = shown \cup {now'}
    /\ UNCHANGED <<agents, client, call, reply>>

Next ==
    \/ \E r \in Requests :
        \/ \E c \in Calls : Invoke(r, c)
        \/ Register(r) \/ Renew(r) \/ RefuseRenewal(r)
        \/ Deregister(r) \/ Read(r) \/ Return(r)
    \/ Sweep
    \/ Restart
    \/ ClockMoves

Spec == Init /\ [][Next]_vars
=============================================================================
