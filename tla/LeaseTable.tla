----------------------------- MODULE LeaseTable -----------------------------
(***************************************************************************)
(* The data of the agent registry: the records that AgentRepository keeps, *)
(* the requests that the HTTP API accepts, and what each repository method *)
(* computes from the table.  There is no state here; LeaseRegistry,        *)
(* AgentRegistry and LeaseTiming share these operators.                    *)
(*                                                                         *)
(* A table is a total function from agent ids to a record or Absent (the   *)
(* key is missing from the dict).  Of a record the model keeps what the    *)
(* service computes with: the advertised capabilities, which also stand    *)
(* for the rest of the payload (name, endpoint, version), and the time the *)
(* lease ends.  Times are whole units of the clock.                        *)
(***************************************************************************)
EXTENDS Integers

CONSTANTS Agents,         \* agent ids
          Skills,         \* SkillId values
          Adverts,        \* the capability sets agents register with
          Absent,         \* no record under this id
          LeaseDuration   \* lease_duration_seconds

Record == [capabilities: Adverts, lease: Nat]
Table == [Agents -> Record \cup {Absent}]
Empty == [a \in Agents |-> Absent]

\* AgentRegistration wants at least one capability.  The settings take any
\* number of seconds; a lease that ends when it starts is no lease at all.
ASSUME LeaseTableAssumption ==
    /\ LeaseDuration \in Nat \ {0}
    /\ Adverts \subseteq SUBSET Skills
    /\ {} \notin Adverts
    /\ Absent \notin [capabilities: Adverts, lease: Nat]

-----------------------------------------------------------------------------
(* Requests and answers. *)

RegisterCall == [kind: {"register"}, agent: Agents, capabilities: Adverts]
AgentCall == [kind: {"renew", "deregister"}, agent: Agents]
ReadCall == [kind: {"list", "capabilities"}] \* /health is a "list" it counts
DiscoverCall == [kind: {"discover"}, skill: Skills]
Calls == RegisterCall \cup AgentCall \cup ReadCall \cup DiscoverCall

Replies == [status: {200, 201, 204, 404}, records: Table, skills: SUBSET Skills]
NoReply == [status |-> 0, records |-> Empty, skills |-> {}]

-----------------------------------------------------------------------------
(* What the repository methods compute. *)

\* Wrong on purpose, like every definition so marked: a run must notice when it
\* stands for the one after it.  A lease outlives its own end.
ExpiredAfter(record, time) == record # Absent /\ record.lease < time

ExpiredAt(record, time) == record # Absent /\ record.lease <= time

\* remove_expired(now=time)
WithoutExpired(table, time) ==
    [a \in Agents |-> IF ExpiredAt(table[a], time) THEN Absent ELSE table[a]]

\* find_by_capability(skill)
Offering(table, skill) ==
    [a \in Agents |->
        IF table[a] # Absent /\ skill \in table[a].capabilities
        THEN table[a] ELSE Absent]

\* list_capabilities()
Advertised(table) ==
    {s \in Skills : \E a \in Agents : /\ table[a] # Absent
                                      /\ s \in table[a].capabilities}

Only(agent, record) == [Empty EXCEPT ![agent] = record]

\* The record of a registration, and of a renewal, when the clock says time.
Registered(call, time) ==
    [capabilities |-> call.capabilities, lease |-> time + LeaseDuration]
Renewed(record, time) == [record EXCEPT !.lease = time + LeaseDuration]

\* The answer to each kind of request; `table` is what the repository read.
Answer(status, table) == [status |-> status, records |-> table, skills |-> {}]
RegisterReply(agent, existing, record) ==
    Answer(IF existing = Absent THEN 201 ELSE 200, Only(agent, record))
RenewReply(agent, record) == Answer(200, Only(agent, record))
UnknownAgent == Answer(404, Empty)
DeregisterReply(removed) ==
    IF removed = Absent THEN UnknownAgent ELSE Answer(204, Empty)
ListReply(table) == Answer(200, table)
DiscoverReply(table, skill) == Answer(200, Offering(table, skill))
CapabilitiesReply(table) ==
    [status |-> 200, records |-> Empty, skills |-> Advertised(table)]
=============================================================================
