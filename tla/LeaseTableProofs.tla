-------------------------- MODULE LeaseTableProofs --------------------------
(***************************************************************************)
(* What the operators of LeaseTable return, for the proofs of the modules  *)
(* that use them.                                                          *)
(***************************************************************************)
EXTENDS LeaseTable, TLAPS

LEMMA EmptyTable == Empty \in Table
  BY DEF Empty, Table

LEMMA RenewedRecord ==
  ASSUME NEW record \in Record, NEW time \in Nat
  PROVE  /\ Renewed(record, time) \in Record
         /\ Renewed(record, time).lease = time + LeaseDuration
  BY LeaseTableAssumption DEF Renewed, Record

LEMMA RegisteredRecord ==
  ASSUME NEW call \in RegisterCall, NEW time \in Nat
  PROVE  /\ Registered(call, time) \in Record
         /\ Registered(call, time).lease = time + LeaseDuration
  BY LeaseTableAssumption DEF Registered, RegisterCall, Record

LEMMA OnlyTable ==
  ASSUME NEW a \in Agents, NEW record \in Record \cup {Absent}
  PROVE  Only(a, record) \in Table
  BY DEF Only, Empty, Table

LEMMA SweptTable ==
  ASSUME NEW table \in Table, NEW time
  PROVE  /\ WithoutExpired(table, time) \in Table
         /\ \A a \in Agents :
              WithoutExpired(table, time)[a] # Absent
                => /\ WithoutExpired(table, time)[a] = table[a]
                   /\ table[a] # Absent
                   /\ ~(table[a].lease <= time)
  BY DEF WithoutExpired, ExpiredAt, Table

LEMMA RecordsHaveLeases ==
  ASSUME NEW table \in Table, NEW a \in Agents, table[a] # Absent
  PROVE  table[a] \in Record /\ table[a].lease \in Nat
  BY DEF Table, Record

\* What a request carries.
LEMMA CallFields ==
  ASSUME NEW c \in Calls
  PROVE  /\ c.kind \in {"register", "renew", "deregister",
                        "list", "capabilities", "discover"}
         /\ c.kind \in {"register", "renew", "deregister"} => c.agent \in Agents
         /\ c.kind = "register" => c \in RegisterCall
         /\ c.kind = "discover" => c.skill \in Skills
  BY DEF Calls, RegisterCall, AgentCall, ReadCall, DiscoverCall

\* Every answer has its type.
LEMMA ReplyTypes ==
  /\ UnknownAgent \in Replies
  /\ \A table \in Table : /\ ListReply(table) \in Replies
                          /\ CapabilitiesReply(table) \in Replies
                          /\ \A s : DiscoverReply(table, s) \in Replies
  /\ \A removed : DeregisterReply(removed) \in Replies
  /\ \A a \in Agents, record \in Record :
        /\ RenewReply(a, record) \in Replies
        /\ \A existing : RegisterReply(a, existing, record) \in Replies
<1>1. \A table \in Table : \A s \in {200, 204, 404, 201} : Answer(s, table) \in Replies
  BY DEF Answer, Replies
<1>2. \A table \in Table : \A s : Offering(table, s) \in Table
  BY DEF Offering, Table
<1>3. \A table \in Table : CapabilitiesReply(table) \in Replies
  BY EmptyTable DEF CapabilitiesReply, Replies, Advertised
<1>4. \A a \in Agents, record \in Record : Only(a, record) \in Table
  BY OnlyTable
<1>5. QED
  BY <1>1, <1>2, <1>3, <1>4, EmptyTable
     DEF UnknownAgent, ListReply, DiscoverReply, DeregisterReply, RenewReply,
         RegisterReply
=============================================================================
