------------------------- MODULE MCContractExchange -------------------------
(* ContractExchange with the contracts of the code, for TLC. *)
EXTENDS ContractExchange, Contracts

CONSTANTS MaxAt,     \* local times are 0 .. MaxAt
          Related    \* the fields that get unusual arguments two at a time

\* Of each contract one instance to make, and one made before.
Names == DOMAIN ContractSchema
MCSchema == [c \in Names |-> ContractSchema[c]]
MCInstances == Names \X {"made"}
MCSound == Names \X {"sound"}
MCClass == [x \in MCInstances \cup MCSound |-> x[1]]

Times == {t \in [at: 0 .. MaxAt, offset: 0 .. 1, aware: BOOLEAN] :
             ~t.aware => t.offset = 0}

Unusual(base) ==
    CASE base.is \in {"id", "text"} -> {"", " "}
      [] base.is = "any" -> {""}
      [] base.is = "time" -> Times
      [] base.is \in {"amount", "count"} -> {-1, 0}
      [] base.is = "enum" -> {"unknown"} \cup
            (IF base.of \in {FindingStatus, WorkflowStatus} THEN base.of ELSE {})
      [] base.is = "part" -> base.of \X {"made"}

Usual(base) ==
    CASE base.is \in {"id", "text", "any"} -> "x"
      [] base.is = "time" -> [at |-> MaxAt, offset |-> 0, aware |-> TRUE]
      [] base.is \in {"amount", "count"} -> 1
      [] base.is = "enum" ->
            IF "failed" \in base.of THEN "failed" ELSE CHOOSE v \in base.of : TRUE
      [] base.is = "part" -> <<CHOOSE p \in base.of : TRUE, "sound">>

\* What a field may be given: nothing, or one value.
Arguments(field) == {<<>>} \cup {<<v>> : v \in Unusual(field) \cup {Usual(field)}}
Table(c) == [f \in DOMAIN ContractSchema[c] |->
                IF ContractSchema[c][f].min = 0 THEN <<>>
                ELSE <<Usual(ContractSchema[c][f])>>]
Tables(c) ==
    LET fields == ContractSchema[c]
        usual == Table(c)
    IN UNION {{[usual EXCEPT ![f] = v, ![g] = w] :
                  v \in Arguments(fields[f]), w \in Arguments(fields[g])} :
              <<f, g>> \in {p \in (DOMAIN fields) \X (DOMAIN fields) :
                               p[1] = p[2] \/ {p[1], p[2]} \subseteq Related}}
Requests == {[Table("InvestigationRequest") EXCEPT
                 !.dispute_type = <<type>>,
                 !.requested_skill_ids = required_skills_for(type, policy)] :
             type \in DisputeType, policy \in BOOLEAN}
MCOffers == [x \in MCInstances |->
                Tables(x[1]) \cup (IF x[1] = "InvestigationRequest"
                                   THEN Requests ELSE {})]
=============================================================================
