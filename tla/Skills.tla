-------------------------------- MODULE Skills --------------------------------
(***************************************************************************)
(* chargeback_contracts/skills.py: the skills that specialists have, and   *)
(* which of them the investigation of a dispute needs, in order.           *)
(***************************************************************************)
EXTENDS Sequences

CORE_EVIDENCE_SKILL_IDS == {"transaction-investigation",
    "customer-history-investigation", "merchant-evidence-investigation"}
POLICY_SKILL_ID == "chargeback-policy-interpretation"
DUPLICATE_TRANSACTION_SKILL_ID == "duplicate-transaction-investigation"
SkillId == CORE_EVIDENCE_SKILL_IDS
                \cup {POLICY_SKILL_ID, DUPLICATE_TRANSACTION_SKILL_ID}

DISPUTE_TYPE_MAPPED_SKILLS ==
    LET transaction == "transaction-investigation"
        customer == "customer-history-investigation"
        merchant == "merchant-evidence-investigation"
    IN [goods_not_received     |-> <<transaction, customer, merchant>>,
        duplicate_transaction  |-> <<transaction, DUPLICATE_TRANSACTION_SKILL_ID>>,
        cancelled_service      |-> <<transaction, merchant>>,
        merchant_error         |-> <<transaction, merchant>>,
        card_not_present_fraud |-> <<transaction, customer>>,
        other                  |-> <<transaction>>]
DisputeType == DOMAIN DISPUTE_TYPE_MAPPED_SKILLS

\* Wrong on purpose: the policy skill runs first.
policy_first(type, include_policy) ==
    IF include_policy
    THEN <<POLICY_SKILL_ID>> \o DISPUTE_TYPE_MAPPED_SKILLS[type]
    ELSE DISPUTE_TYPE_MAPPED_SKILLS[type]

required_skills_for(type, include_policy) ==
    IF include_policy
    THEN DISPUTE_TYPE_MAPPED_SKILLS[type] \o <<POLICY_SKILL_ID>>
    ELSE DISPUTE_TYPE_MAPPED_SKILLS[type]
===============================================================================
