------------------------------ MODULE Contracts ------------------------------
(***************************************************************************)
(* chargeback_contracts: the messages that the services exchange.  A       *)
(* contract is the table of its fields; a field is a sequence of values,   *)
(* of length 1 where the code requires one, at most 1 where it is optional *)
(* and any where it is a tuple.  Fields that take every value of their     *)
(* type are left out.  Texts are "", " " (blank) or "x", amounts and       *)
(* counts small integers.                                                  *)
(***************************************************************************)
EXTENDS Skills, Integers, TLC

\* What a value has to be.
Base(is, of) == [is |-> is, of |-> of]
Id == Base("id", {})            \* min_length=1 and require_non_blank
Text == Base("text", {})        \* min_length=1, blanks will do
AnyText == Base("any", {})
Time == Base("time", {})
Amount == Base("amount", {})    \* require_positive_amount
Count == Base("count", {})      \* ge=0
Enum(S) == Base("enum", S)
Part(S) == Base("part", S)      \* an instance of one of the contracts S
Uri == Enum({"safe"})           \* _safe_uri: its scheme, and no ".."
Currency == Enum({"USD"})       \* require_currency_code: its pattern

One(base) == base @@ [min |-> 1, max |-> 1]
Opt(base) == base @@ [min |-> 0, max |-> 1]
Many(base) == base @@ [min |-> 0, max |-> 9]
Some(base) == base @@ [min |-> 1, max |-> 9]
Each(fields, kind) == [f \in fields |-> kind]

-----------------------------------------------------------------------------
(* Enumerations, and the contracts of an investigation. *)

EvidenceType == {"customer_declaration", "transaction_statement",
    "merchant_email", "merchant_chat", "receipt", "invoice",
    "cancellation_confirmation", "delivery_proof", "refund_request",
    "police_report", "screenshot", "other"}
SourceChannel == {"email", "contact_centre", "web_form", "chatbot"}
FindingStatus == {"completed", "partial", "failed"}
RecommendationType == {"accept_chargeback", "reject_chargeback",
                       "request_more_evidence"}
InvestigatorAction == {"approve_recommendation", "reject_recommendation",
                       "request_more_evidence"}
WorkflowStatus == {"in_progress", "partial", "completed", "failed"}
McpStatus == {"success", "failure"}

A2aIds == Each({"a2a_task_id", "a2a_context_id"}, Opt(Id))

EvidenceRef ==
    Each({"evidence_id", "case_id", "display_name", "media_type", "source"}, One(Id))
 @@ [evidence_type |-> One(Enum(EvidenceType)), uri |-> One(Uri),
     uploaded_at |-> One(Time)]

InvestigationRequest ==
    Each({"investigation_id", "case_id", "transaction_id",
          "customer_narrative"}, One(Id))
 @@ [source_channel |-> One(Enum(SourceChannel)),
     dispute_type |-> One(Enum(DisputeType)),
     amount |-> One(Amount), currency |-> One(Currency),
     submitted_at |-> One(Time), a2a_context_id |-> Opt(Id),
     evidence_refs |-> Many(Part({"EvidenceRef"})),
     requested_skill_ids |-> Many(Enum(SkillId))]

FindingDetails ==
    [TransactionFindingDetails |->
        [kind |-> One(Enum({"transaction"}))],
     CustomerHistoryFindingDetails |->
        [kind |-> One(Enum({"customer_history"})),
         customer_tenure_days |-> Opt(Count)]
     @@ Each({"previous_dispute_count", "previous_refund_count"}, One(Count)),
     MerchantEvidenceFindingDetails |->
        [kind |-> One(Enum({"merchant_evidence"})),
         missing_evidence |-> Many(Enum(EvidenceType))]]

SpecialistFinding ==
    Each({"finding_id", "investigation_id", "case_id", "producing_agent_id",
          "summary"}, One(Id))
 @@ [skill_id |-> One(Enum(SkillId)), status |-> One(Enum(FindingStatus)),
     details |-> One(Part(DOMAIN FindingDetails)),
     evidence_refs_used |-> Many(Part({"EvidenceRef"})),
     missing_evidence |-> Many(Enum(EvidenceType)), warnings |-> Many(AnyText),
     started_at |-> One(Time), completed_at |-> Opt(Time)] @@ A2aIds

PolicyInterpretation ==
    Each({"investigation_id", "policy_version", "interpretation_summary",
          "producing_agent_id"}, One(Id))
 @@ Each({"required_evidence", "satisfied_evidence", "missing_evidence"},
         Many(Enum(EvidenceType)))
 @@ [dispute_type |-> One(Enum(DisputeType))] @@ A2aIds

MissingCapabilityWarning ==
    [required_skill_id |-> One(Enum(SkillId)), message |-> One(Id),
     affected_area |-> One(Id), discovered_at |-> One(Time)]

InvestigationRecommendation ==
    [investigation_id |-> One(Id), explanation |-> One(Id),
     recommendation |-> One(Enum(RecommendationType)),
     reason_codes |-> Some(AnyText), missing_evidence |-> Many(Enum(EvidenceType)),
     missing_capability_warnings |-> Many(Part({"MissingCapabilityWarning"})),
     generated_at |-> One(Time)]

InvestigatorDecision ==
    Each({"decision_id", "investigation_id", "case_id", "investigator_id"}, One(Id))
 @@ [selected_action |-> One(Enum(InvestigatorAction)),
     recommendation_shown |-> One(Enum(RecommendationType)),
     decided_at |-> One(Time)] @@ A2aIds

InvestigationRecord ==
    [request |-> One(Part({"InvestigationRequest"})),
     discovered_skill_ids |-> Many(Enum(SkillId)),
     missing_capability_warnings |-> Many(Part({"MissingCapabilityWarning"})),
     specialist_findings |-> Many(Part({"SpecialistFinding"})),
     policy_interpretation |-> Opt(Part({"PolicyInterpretation"})),
     recommendation |-> Opt(Part({"InvestigationRecommendation"})),
     investigator_decision |-> Opt(Part({"InvestigatorDecision"})),
     created_at |-> One(Time), completed_at |-> Opt(Time),
     status |-> One(Enum(WorkflowStatus)), audit_correlation_id |-> One(Id)]

-----------------------------------------------------------------------------
(* The contracts of the three protocols. *)

AgUiEventPayload ==
    Each({"investigation_id", "case_id", "run_id"}, One(Id))
 @@ [occurred_at |-> One(Time), sequence |-> Opt(Count),
     skill_id |-> Opt(Enum(SkillId))]

Event(name, fields) ==
    AgUiEventPayload @@ [event_name |-> One(Enum({name}))] @@ fields

AgUiEvents ==
    LET skills == Many(Enum(SkillId))
    IN
    [InvestigationAcceptedEvent |-> Event("investigation.accepted",
        [dispute_type |-> One(Enum(DisputeType)), requested_skill_ids |-> skills]),
     CapabilityDiscoveryStartedEvent |-> Event("capability_discovery.started",
        [requested_skill_ids |-> skills]),
     CapabilityDiscoveryCompletedEvent |-> Event("capability_discovery.completed",
        [discovered_skill_ids |-> skills, missing_skill_ids |-> skills]),
     SpecialistStartedEvent |-> Event("specialist.started", <<>>),
     SpecialistProgressEvent |-> Event("specialist.progress",
        [message |-> One(Text)]),
     SpecialistFindingReceivedEvent |-> Event("specialist.finding_received",
        [finding_id |-> One(Text)]),
     MissingEvidenceIdentifiedEvent |-> Event("evidence.missing_identified",
        [missing_evidence |-> Many(Enum(EvidenceType))]),
     MissingCapabilityIdentifiedEvent |-> Event("capability.missing_identified",
        [warning |-> One(Part({"MissingCapabilityWarning"}))]),
     PolicyInterpretationReceivedEvent |->
        Event("policy.interpretation_received", <<>>),
     RecommendationProducedEvent |-> Event("recommendation.produced",
        [recommendation |-> One(Enum(RecommendationType))]),
     ExplanationProducedEvent |-> Event("explanation.produced",
        [explanation |-> One(Text)]),
     ApprovalRequiredEvent |-> Event("approval.required", <<>>),
     InvestigationCompletedEvent |-> Event("investigation.completed",
        [final_status |-> One(Text)]),
     InvestigationFailedEvent |-> Event("investigation.failed",
        [reason |-> One(Text)])]

Component(type, fields) ==
    [component_type |-> One(Enum({type})), investigation_id |-> One(Text)] @@ fields
A2uiComponents ==
    [DecisionCard |-> Component("decision_card",
        [recommendation |-> One(Enum(RecommendationType)),
         explanation |-> One(Text),
         missing_evidence |-> Many(Enum(EvidenceType))]),
     EvidenceChecklist |-> Component("evidence_checklist",
        [items |-> Many(Part({"EvidenceChecklistItem"}))]),
     SpecialistFindingsSummary |->
        Component("specialist_findings_summary", <<>>),
     MissingCapabilityWarningPanel |->
        Component("missing_capability_warning_panel",
        [warnings |-> Many(Part({"MissingCapabilityWarning"}))]),
     RecommendedNextActions |-> Component("recommended_next_actions",
        [actions |-> Many(Part({"RecommendedNextAction"}))]),
     ApprovalPreview |-> Component("approval_preview",
        [recommendation |-> One(Enum(RecommendationType)), summary |-> One(Text)]),
     FinalDecisionConfirmation |-> Component("final_decision_confirmation",
        [decision_id |-> One(Text), action |-> One(Enum(InvestigatorAction)),
         confirmed_at |-> One(Time)])]

A2uiParts ==
    [EvidenceChecklistItem |->
        [evidence_type |-> One(Enum(EvidenceType)),
         evidence_ref |-> Opt(Part({"EvidenceRef"}))],
     RecommendedNextAction |->
        [action |-> One(Enum(InvestigatorAction)), label |-> One(Text)],
     A2uiEnvelope |->
        [version |-> One(Enum({"0.9"})), surface_id |-> One(Id),
         investigation_id |-> One(Id), generated_at |-> One(Time),
         components |-> Many(Part(DOMAIN A2uiComponents)),
         allowed_actions |-> Many(Enum(InvestigatorAction))]]

Response(fields) ==
    [status |-> One(Enum(McpStatus)),
     error |-> Opt(Part({"McpErrorInfo"}))] @@ fields
ReadMessages ==
    LET caseId == [case_id |-> One(Text)]
        refs == Many(Part({"EvidenceRef"}))
    IN [McpErrorInfo |-> Each({"error_code", "safe_message"}, One(Text)),
        GetCaseRequest |-> caseId, GetCaseResponse |-> Response(caseId),
        GetTransactionRequest |-> [transaction_id |-> One(Text)],
        GetTransactionResponse |-> Response([transaction_id |-> One(Text)]),
        GetCustomerHistoryRequest |-> caseId,
        GetCustomerHistoryResponse |-> Response(caseId @@
            [result |-> Opt(Part({"CustomerHistoryFindingDetails"}))]),
        GetMerchantEvidenceRequest |-> caseId,
        GetMerchantEvidenceResponse |-> Response(caseId @@
            [evidence_refs |-> refs]),
        ListCaseDocumentsRequest |-> caseId,
        ListCaseDocumentsResponse |-> Response(caseId @@ [documents |-> refs])]

McpWriteRequestBase(fields) ==
    [case_id |-> One(Text), idempotency_key |-> One(Id)] @@ fields
WriteMessages ==
    [CreateEvidenceRequestTaskRequest |-> McpWriteRequestBase(
        [requested_evidence_types |-> Many(Enum(EvidenceType)),
         message_to_customer |-> One(Text)]),
     UpdateCaseStatusRequest |-> McpWriteRequestBase([new_status |-> One(Text)]),
     CreateAuditEntryRequest |-> McpWriteRequestBase(
        [investigator_decision |-> Opt(Part({"InvestigatorDecision"})),
         event_description |-> One(Text)]),
     McpWriteResponse |-> Response([audit_correlation_id |-> One(Text)])]

ContractSchema ==
    [EvidenceRef |-> EvidenceRef, InvestigationRequest |-> InvestigationRequest,
     SpecialistFinding |-> SpecialistFinding,
     PolicyInterpretation |-> PolicyInterpretation,
     MissingCapabilityWarning |-> MissingCapabilityWarning,
     InvestigationRecommendation |-> InvestigationRecommendation,
     InvestigatorDecision |-> InvestigatorDecision,
     InvestigationRecord |-> InvestigationRecord]
 @@ FindingDetails @@ AgUiEvents @@ A2uiComponents @@ A2uiParts
 @@ ReadMessages @@ WriteMessages

\* The contracts that can arrive where contract c does: a union, or c alone.
Unions == {DOMAIN AgUiEvents, DOMAIN A2uiComponents, DOMAIN FindingDetails}
Arriving ==
    [c \in DOMAIN ContractSchema |-> {c} \cup UNION {u \in Unions : c \in u}]
=============================================================================
