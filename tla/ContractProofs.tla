--------------------------- MODULE ContractProofs ---------------------------
(***************************************************************************)
(* The exchange of contracts, for any contracts, instances and arguments   *)
(* that are as ContractExchange assumes.                                   *)
(***************************************************************************)
EXTENDS ContractExchange, SequenceTheorems, TLAPS

\* Times that speak of the same instants.
SameMoments(ts, us) ==
    /\ DOMAIN ts = DOMAIN us
    /\ \A i \in DOMAIN us : ts[i] \in Moment /\ Instant(ts[i]) = Instant(us[i])

\* What is true of an instance whose fields were set, too.
TableInv(x) ==
    /\ x \in Instances
    /\ DOMAIN object[x] = DOMAIN Schema[Class[x]]
    /\ DOMAIN given[x] = DOMAIN Schema[Class[x]]
    /\ \A f \in DOMAIN object[x] : Declared(Class[x], f, object[x][f])
    /\ \A f \in FieldsOf(Class[x], "time") : SameMoments(object[x][f], given[x][f])

\* What is true of one that is as its constructor made it.
UntouchedInv(x) ==
    /\ Valid(Class[x], object[x])
    /\ Class[x] = "InvestigationRequest" => Asks(object[x].requested_skill_ids)

ReadInv ==
    /\ readAs = {c \in Expected[Class[root]] : Loads(c, root)}
    /\ readAs # {} =>
          received = [y \in Document(root) |-> Converted(Class[y], object[y])]

Inv ==
    /\ DOMAIN given = Made
    /\ \A x \in Made : TableInv(x)
    /\ \A x \in Made \ touched : UntouchedInv(x)
    /\ state # "making" => root \in Made
    /\ state = "read" => ReadInv

-----------------------------------------------------------------------------
(* The assumptions, one by one. *)

LEMMA ClassIsContract ==
    ASSUME NEW x \in Instances PROVE Class[x] \in Contract
BY OffersAssumption

LEMMA PartNames ==
    ASSUME NEW c \in Contract, NEW f \in FieldsOf(c, "part"),
           NEW p \in Schema[c][f].of, NEW q \in Schema[c][f].of,
           SameFields(p, q)
    PROVE  p = q
BY SchemaAssumption

LEMMA SameKinds ==
    ASSUME NEW c \in Contract, NEW d \in Contract, SameFields(c, d),
           NEW f \in DOMAIN Schema[c]
    PROVE  Schema[c][f].is = Schema[d][f].is
BY SchemaAssumption

LEMMA ArrivesAsItself ==
    ASSUME NEW c \in Contract
    PROVE  c \in Expected[c] /\ Expected[c] \subseteq Contract
BY SchemaAssumption

LEMMA OffersTimes ==
    ASSUME NEW x \in Instances, NEW args \in Offers[x],
           NEW f \in FieldsOf(Class[x], "time"), f \in DOMAIN args,
           NEW i \in DOMAIN args[f]
    PROVE  args[f][i] \in Moment
BY OffersAssumption

\* No instance is valid as two contracts that can arrive in the same place.
LEMMA ToldApart ==
    ASSUME NEW c \in Contract, NEW d \in Expected[c], NEW o,
           Valid(c, o), Valid(d, o)
    PROVE  d = c
<1>1. SUFFICES ASSUME d # c PROVE FALSE
  OBVIOUS
<1>2. SameFields(c, d)
  BY DEF Valid, SameFields
<1>3. PICK f \in DOMAIN Schema[c] : TellsApart(Schema[c][f], Schema[d][f])
  BY <1>1, <1>2, SchemaAssumption
<1>4. FieldOK(Schema[c][f], o[f]) /\ FieldOK(Schema[d][f], o[f])
  BY <1>2, <1>3 DEF Valid, SameFields
<1>5. Schema[c][f].min \in Nat /\ Schema[c][f].max \in Nat
  BY <1>3, SchemaAssumption
<1>6. 1 \in DOMAIN o[f]
  BY <1>3, <1>4, <1>5 DEF FieldOK, TellsApart
<1>7. o[f][1] \in Schema[c][f].of /\ o[f][1] \in Schema[d][f].of
  BY <1>3, <1>4, <1>6 DEF FieldOK, ValueOK, TellsApart
<1>. QED
  BY <1>3, <1>7 DEF TellsApart

-----------------------------------------------------------------------------
(* Conversion to UTC. *)

LEMMA ToUtcFacts ==
    ASSUME NEW t \in Moment
    PROVE  /\ ToUtc(t) \in Moment
           /\ Instant(ToUtc(t)) = Instant(t)
           /\ ToUtc(t).aware = t.aware
           /\ ToUtc(t).offset = 0 /\ ToUtc(t).at = Instant(t)
<1>1. t.at \in Int /\ t.offset \in Int /\ t.aware \in BOOLEAN
  BY DEF Moment
<1>2. Instant(t) \in Int
  BY <1>1 DEF Instant
<1>3. /\ ToUtc(t).at = Instant(t) /\ ToUtc(t).offset = 0
      /\ ToUtc(t).aware = t.aware
  BY DEF ToUtc, Moment
<1>4. ToUtc(t) \in Moment
  <2>1. ASSUME NEW u \in Moment PROVE [u EXCEPT !.offset = 0] \in Moment
    BY DEF Moment
  <2>2. [t EXCEPT !.at = Instant(t)] \in Moment
    BY <1>2 DEF Moment
  <2>3. ToUtc(t) = [[t EXCEPT !.at = Instant(t)] EXCEPT !.offset = 0]
    BY DEF ToUtc
  <2>. QED
    BY <2>1, <2>2, <2>3
<1>5. Instant(ToUtc(t)) = Instant(t) - 0
  BY <1>3 DEF Instant
<1>. QED
  BY <1>2, <1>3, <1>4, <1>5

\* Conversion leaves the fields, and how many values each has.
LEMMA ConvertedFields ==
    ASSUME NEW c, NEW o
    PROVE  /\ DOMAIN Converted(c, o) = DOMAIN o
           /\ \A f \in DOMAIN o : DOMAIN Converted(c, o)[f] = DOMAIN o[f]
           /\ \A f \in DOMAIN o \ FieldsOf(c, "time") : Converted(c, o)[f] = o[f]
           /\ \A f \in DOMAIN o \cap FieldsOf(c, "time") : \A i \in DOMAIN o[f] :
                 Converted(c, o)[f][i] = ToUtc(o[f][i])
BY DEF Converted

\* The time fields have times.
MomentsIn(c, o) == \A f \in FieldsOf(c, "time") \cap DOMAIN o :
                  \A i \in DOMAIN o[f] : o[f][i] \in Moment

LEMMA ConvertedMoments ==
    ASSUME NEW c, NEW o, MomentsIn(c, o), NEW f \in FieldsOf(c, "time"), f \in DOMAIN o
    PROVE  SameMoments(Converted(c, o)[f], o[f])
<1>1. ASSUME NEW i \in DOMAIN o[f]
      PROVE  o[f][i] \in Moment /\ Converted(c, o)[f][i] = ToUtc(o[f][i])
  BY ConvertedFields DEF MomentsIn
<1>. QED
  BY <1>1, ConvertedFields, ToUtcFacts DEF SameMoments

\* Time fields as the rules compare them.
LEMMA NotBeforeConverted ==
    ASSUME NEW c, NEW o, MomentsIn(c, o),
           NEW end \in FieldsOf(c, "time"), NEW start \in FieldsOf(c, "time"),
           end \in DOMAIN o, start \in DOMAIN o, 1 \in DOMAIN o[start],
           NotBefore(o, end, start)
    PROVE  NotBefore(Converted(c, o), end, start)
<1>. DEFINE u == Converted(c, o)
<1>1. SameMoments(u[end], o[end]) /\ SameMoments(u[start], o[start])
  BY ConvertedMoments
<1>2. SUFFICES ASSUME NEW i \in DOMAIN u[end]
               PROVE  Instant(u[end][i]) >= Instant(u[start][1])
  BY DEF NotBefore
<1>. QED
  BY <1>1, <1>2 DEF SameMoments, NotBefore

\* A field that is required has a first value.
LEMMA FirstValue ==
    ASSUME NEW c \in Contract, NEW o, Valid(c, o),
           NEW f, NEW kind, OneOf(c, f, kind)
    PROVE  /\ f \in DOMAIN o /\ Schema[c][f].is = kind
           /\ 1 \in DOMAIN o[f] /\ ValueOK(Schema[c][f], o[f][1])
<1>1. f \in DOMAIN o /\ FieldOK(Schema[c][f], o[f]) /\ Schema[c][f].is = kind
  BY DEF Valid, OneOf, FieldsOf
<1>2. Schema[c][f].min = 1 /\ Schema[c][f].max \in Nat
  BY <1>1, SchemaAssumption DEF OneOf, FieldsOf
<1>. QED
  BY <1>1, <1>2 DEF FieldOK

\* What validation returns would validate.
LEMMA ConvertedIsValid ==
    ASSUME NEW c \in Contract, NEW o, MomentsIn(c, o), Valid(c, o)
    PROVE  Valid(c, Converted(c, o))
<1>. DEFINE u == Converted(c, o)
<1>1. DOMAIN u = DOMAIN Schema[c] /\ DOMAIN o = DOMAIN Schema[c]
  BY ConvertedFields DEF Valid
<1>2. ASSUME NEW f \in DOMAIN u PROVE FieldOK(Schema[c][f], u[f])
  <2>1. FieldOK(Schema[c][f], o[f]) /\ DOMAIN u[f] = DOMAIN o[f]
    BY <1>1, <1>2, ConvertedFields DEF Valid
  <2>2. CASE f \in FieldsOf(c, "time")
    <3>1. SUFFICES ASSUME NEW i \in DOMAIN o[f]
                   PROVE  ValueOK(Schema[c][f], u[f][i])
      BY <2>1 DEF FieldOK
    <3>2. o[f][i] \in Moment /\ u[f][i] = ToUtc(o[f][i])
      BY <1>1, <1>2, <2>2, <3>1, ConvertedFields DEF MomentsIn
    <3>3. u[f][i].aware = o[f][i].aware /\ Instant(u[f][i]) = Instant(o[f][i])
      BY <3>2, ToUtcFacts
    <3>4. Schema[c][f].is = "time"
      BY <2>2 DEF FieldsOf
    <3>5. ValueOK(Schema[c][f], o[f][i])
      BY <2>1, <3>1 DEF FieldOK
    <3>. QED
      BY <3>3, <3>4, <3>5 DEF ValueOK
  <2>3. CASE f \notin FieldsOf(c, "time")
    BY <1>1, <1>2, <2>1, <2>3, ConvertedFields
  <2>. QED
    BY <2>2, <2>3
<1>3. ASSUME c = "SpecialistFinding" PROVE FindingRules(u)
  <2>1. /\ "status" \in DOMAIN o \ FieldsOf(c, "time")
        /\ {"started_at", "completed_at"} \subseteq DOMAIN o \cap FieldsOf(c, "time")
        /\ {"warnings", "missing_evidence"} \subseteq DOMAIN o
    BY <1>1, <1>3, RulesAssumption DEF OneOf, FieldsOf
  <2>2. 1 \in DOMAIN o["started_at"]
    BY <1>3, FirstValue, RulesAssumption
  <2>3. FindingRules(o)
    BY <1>3 DEF Valid
  <2>4. NotBefore(u, "completed_at", "started_at")
    BY <2>1, <2>2, <2>3, NotBeforeConverted DEF FindingRules
  <2>5. /\ u.status = o.status /\ DOMAIN u.completed_at = DOMAIN o.completed_at
        /\ DOMAIN u.warnings = DOMAIN o.warnings
        /\ DOMAIN u.missing_evidence = DOMAIN o.missing_evidence
    BY <2>1, ConvertedFields
  <2>. QED
    BY <2>3, <2>4, <2>5 DEF FindingRules, Given
<1>4. ASSUME c = "InvestigationRecord" PROVE RecordRules(u)
  <2>1. /\ {"status", "investigator_decision"} \subseteq DOMAIN o \ FieldsOf(c, "time")
        /\ {"created_at", "completed_at"} \subseteq DOMAIN o \cap FieldsOf(c, "time")
    BY <1>1, <1>4, RulesAssumption DEF OneOf, FieldsOf
  <2>2. 1 \in DOMAIN o["created_at"]
    BY <1>4, FirstValue, RulesAssumption
  <2>3. RecordRules(o)
    BY <1>4 DEF Valid
  <2>4. NotBefore(u, "completed_at", "created_at")
    BY <2>1, <2>2, <2>3, NotBeforeConverted DEF RecordRules
  <2>5. u.status = o.status /\ u.investigator_decision = o.investigator_decision
    BY <2>1, ConvertedFields
  <2>. QED
    BY <2>3, <2>4, <2>5 DEF RecordRules
<1>. QED
  BY <1>1, <1>2, <1>3, <1>4 DEF Valid

-----------------------------------------------------------------------------
(* What a document is made of. *)

LEMMA RootInDocument == ASSUME NEW x \in Made PROVE x \in Document(x)
BY DEF Document

LEMMA DocumentIsMade == ASSUME NEW x, NEW y \in Document(x) PROVE y \in Made
BY DEF Document

LEMMA DocumentIsClosed ==
    ASSUME NEW x, NEW y \in Document(x), NEW z \in PartsOf(y) \cap Made
    PROVE  z \in Document(x)
BY DEF Document, Closed

\* Every instance of a document but its root is part of one of them: without
\* it, the others would be closed.
LEMMA PartOfDocument ==
    ASSUME NEW x \in Made, NEW y \in Document(x), y # x
    PROVE  \E z \in Document(x) : y \in PartsOf(z)
<1>1. SUFFICES ASSUME \A z \in Document(x) : y \notin PartsOf(z)
               PROVE  FALSE
  OBVIOUS
<1>. DEFINE S == Document(x) \ {y}
<1>2. S \in SUBSET Made /\ x \in S
  BY RootInDocument, DocumentIsMade
<1>3. ASSUME NEW z \in S PROVE PartsOf(z) \cap Made \subseteq S
  BY <1>1, <1>3, DocumentIsClosed
<1>4. Closed(S)
  BY <1>3 DEF Closed
<1>. QED
  BY <1>2, <1>4 DEF Document

\* A part, and the field that has it.
LEMMA FieldOfPart ==
    ASSUME NEW x, NEW y \in PartsOf(x)
    PROVE  \E f \in FieldsOf(Class[x], "part") \cap DOMAIN object[x] :
              \E i \in DOMAIN object[x][f] : y = object[x][f][i]
BY DEF PartsOf

\* A part that was made belongs to the document.
LEMMA PartInDocument ==
    ASSUME NEW x, NEW y \in Document(x),
           NEW f \in FieldsOf(Class[y], "part") \cap DOMAIN object[y],
           NEW i \in DOMAIN object[y][f], object[y][f][i] \in Made
    PROVE  object[y][f][i] \in Document(x)
<1>1. object[y][f][i] \in PartsOf(y)
  BY DEF PartsOf
<1>. QED
  BY <1>1, DocumentIsClosed

\* In a document that is accepted every part is valid as what it is.
LEMMA PartsAreValid ==
    ASSUME \A x \in Made : TableInv(x), root \in Made, NEW c, Loads(c, root),
           NEW y \in Document(root), y # root
    PROVE  Valid(Class[y], object[y])
<1>1. PICK z \in Document(root) : y \in PartsOf(z)
  BY PartOfDocument
<1>2. PICK f \in FieldsOf(Class[z], "part") \cap DOMAIN object[z] :
              \E i \in DOMAIN object[z][f] : y = object[z][f][i]
  BY <1>1, FieldOfPart
<1>3. y \in Made /\ z \in Made
  BY DocumentIsMade
<1>4. PICK p \in Schema[Class[z]][f].of : Valid(p, object[y])
  BY <1>2, <1>3 DEF Loads
<1>5. Class[y] \in Schema[Class[z]][f].of
  BY <1>2, <1>3 DEF TableInv, Declared
<1>6. SameFields(p, Class[y])
  BY <1>3, <1>4 DEF Valid, TableInv, SameFields
<1>7. Class[z] \in Contract
  BY <1>3, ClassIsContract DEF TableInv
<1>8. p = Class[y]
  BY <1>2, <1>5, <1>6, <1>7, PartNames
<1>. QED
  BY <1>4, <1>8

-----------------------------------------------------------------------------
(* Which skills are asked for, in which order. *)

\* The mapped skills are different, and none of them is the policy skill.
LEMMA MappedSkills ==
    ASSUME NEW type \in DisputeType
    PROVE  LET skills == DISPUTE_TYPE_MAPPED_SKILLS[type]
           IN /\ skills \in Seq(SkillId)
              /\ \A i \in 1 .. Len(skills) : skills[i] # POLICY_SKILL_ID
              /\ \A i, j \in 1 .. Len(skills) : skills[i] = skills[j] => i = j
<1>. USE DEF DISPUTE_TYPE_MAPPED_SKILLS, SkillId, CORE_EVIDENCE_SKILL_IDS,
             POLICY_SKILL_ID, DUPLICATE_TRANSACTION_SKILL_ID
<1>1. type \in {"goods_not_received", "duplicate_transaction", "cancelled_service",
                "merchant_error", "card_not_present_fraud", "other"}
  BY DEF DisputeType
<1>2. CASE type = "goods_not_received"
  BY <1>2
<1>3. CASE type = "duplicate_transaction"
  BY <1>3
<1>4. CASE type = "cancelled_service"
  BY <1>4
<1>5. CASE type = "merchant_error"
  BY <1>5
<1>6. CASE type = "card_not_present_fraud"
  BY <1>6
<1>7. CASE type = "other"
  BY <1>7
<1>. QED
  BY <1>1, <1>2, <1>3, <1>4, <1>5, <1>6, <1>7

LastAndOnce(skills) ==
    \A i, j \in DOMAIN skills : /\ (skills[i] = POLICY_SKILL_ID => j <= i)
                                /\ (skills[i] = skills[j] => i = j)

LEMMA RequiredSkills ==
    ASSUME NEW type \in DisputeType, NEW include_policy \in BOOLEAN
    PROVE  LastAndOnce(required_skills_for(type, include_policy))
<1>. DEFINE mapped == DISPUTE_TYPE_MAPPED_SKILLS[type]
            policy == <<POLICY_SKILL_ID>>
            n == Len(mapped)
<1>1. /\ mapped \in Seq(SkillId)
      /\ \A i \in 1 .. n : mapped[i] # POLICY_SKILL_ID
      /\ \A i, j \in 1 .. n : mapped[i] = mapped[j] => i = j
  BY MappedSkills
<1>2. DOMAIN mapped = 1 .. n /\ n \in Nat
  BY <1>1
<1>3. policy \in Seq(SkillId) /\ Len(policy) = 1 /\ policy[1] = POLICY_SKILL_ID
  BY DEF SkillId
<1>. HIDE DEF mapped, policy
<1>4. CASE include_policy
  <2>. DEFINE skills == mapped \o policy
  <2>1. required_skills_for(type, include_policy) = skills
    BY <1>4 DEF required_skills_for, mapped, policy
  <2>2. Len(skills) = n + 1 /\ skills \in Seq(SkillId)
    BY <1>1, <1>3, ConcatProperties
  <2>3. DOMAIN skills = 1 .. n + 1
    BY <2>2
  <2>4. \A i \in 1 .. n + 1 :
           skills[i] = IF i <= n THEN mapped[i] ELSE policy[i - n]
    BY <1>1, <1>3, ConcatProperties
  <2>. HIDE DEF skills, n
  <2>5. /\ \A i \in 1 .. n : skills[i] = mapped[i]
        /\ skills[n + 1] = POLICY_SKILL_ID
    BY <1>2, <1>3, <2>4
  <2>6. \A i \in DOMAIN skills : i \in 1 .. n \/ i = n + 1
    BY <1>2, <2>3
  <2>. QED
    BY <1>1, <1>2, <2>1, <2>3, <2>5, <2>6 DEF LastAndOnce
<1>5. CASE ~include_policy
  <2>1. required_skills_for(type, include_policy) = mapped
    BY <1>5 DEF required_skills_for, mapped
  <2>. QED
    BY <1>1, <1>2, <2>1 DEF LastAndOnce
<1>. QED
  BY <1>4, <1>5

\* One skill cannot be out of order.
LEMMA AskedSkills == ASSUME NEW skills, Asks(skills) PROVE LastAndOnce(skills)
<1>1. CASE DOMAIN skills \subseteq {1}
  BY <1>1 DEF LastAndOnce
<1>2. CASE \E type \in DisputeType, include_policy \in BOOLEAN :
              skills = required_skills_for(type, include_policy)
  BY <1>2, RequiredSkills
<1>. QED
  BY <1>1, <1>2 DEF Asks

-----------------------------------------------------------------------------
(* The invariant. *)

LEMMA InitInv == Init => Inv
BY DEF Init, Inv, Made

\* What a constructor was given.
LEMMA TakenFacts ==
    ASSUME NEW x \in Instances, NEW args \in Taken[x]
    PROVE  /\ args \in Offers[x] /\ Valid(Class[x], args)
           /\ MomentsIn(Class[x], args)
           /\ DOMAIN args = DOMAIN Schema[Class[x]]
<1>1. args \in Offers[x] /\ Valid(Class[x], args)
  BY DEF Taken
<1>. QED
  BY <1>1, OffersTimes DEF MomentsIn, Valid

\* The instances that a step leaves alone are as they were.
LEMMA KeptInv ==
    ASSUME NEW y \in Made, TableInv(y), Made \subseteq Made',
           object'[y] = object[y], given'[y] = given[y]
    PROVE  TableInv(y)' /\ (UntouchedInv(y) => UntouchedInv(y)')
<1>1. \A f \in DOMAIN object[y] :
        Declared(Class[y], f, object[y][f]) => Declared(Class[y], f, object[y][f])'
  BY DEF Declared
<1>2. TableInv(y)'
  BY <1>1 DEF TableInv, Declared
<1>. QED
  BY <1>2 DEF UntouchedInv

LEMMA ConstructInv ==
    ASSUME Inv, NEW x \in Instances, Construct(x)
    PROVE  Inv'
<1>1. PICK args \in Taken[x] :
        /\ \A f \in FieldsOf(Class[x], "part") : Declared(Class[x], f, args[f])
        /\ object' = Extend(object, x, Converted(Class[x], args))
        /\ given' = Extend(given, x, args)
  BY DEF Construct
<1>2. x \notin Made /\ DOMAIN object = Made /\ DOMAIN given = Made
  BY DEF Construct, Inv, Made
<1>3. /\ DOMAIN object' = Made \cup {x} /\ DOMAIN given' = Made \cup {x}
      /\ object'[x] = Converted(Class[x], args) /\ given'[x] = args
      /\ \A y \in Made : object'[y] = object[y] /\ given'[y] = given[y]
  <2>1. x \notin DOMAIN object /\ x \notin DOMAIN given
    BY <1>2
  <2>2. /\ DOMAIN object' = DOMAIN object \cup {x}
        /\ object'[x] = Converted(Class[x], args)
        /\ \A y \in DOMAIN object : object'[y] = object[y]
    BY <1>1, <2>1 DEF Extend
  <2>3. /\ DOMAIN given' = DOMAIN given \cup {x} /\ given'[x] = args
        /\ \A y \in DOMAIN given : given'[y] = given[y]
    BY <1>1, <2>1 DEF Extend
  <2>. QED
    BY <1>2, <2>2, <2>3
<1>4. Made' = Made \cup {x} /\ touched' = touched /\ state' = "making"
  BY <1>3 DEF Made, Construct
<1>5. /\ args \in Offers[x] /\ Valid(Class[x], args) /\ MomentsIn(Class[x], args)
      /\ DOMAIN args = DOMAIN Schema[Class[x]] /\ Class[x] \in Contract
  BY TakenFacts, ClassIsContract
<1>6. TableInv(x)'
  <2>1. DOMAIN object'[x] = DOMAIN Schema[Class[x]]
    BY <1>3, <1>5, ConvertedFields
  <2>2. ASSUME NEW f \in DOMAIN object'[x]
        PROVE  Declared(Class[x], f, object[x][f])'
    <3>1. SUFFICES ASSUME f \in FieldsOf(Class[x], "part")
                   PROVE  Declared(Class[x], f, object[x][f])'
      BY DEF Declared
    <3>2. f \notin FieldsOf(Class[x], "time")
      BY <3>1 DEF FieldsOf
    <3>3. object'[x][f] = args[f]
      BY <1>3, <1>5, <2>1, <2>2, <3>2, ConvertedFields
    <3>4. Declared(Class[x], f, args[f])
      BY <1>1, <3>1
    <3>. QED
      BY <1>4, <3>3, <3>4 DEF Declared
  <2>3. ASSUME NEW f \in FieldsOf(Class[x], "time")
        PROVE  SameMoments(object'[x][f], given'[x][f])
    <3>1. f \in DOMAIN args
      BY <1>5, <2>3 DEF FieldsOf
    <3>. QED
      BY <1>3, <1>5, <3>1, ConvertedMoments
  <2>. QED
    BY <1>3, <1>5, <2>1, <2>2, <2>3 DEF TableInv
<1>7. UntouchedInv(x)'
  <2>1. Valid(Class[x], object'[x])
    BY <1>3, <1>5, ConvertedIsValid
  <2>2. ASSUME Class[x] = "InvestigationRequest"
        PROVE  Asks(object'[x].requested_skill_ids)
    <3>1. /\ "requested_skill_ids" \in DOMAIN args
          /\ "requested_skill_ids" \notin FieldsOf(Class[x], "time")
      BY <1>5, <2>2, RulesAssumption DEF FieldsOf
    <3>2. object'[x].requested_skill_ids = args.requested_skill_ids
      BY <1>3, <3>1, ConvertedFields
    <3>. QED
      BY <1>5, <2>2, <3>2, OffersAssumption
  <2>. QED
    BY <2>1, <2>2 DEF UntouchedInv
<1>8. \A y \in Made : TableInv(y)'
  BY <1>3, <1>4, KeptInv DEF Inv
<1>9. \A y \in Made \ touched : UntouchedInv(y)'
  BY <1>3, <1>4, KeptInv DEF Inv
<1>10. DOMAIN given' = Made' /\ Made' = Made \cup {x}
  BY <1>3, <1>4
<1>11. \A y \in Made' : TableInv(y)'
  BY <1>6, <1>8, <1>10
<1>12. \A y \in Made' \ touched' : UntouchedInv(y)'
  BY <1>4, <1>7, <1>9, <1>10
<1>. QED
  BY <1>4, <1>10, <1>11, <1>12 DEF Inv

LEMMA AssignInv ==
    ASSUME Inv, NEW x \in Made, NEW f \in DOMAIN object[x], Assign(x, f)
    PROVE  Inv'
<1>1. PICK vs \in Values[x][f] :
        /\ Declared(Class[x], f, vs)
        /\ object' = [object EXCEPT ![x][f] = vs]
        /\ given' = [given EXCEPT ![x][f] = vs]
  BY DEF Assign
<1>2. TableInv(x) /\ x \in Instances /\ f \in DOMAIN Schema[Class[x]]
  BY DEF Inv, TableInv
<1>3. PICK args \in Offers[x] : f \in DOMAIN args /\ vs = args[f]
  BY <1>1, <1>2 DEF Values
<1>4. /\ DOMAIN object = Made /\ DOMAIN given = Made
      /\ DOMAIN object' = Made /\ DOMAIN given' = Made /\ Made' = Made
  BY <1>1 DEF Inv, Made
<1>5. \A y \in Made \ {x} : object'[y] = object[y] /\ given'[y] = given[y]
  BY <1>1, <1>4
<1>6. /\ object'[x] = [object[x] EXCEPT ![f] = vs]
      /\ given'[x] = [given[x] EXCEPT ![f] = vs]
  BY <1>1, <1>4
<1>7. touched' = touched \cup {x} /\ state' = "making"
  BY DEF Assign
<1>8. TableInv(x)'
  <2>1. /\ DOMAIN object'[x] = DOMAIN Schema[Class[x]]
        /\ DOMAIN given'[x] = DOMAIN Schema[Class[x]]
    BY <1>2, <1>6 DEF TableInv
  <2>2. object'[x][f] = vs /\ given'[x][f] = vs
    BY <1>2, <1>6 DEF TableInv
  <2>3. ASSUME NEW g \in DOMAIN Schema[Class[x]], g # f
        PROVE  object'[x][g] = object[x][g] /\ given'[x][g] = given[x][g]
    BY <1>2, <1>6, <2>3 DEF TableInv
  <2>4. ASSUME NEW g \in DOMAIN object'[x]
        PROVE  Declared(Class[x], g, object[x][g])'
    <3>1. CASE g = f
      BY <1>1, <1>4, <2>2, <3>1 DEF Declared
    <3>2. CASE g # f
      BY <1>2, <1>4, <2>1, <2>3, <3>2 DEF TableInv, Declared
    <3>. QED
      BY <3>1, <3>2
  <2>5. ASSUME NEW g \in FieldsOf(Class[x], "time")
        PROVE  SameMoments(object'[x][g], given'[x][g])
    <3>1. CASE g = f
      <4>1. \A i \in DOMAIN vs : vs[i] \in Moment
        BY <1>2, <1>3, <2>5, <3>1, OffersTimes
      <4>. QED
        BY <2>2, <3>1, <4>1 DEF SameMoments
    <3>2. CASE g # f
      <4>1. g \in DOMAIN Schema[Class[x]]
        BY <2>5 DEF FieldsOf
      <4>. QED
        BY <1>2, <2>3, <2>5, <3>2, <4>1 DEF TableInv
    <3>. QED
      BY <3>1, <3>2
  <2>. QED
    BY <1>2, <2>1, <2>4, <2>5 DEF TableInv
<1>9. \A y \in Made \ {x} : TableInv(y)'
  BY <1>4, <1>5, KeptInv DEF Inv
<1>10. \A y \in Made \ touched' : UntouchedInv(y)'
  BY <1>4, <1>5, <1>7, KeptInv DEF Inv
<1>. QED
  BY <1>4, <1>7, <1>8, <1>9, <1>10 DEF Inv

\* Sending and receiving leave the instances as they are.
LEMMA ObjectsUnchanged ==
    ASSUME Inv, UNCHANGED <<object, given, touched>>
    PROVE  /\ DOMAIN given' = Made'
           /\ \A x \in Made' : TableInv(x)'
           /\ \A x \in Made' \ touched' : UntouchedInv(x)'
<1>1. Made' = Made
  BY DEF Made
<1>2. \A x \in Made : TableInv(x)' /\ (UntouchedInv(x) => UntouchedInv(x)')
  BY <1>1, KeptInv DEF Inv
<1>. QED
  BY <1>1, <1>2 DEF Inv

LEMMA DocumentUnchanged ==
    ASSUME UNCHANGED object
    PROVE  /\ \A x : Document(x)' = Document(x)
           /\ \A c, x : Loads(c, x)' <=> Loads(c, x)
<1>1. Made' = Made /\ \A x : PartsOf(x)' = PartsOf(x)
  BY DEF Made, PartsOf
<1>2. \A S : Closed(S)' <=> Closed(S)
  BY <1>1 DEF Closed
<1>3. \A x : Document(x)' = Document(x)
  BY <1>1, <1>2 DEF Document
<1>. QED
  BY <1>1, <1>3 DEF Loads

LEMMA SendInv ==
    ASSUME Inv, NEW x \in Made, Send(x)
    PROVE  Inv'
<1>1. /\ UNCHANGED <<object, given, touched>>
      /\ state' = "sent" /\ root' = x
  BY DEF Send
<1>2. root' \in Made'
  BY <1>1 DEF Made
<1>. QED
  BY <1>1, <1>2, ObjectsUnchanged DEF Inv

LEMMA ReceiveInv == ASSUME Inv, Receive PROVE Inv'
<1>1. /\ UNCHANGED <<object, given, touched, root>>
      /\ state = "sent" /\ state' = "read"
  BY DEF Receive
<1>2. root' \in Made'
  BY <1>1 DEF Made, Inv
<1>3. readAs' = {c \in Expected[Class[root]] : Loads(c, root)'}
  BY <1>1, DocumentUnchanged DEF Receive
<1>4. readAs' # {} =>
        received' = [y \in Document(root)' |-> Converted(Class[y], object[y])]
  BY <1>1, DocumentUnchanged DEF Receive
<1>5. ReadInv'
  BY <1>1, <1>3, <1>4 DEF ReadInv
<1>. QED
  BY <1>1, <1>2, <1>5, ObjectsUnchanged DEF Inv

LEMMA StutterInv == ASSUME Inv, UNCHANGED vars PROVE Inv'
<1>1. UNCHANGED <<state, object, given, touched, root, readAs, received>>
  BY DEF vars
<1>2. state' # "making" => root' \in Made'
  BY <1>1 DEF Inv, Made
<1>3. ASSUME state' = "read" PROVE ReadInv'
  <2>1. ReadInv
    BY <1>1, <1>3 DEF Inv
  <2>2. readAs' = {c \in Expected[Class[root]] : Loads(c, root)'}
    BY <1>1, <2>1, DocumentUnchanged DEF ReadInv
  <2>3. readAs' # {} =>
          received' = [y \in Document(root)' |-> Converted(Class[y], object[y])]
    BY <1>1, <2>1, DocumentUnchanged DEF ReadInv
  <2>. QED
    BY <1>1, <2>2, <2>3 DEF ReadInv
<1>. QED
  BY <1>1, <1>2, <1>3, ObjectsUnchanged DEF Inv

\* Contracts are used as the code means them to be: what is made has the fields
\* of its contract and parts that are declared, times move with their offsets,
\* and nothing that was not touched since is invalid.
THEOREM Invariance == Spec => []Inv
<1>1. Inv /\ [Next]_vars => Inv'
  <2>1. SUFFICES ASSUME Inv, [Next]_vars PROVE Inv'
    OBVIOUS
  <2>2. ASSUME NEW x \in Makeable, Construct(x) PROVE Inv'
    <3>1. x \in Instances
      BY DEF Makeable
    <3>. QED
      BY <2>1, <2>2, <3>1, ConstructInv
  <2>3. ASSUME NEW x \in Made, NEW f \in DOMAIN object[x], Assign(x, f) PROVE Inv'
    BY <2>1, <2>3, AssignInv
  <2>4. ASSUME NEW x \in Made, Send(x) PROVE Inv'
    BY <2>1, <2>4, SendInv
  <2>5. CASE Receive
    BY <2>1, <2>5, ReceiveInv
  <2>6. CASE UNCHANGED vars
    BY <2>1, <2>6, StutterInv
  <2>. QED
    BY <2>1, <2>2, <2>3, <2>4, <2>5, <2>6 DEF Next
<1>. QED
  BY <1>1, InitInv, PTL DEF Spec

-----------------------------------------------------------------------------
(* The properties. *)

\* What nobody has touched, every consumer reads as what it is, and as nothing
\* else.
THEOREM ReadBack == Spec => []ReadAsSent
<1>1. ASSUME Inv PROVE ReadAsSent
  <2>1. SUFFICES ASSUME state = "read", Document(root) \cap touched = {}
                 PROVE  readAs = {Class[root]}
    BY DEF ReadAsSent
  <2>2. root \in Made /\ readAs = {c \in Expected[Class[root]] : Loads(c, root)}
    BY <1>1, <2>1 DEF Inv, ReadInv
  <2>3. ASSUME NEW y \in Document(root)
        PROVE  TableInv(y) /\ Valid(Class[y], object[y])
    BY <1>1, <2>1, <2>3, DocumentIsMade DEF Inv, UntouchedInv
  <2>4. root \in Document(root) /\ Class[root] \in Contract
    BY <1>1, <2>2, RootInDocument, ClassIsContract DEF Inv, TableInv
  <2>5. Loads(Class[root], root)
    <3>1. ASSUME NEW y \in Document(root), NEW f \in FieldsOf(Class[y], "part"),
                 NEW i \in DOMAIN object[y][f], object[y][f][i] \in Made
          PROVE  \E p \in Schema[Class[y]][f].of : Valid(p, object[object[y][f][i]])
      <4>. DEFINE z == object[y][f][i]
      <4>1. f \in DOMAIN object[y]
        BY <2>3 DEF TableInv, FieldsOf
      <4>2. Class[z] \in Schema[Class[y]][f].of
        BY <2>3, <4>1 DEF TableInv, Declared
      <4>3. z \in Document(root)
        BY <3>1, <4>1, PartInDocument
      <4>. QED
        BY <2>3, <4>2, <4>3
    <3>. QED
      BY <2>3, <2>4, <3>1 DEF Loads
  <2>6. Class[root] \in readAs
    BY <2>2, <2>4, <2>5, ArrivesAsItself
  <2>7. ASSUME NEW d \in readAs PROVE d = Class[root]
    BY <2>2, <2>3, <2>4, ToldApart DEF Loads
  <2>. QED
    BY <2>6, <2>7
<1>. QED
  BY <1>1, Invariance, PTL

\* What arrives speaks of the same instants as what the producer gave.
THEOREM MomentsPreserved == Spec => []MomentsKept
<1>1. ASSUME Inv PROVE MomentsKept
  <2>1. SUFFICES ASSUME Accepted, NEW x \in Document(root),
                        NEW f \in FieldsOf(Class[x], "time")
                 PROVE  /\ DOMAIN received[x][f] = DOMAIN given[x][f]
                        /\ \A i \in DOMAIN given[x][f] :
                              Instant(received[x][f][i]) = Instant(given[x][f][i])
    BY DEF MomentsKept
  <2>2. received[x] = Converted(Class[x], object[x])
    BY <1>1, <2>1 DEF Inv, ReadInv, Accepted
  <2>3. TableInv(x)
    BY <1>1, DocumentIsMade DEF Inv
  <2>4. f \in DOMAIN object[x]
    BY <2>3 DEF TableInv, FieldsOf
  <2>5. SameMoments(object[x][f], given[x][f])
    BY <2>3 DEF TableInv
  <2>6. \A g \in FieldsOf(Class[x], "time") : \A i \in DOMAIN object[x][g] :
           object[x][g][i] \in Moment
    BY <2>3 DEF TableInv, SameMoments
  <2>7. SameMoments(received[x][f], object[x][f])
    BY <2>2, <2>4, <2>6, ConvertedMoments DEF MomentsIn
  <2>. QED
    BY <2>5, <2>7 DEF SameMoments
<1>. QED
  BY <1>1, Invariance, PTL

\* The fields of an accepted instance are valid as what it is, its root's too
\* when it is read as another contract.
LEMMA AcceptedFields ==
    ASSUME Inv, Accepted, NEW x \in Document(root), NEW f \in DOMAIN object[x]
    PROVE  \E field : /\ field.is = Schema[Class[x]][f].is
                      /\ FieldOK(field, object[x][f])
<1>1. PICK c \in Expected[Class[root]] : Loads(c, root)
  BY DEF Inv, ReadInv, Accepted
<1>2. root \in Made /\ TableInv(root) /\ TableInv(x)
  BY DocumentIsMade DEF Inv, Accepted
<1>3. CASE x = root
  <2>1. Valid(c, object[x]) /\ DOMAIN object[x] = DOMAIN Schema[Class[x]]
    BY <1>1, <1>2, <1>3 DEF Loads, TableInv
  <2>2. SameFields(Class[x], c)
    BY <2>1 DEF Valid, SameFields
  <2>3. Class[x] \in Contract /\ c \in Contract
    BY <1>1, <1>2, <1>3, ClassIsContract, ArrivesAsItself DEF TableInv
  <2>4. Schema[Class[x]][f].is = Schema[c][f].is
    BY <2>1, <2>2, <2>3, SameKinds
  <2>. QED
    BY <2>1, <2>4 DEF Valid
<1>4. CASE x # root
  <2>1. Valid(Class[x], object[x])
    BY <1>1, <1>2, <1>4, PartsAreValid DEF Inv
  <2>. QED
    BY <2>1 DEF Valid
<1>. QED
  BY <1>3, <1>4

\* What the rules speak of is read as itself only.
LEMMA AcceptedRules ==
    ASSUME Inv, Accepted, NEW x \in Document(root),
           \/ x # root
           \/ Class[x] \in {"SpecialistFinding", "InvestigationRecord",
                            "InvestigatorDecision"}
    PROVE  Valid(Class[x], object[x])
<1>1. PICK c \in Expected[Class[root]] : Loads(c, root)
  BY DEF Inv, ReadInv, Accepted
<1>2. CASE x = root
  <2>1. c = Class[x]
    BY <1>1, <1>2, RulesAssumption
  <2>. QED
    BY <1>1, <1>2, <2>1 DEF Loads
<1>3. CASE x # root
  BY <1>1, <1>3, PartsAreValid DEF Inv, Accepted
<1>. QED
  BY <1>2, <1>3

\* In what a consumer has accepted nothing is amiss at any depth, whatever the
\* producer assigned, copied and embedded.
THEOREM Soundness == Spec => []AcceptedIsSound
<1>1. ASSUME Inv PROVE AcceptedIsSound
  <2>1. SUFFICES ASSUME Accepted, NEW x \in Document(root)
        PROVE /\ \A f \in FieldsOf(Class[x], "id") : \A i \in DOMAIN received[x][f] :
                    received[x][f][i] \notin {"", " "}
              /\ \A f \in FieldsOf(Class[x], "time") : \A i \in DOMAIN received[x][f] :
                    received[x][f][i].aware /\ received[x][f][i].offset = 0
              /\ Completed(x, "InvestigationRecord") => Decided(x)
              /\ Completed(x, "SpecialistFinding") => Over(received[x])
    BY DEF AcceptedIsSound
  <2>. DEFINE c == Class[x]
              o == object[x]
  <2>2. \A y \in Document(root) : received[y] = Converted(Class[y], object[y])
    BY <1>1, <2>1 DEF Inv, ReadInv, Accepted
  <2>3. TableInv(x) /\ c \in Contract /\ DOMAIN o = DOMAIN Schema[c]
    BY <1>1, DocumentIsMade, ClassIsContract DEF Inv, TableInv
  <2>4. MomentsIn(c, o)
    BY <2>3 DEF TableInv, SameMoments, MomentsIn
  <2>5. ASSUME NEW f \in FieldsOf(c, "id"), NEW i \in DOMAIN received[x][f]
        PROVE  received[x][f][i] \notin {"", " "}
    <3>1. f \in DOMAIN o /\ f \notin FieldsOf(c, "time") /\ Schema[c][f].is = "id"
      BY <2>3 DEF FieldsOf
    <3>2. received[x][f] = o[f]
      BY <2>2, <3>1, ConvertedFields
    <3>3. PICK field : field.is = "id" /\ FieldOK(field, o[f])
      BY <1>1, <2>1, <3>1, AcceptedFields
    <3>. QED
      BY <3>2, <3>3 DEF FieldOK, ValueOK
  <2>6. ASSUME NEW f \in FieldsOf(c, "time"), NEW i \in DOMAIN received[x][f]
        PROVE  received[x][f][i].aware /\ received[x][f][i].offset = 0
    <3>1. f \in DOMAIN o /\ Schema[c][f].is = "time"
      BY <2>3 DEF FieldsOf
    <3>2. i \in DOMAIN o[f] /\ received[x][f][i] = ToUtc(o[f][i])
      BY <2>2, <3>1, ConvertedFields
    <3>3. PICK field : field.is = "time" /\ FieldOK(field, o[f])
      BY <1>1, <2>1, <3>1, AcceptedFields
    <3>4. o[f][i].aware /\ o[f][i] \in Moment
      BY <2>4, <3>1, <3>2, <3>3 DEF FieldOK, ValueOK, MomentsIn
    <3>. QED
      BY <3>2, <3>4, ToUtcFacts
  <2>7. ASSUME Completed(x, "InvestigationRecord") PROVE Decided(x)
    <3>1. c = "InvestigationRecord" /\ Valid(c, o)
      BY <1>1, <2>1, <2>7, AcceptedRules DEF Completed
    <3>2. {"status", "investigator_decision"} \subseteq DOMAIN o \ FieldsOf(c, "time")
      BY <2>3, <3>1, RulesAssumption DEF OneOf, FieldsOf
    <3>3. /\ received[x].status = o.status
          /\ received[x].investigator_decision = o.investigator_decision
      BY <2>2, <3>2, ConvertedFields
    <3>4. o.status[1] = "completed"
      BY <2>7, <3>3 DEF Completed
    <3>5. PICK i \in DOMAIN o.investigator_decision : TRUE
      BY <3>1, <3>4 DEF Valid, RecordRules, Given
    <3>. DEFINE d == o.investigator_decision[i]
    <3>6. /\ "investigator_decision" \in FieldsOf(c, "part")
          /\ Schema[c]["investigator_decision"].of = {"InvestigatorDecision"}
      BY <3>1, RulesAssumption
    <3>7. d \in Made \cup Sound /\ Class[d] = "InvestigatorDecision"
      BY <2>3, <3>2, <3>5, <3>6 DEF TableInv, Declared
    <3>8. CASE d \in Sound
      BY <3>3, <3>5, <3>8 DEF Decided, Named
    <3>9. CASE d \in Made
      <4>1. d \in Document(root)
        BY <3>2, <3>5, <3>6, <3>9, PartInDocument
      <4>2. OneOf("InvestigatorDecision", "investigator_id", "id")
        BY RulesAssumption
      <4>3. TableInv(d) /\ Class[d] \in Contract
        BY <1>1, <3>9, ClassIsContract DEF Inv, TableInv
      <4>4. "investigator_id" \in DOMAIN object[d] \ FieldsOf(Class[d], "time")
        BY <3>7, <4>2, <4>3 DEF OneOf, FieldsOf, TableInv
      <4>5. received[d].investigator_id = object[d].investigator_id
        BY <2>2, <4>1, <4>4, ConvertedFields
      <4>6. Valid(Class[d], object[d])
        BY <1>1, <2>1, <3>7, <4>1, AcceptedRules
      <4>7. /\ ValueOK(Schema[Class[d]]["investigator_id"],
                       object[d]["investigator_id"][1])
            /\ Schema[Class[d]]["investigator_id"].is = "id"
        BY <3>7, <4>2, <4>3, <4>6, FirstValue
      <4>. QED
        BY <3>3, <3>5, <4>5, <4>7 DEF Decided, Named, ValueOK
    <3>. QED
      BY <3>7, <3>8, <3>9
  <2>8. ASSUME Completed(x, "SpecialistFinding") PROVE Over(received[x])
    <3>. DEFINE r == received[x]
    <3>1. c = "SpecialistFinding" /\ Valid(c, o)
      BY <1>1, <2>1, <2>8, AcceptedRules DEF Completed
    <3>2. r = Converted(c, o)
      BY <2>2
    <3>3. Valid(c, r)
      BY <2>3, <2>4, <3>1, <3>2, ConvertedIsValid
    <3>4. FindingRules(r)
      BY <3>1, <3>3 DEF Valid
    <3>5. r.status[1] = "completed"
      BY <2>8 DEF Completed
    <3>6. Given(r.completed_at) /\ NotBefore(r, "completed_at", "started_at")
      BY <3>4, <3>5 DEF FindingRules
    <3>7. /\ "completed_at" \in FieldsOf(c, "time")
          /\ OneOf(c, "started_at", "time")
      BY <3>1, RulesAssumption
    <3>8. 1 \in DOMAIN r["started_at"]
      BY <2>3, <3>3, <3>7, FirstValue
    <3>9. 1 \in DOMAIN r["completed_at"]
      <4>1. FieldOK(Schema[c]["completed_at"], r["completed_at"])
        BY <2>3, <3>2, <3>3, <3>7, ConvertedFields DEF Valid, FieldsOf
      <4>2. Schema[c]["completed_at"].min \in Nat /\ Schema[c]["completed_at"].max \in Nat
        BY <2>3, <3>7, SchemaAssumption DEF FieldsOf
      <4>. QED
        BY <3>6, <4>1, <4>2 DEF FieldOK, Given
    <3>10. ASSUME NEW f \in {"started_at", "completed_at"}
           PROVE  r[f][1].at = Instant(r[f][1])
      <4>1. f \in FieldsOf(c, "time") /\ f \in DOMAIN o
        BY <2>3, <3>7 DEF OneOf, FieldsOf
      <4>2. 1 \in DOMAIN o[f] /\ r[f][1] = ToUtc(o[f][1])
        BY <3>2, <3>8, <3>9, <3>10, <4>1, ConvertedFields
      <4>3. o[f][1] \in Moment
        BY <2>4, <4>1, <4>2 DEF MomentsIn
      <4>. QED
        BY <4>2, <4>3, ToUtcFacts
    <3>11. r["completed_at"][1].at >= r["started_at"][1].at
      BY <3>6, <3>9, <3>10 DEF NotBefore
    <3>. QED
      BY <3>6, <3>11 DEF Over
  <2>. QED
    BY <2>5, <2>6, <2>7, <2>8
<1>. QED
  BY <1>1, Invariance, PTL

\* A request asks for the policy skill last, and for no skill twice.
THEOREM PolicyIsLast == Spec => []PolicyComesLast
<1>1. ASSUME Inv PROVE PolicyComesLast
  <2>1. ASSUME NEW x \in Made \ touched, Class[x] = "InvestigationRequest"
        PROVE  LastAndOnce(object[x].requested_skill_ids)
    BY <1>1, <2>1, AskedSkills DEF Inv, UntouchedInv
  <2>. QED
    BY <2>1 DEF PolicyComesLast, LastAndOnce
<1>. QED
  BY <1>1, Invariance, PTL

=============================================================================
