-------------------------- MODULE ContractExchange --------------------------
(***************************************************************************)
(* How contracts are used: a producer constructs instances, which          *)
(* validates the arguments, but not again the instances among them; sets a *)
(* field of one or takes a model_copy with an update, neither of which     *)
(* validates anything; and sends one, with the instances it is made of, as *)
(* JSON to a consumer, which knows the contracts it expects and validates  *)
(* everything.                                                             *)
(*                                                                         *)
(* An instance is the table of its fields, and a field is a sequence of    *)
(* values.  The value of a part is the instance itself, as in Python: two  *)
(* instances may share a part, and what is set in it shows in both.  As    *)
(* JSON an instance is the same: each of the values modelled has one form, *)
(* and a datetime keeps its offset.                                        *)
(***************************************************************************)
EXTENDS Skills, Integers, FiniteSets

CONSTANTS
    Schema,      \* Schema[c][f]: what field f of contract c has to be
    Expected,    \* Expected[c]: the contracts that can arrive where c does
    Instances,   \* the instances that a producer may make
    Sound,       \* valid instances made before, not looked into
    Class,       \* the contract of each instance
    Offers,      \* Offers[x]: the arguments that x may be made with
    MaxLoose,    \* bound on the instances that are not part of another yet
    MaxTouched   \* bound on the fields that are set, each in another instance

VARIABLES
    state,      \* "making", "sent" or "read"
    object,     \* the instances made, then the JSON made of them
    given,      \* the same with the arguments as the producer gave them
    touched,    \* the instances in which a field was set without validation
    root,       \* the instance that is sent
    readAs,     \* the contracts that the consumer can read it as
    received    \* the instances that the consumer made of it

vars == <<state, object, given, touched, root, readAs, received>>

Contract == DOMAIN Schema
FieldsOf(c, kind) == {f \in DOMAIN Schema[c] : Schema[c][f].is = kind}

-----------------------------------------------------------------------------
(* Values. *)

Moment == [at: Int, offset: Int, aware: BOOLEAN]
Instant(t) == t.at - t.offset

\* Wrong on purpose: the offset is replaced instead of converted.
ReplaceOffset(t) == [t EXCEPT !.offset = 0]

\* require_utc: astimezone(UTC).
ToUtc(t) == [t EXCEPT !.at = Instant(t), !.offset = 0]

\* What validation returns: times are in UTC.
Converted(c, o) ==
    [f \in DOMAIN o |->
        IF f \in FieldsOf(c, "time")
        THEN [i \in DOMAIN o[f] |-> ToUtc(o[f][i])]
        ELSE o[f]]

-----------------------------------------------------------------------------
(* Validation. *)

\* Instants before 0 are out of datetime's range.
ValueOK(base, v) ==
    /\ base.is = "id" => v \notin {"", " "}
    /\ base.is = "text" => v # ""
    /\ base.is = "time" => v.aware /\ Instant(v) >= 0
    /\ base.is = "amount" => v > 0
    /\ base.is = "count" => v >= 0
    /\ base.is = "enum" => v \in base.of

FieldOK(field, vs) ==
    /\ \E n \in field.min .. field.max : DOMAIN vs = 1 .. n
    /\ \A i \in DOMAIN vs : ValueOK(field, vs[i])

\* Wrong on purpose: the local times are compared, before the conversion.
LocallyNotBefore(o, end, start) ==
    \A i \in DOMAIN o[end] : o[end][i].at >= o[start][1].at

NotBefore(o, end, start) ==
    \A i \in DOMAIN o[end] : Instant(o[end][i]) >= Instant(o[start][1])

Given(vs) == DOMAIN vs # {}

FindingRules(o) ==
    /\ o.status[1] = "completed" => Given(o.completed_at)
    /\ o.status[1] = "partial" => Given(o.warnings) \/ Given(o.missing_evidence)
    /\ NotBefore(o, "completed_at", "started_at")

RecordRules(o) ==
    /\ o.status[1] = "completed" => Given(o.investigator_decision)
    /\ NotBefore(o, "completed_at", "created_at")

\* What a constructor looks at: no other field, and each field, but no part.
Valid(c, o) ==
    /\ DOMAIN o = DOMAIN Schema[c]
    /\ \A f \in DOMAIN o : FieldOK(Schema[c][f], o[f])
    /\ c = "SpecialistFinding" => FindingRules(o)
    /\ c = "InvestigationRecord" => RecordRules(o)

-----------------------------------------------------------------------------
(* The producer. *)

Made == DOMAIN object
PartsOf(x) == UNION {{object[x][f][i] : i \in DOMAIN object[x][f]} :
                        f \in FieldsOf(Class[x], "part") \cap DOMAIN object[x]}
Loose == {x \in Made : \A y \in Made : x \notin PartsOf(y)}

\* Bound: no more can be loose, unless one of them becomes a part.
TakesIn == [c \in Contract |->
               UNION {Schema[c][f].of : f \in FieldsOf(c, "part")}]
Makeable ==
    LET loose == Loose
    IN {x \in Instances \ Made :
            \/ Cardinality(loose) < MaxLoose
            \/ \E y \in loose : Class[y] \in TakesIn[Class[x]]}

\* A union looks at the discriminator of an instance it is given.
Discriminators == {"kind", "component_type"}
Discriminated(union, y) ==
    y \in Made /\ union # {Class[y]} =>
        \A d \in Discriminators \cap DOMAIN object[y] :
            FieldOK(Schema[Class[y]][d], object[y][d])

\* The parts are instances of the contracts declared (mypy --strict, isinstance).
Declared(c, f, vs) ==
    f \in FieldsOf(c, "part") => \A i \in DOMAIN vs :
        /\ vs[i] \in Made \cup Sound
        /\ Class[vs[i]] \in Schema[c][f].of

Extend(table, x, v) ==
    [y \in DOMAIN table \cup {x} |-> IF y = x THEN v ELSE table[y]]

Init ==
    /\ state = "making"
    /\ object = <<>> /\ given = <<>> /\ received = <<>>
    /\ touched = {}
    /\ root = "none"
    /\ readAs = {}

\* A constructor: with arguments that do not validate there is no instance.
Taken == [x \in Instances |-> {args \in Offers[x] : Valid(Class[x], args)}]

\* Parts that are given stay as they are.
Construct(x) ==
    /\ state = "making"
    /\ x \notin Made
    /\ \E args \in Taken[x] :
        /\ \A f \in FieldsOf(Class[x], "part") :
              /\ Declared(Class[x], f, args[f])
              /\ \A i \in DOMAIN args[f] :
                    Discriminated(Schema[Class[x]][f].of, args[f][i])
        /\ object' = Extend(object, x, Converted(Class[x], args))
        /\ given' = Extend(given, x, args)
    /\ Cardinality(Loose') <= MaxLoose
    /\ UNCHANGED <<state, touched, root, readAs, received>>

\* An assignment, or model_copy(update=...) that takes the original's place.
Values == [x \in Instances |->
              [f \in DOMAIN Schema[Class[x]] |->
                  {args[f] : args \in {a \in Offers[x] : f \in DOMAIN a}}]]
Assign(x, f) ==
    /\ state = "making"
    /\ Cardinality(touched) < MaxTouched
    /\ \E vs \in Values[x][f] :
        /\ Declared(Class[x], f, vs)
        /\ object' = [object EXCEPT ![x][f] = vs]
        /\ given' = [given EXCEPT ![x][f] = vs]
    /\ touched' = touched \cup {x}
    /\ Cardinality(Loose') <= MaxLoose
    /\ UNCHANGED <<state, root, readAs, received>>

Send(x) ==
    /\ state = "making"
    /\ state' = "sent"
    /\ root' = x
    /\ UNCHANGED <<object, given, touched, readAs, received>>

-----------------------------------------------------------------------------
(* The consumer. *)

\* An instance and all that it is made of.
Closed(S) == \A x \in S : PartsOf(x) \cap Made \subseteq S
Document(x) ==
    {y \in Made : \A S \in SUBSET Made : x \in S /\ Closed(S) => y \in S}

\* Wrong on purpose: parts are taken as they are, as a constructor does.
LoadsTrusting(c, x) == Valid(c, object[x])

\* What model_validate_json looks at: every part, to any depth, has to fit a
\* contract of its field.  Contracts with the same field names have the same
\* parts, so what else a part can be read as makes no difference below it.
Loads(c, x) ==
    /\ Valid(c, object[x])
    /\ \A y \in Document(x) : \A f \in FieldsOf(Class[y], "part") :
         \A i \in DOMAIN object[y][f] : object[y][f][i] \in Made =>
            \E p \in Schema[Class[y]][f].of : Valid(p, object[object[y][f][i]])

Receive ==
    /\ state = "sent"
    /\ state' = "read"
    /\ readAs' = {c \in Expected[Class[root]] : Loads(c, root)}
    /\ received' = IF readAs' = {} THEN <<>>
                   ELSE [y \in Document(root) |-> Converted(Class[y], object[y])]
    /\ UNCHANGED <<object, given, touched, root>>

Next ==
    \/ \E x \in Makeable : Construct(x)
    \/ \E x \in Made : \E f \in DOMAIN object[x] : Assign(x, f)
    \/ \E x \in Made : Send(x)
    \/ Receive

Spec == Init /\ [][Next]_vars

-----------------------------------------------------------------------------
(* What is assumed of the contracts and of the producer. *)

\* Contracts are told apart by their fields' names or by a constant in one of
\* them; with the same names they have the same kinds of fields.
SameFields(c, d) == DOMAIN Schema[c] = DOMAIN Schema[d]
TellsApart(field, other) ==
    /\ field.is = "enum" /\ other.is = "enum"
    /\ field.min >= 1 /\ field.of \cap other.of = {}

ASSUME SchemaAssumption ==
    /\ \A c \in Contract : \A f \in DOMAIN Schema[c] :
          Schema[c][f].min \in Nat /\ Schema[c][f].max \in Nat
    /\ \A c \in Contract : \A f \in FieldsOf(c, "part") :
          \A p, q \in Schema[c][f].of : SameFields(p, q) => p = q
    /\ \A c, d \in Contract : SameFields(c, d) =>
          \A f \in DOMAIN Schema[c] : /\ Schema[c][f].is = Schema[d][f].is
                                      /\ f \in FieldsOf(c, "part") =>
                                            Schema[c][f].of = Schema[d][f].of
    /\ \A c \in Contract : /\ c \in Expected[c]
                           /\ Expected[c] \subseteq Contract
    /\ \A c \in Contract : \A d \in Expected[c] \ {c} : SameFields(c, d) =>
          \E f \in DOMAIN Schema[c] : TellsApart(Schema[c][f], Schema[d][f])

\* The fields that the rules of findings and records speak of, of contracts that
\* arrive only where they are expected.
OneOf(c, f, kind) == f \in FieldsOf(c, kind) /\ Schema[c][f].min = 1
ASSUME RulesAssumption ==
    /\ \A c \in {"SpecialistFinding", "InvestigationRecord",
                 "InvestigatorDecision"} : c \in Contract /\ Expected[c] = {c}
    /\ {"warnings", "missing_evidence"} \subseteq DOMAIN Schema["SpecialistFinding"]
    /\ OneOf("SpecialistFinding", "started_at", "time")
    /\ OneOf("SpecialistFinding", "status", "enum")
    /\ "completed_at" \in FieldsOf("SpecialistFinding", "time")
    /\ OneOf("InvestigationRecord", "created_at", "time")
    /\ OneOf("InvestigationRecord", "status", "enum")
    /\ "completed_at" \in FieldsOf("InvestigationRecord", "time")
    /\ "investigator_decision" \in FieldsOf("InvestigationRecord", "part")
    /\ Schema["InvestigationRecord"].investigator_decision.of
            = {"InvestigatorDecision"}
    /\ OneOf("InvestigatorDecision", "investigator_id", "id")
    /\ "requested_skill_ids" \in FieldsOf("InvestigationRequest", "enum")

\* Times are times, and requests ask for the skills that their dispute needs,
\* or for one.
Asks(skills) ==
    \/ DOMAIN skills \subseteq {1}
    \/ \E type \in DisputeType, include_policy \in BOOLEAN :
            skills = required_skills_for(type, include_policy)

ASSUME OffersAssumption ==
    /\ Class \in [Instances \cup Sound -> Contract]
    /\ \A x \in Instances : \A args \in Offers[x] :
          /\ \A f \in FieldsOf(Class[x], "time") \cap DOMAIN args :
                \A i \in DOMAIN args[f] : args[f][i] \in Moment
          /\ Class[x] = "InvestigationRequest" => Asks(args.requested_skill_ids)

-----------------------------------------------------------------------------
(* Properties. *)

Accepted == state = "read" /\ readAs # {}

\* What its constructors have taken, and nobody has changed since, every
\* consumer takes too, as the same contract and no other (the round trips of the
\* tests; event_name, component_type and kind of agui.py, a2ui.py, findings.py).
ReadAsSent ==
    state = "read" /\ Document(root) \cap touched = {}
        => readAs = {Class[root]}

\* Time zones neither move nor reorder anything: what arrives speaks of the same
\* instants as what the producer gave (common.py:34-38).
MomentsKept ==
    Accepted => \A x \in Document(root) : \A f \in FieldsOf(Class[x], "time") :
        /\ DOMAIN received[x][f] = DOMAIN given[x][f]
        /\ \A i \in DOMAIN given[x][f] :
              Instant(received[x][f][i]) = Instant(given[x][f][i])

\* Whatever the producer assigned, copied and embedded, in the instances a
\* consumer has accepted nothing is amiss at any depth: no blank id; every time
\* that a contract validates in UTC (posted_at of TransactionFindingDetails is
\* the one time that none does); and a record says it is completed only with a
\* named investigator's decision, and a finding only when it has ended, not
\* before it began.
Completed(x, c) == Class[x] = c /\ received[x].status[1] = "completed"
Named(d) == d \in Sound \/ received[d].investigator_id[1] \notin {"", " "}
Decided(x) == \E i \in DOMAIN received[x].investigator_decision :
                  Named(received[x].investigator_decision[i])
Over(o) == Given(o.completed_at) /\ o.completed_at[1].at >= o.started_at[1].at
AcceptedIsSound ==
    Accepted => \A x \in Document(root) :
        /\ \A f \in FieldsOf(Class[x], "id") : \A i \in DOMAIN received[x][f] :
              received[x][f][i] \notin {"", " "}
        /\ \A f \in FieldsOf(Class[x], "time") : \A i \in DOMAIN received[x][f] :
              received[x][f][i].aware /\ received[x][f][i].offset = 0
        /\ Completed(x, "InvestigationRecord") => Decided(x)
        /\ Completed(x, "SpecialistFinding") => Over(received[x])

\* A request asks for the policy skill after all others (skills.py:71-84,
\* policy.py:3-7), and for no skill twice.
PolicyComesLast ==
    \A x \in Made \ touched : Class[x] = "InvestigationRequest" =>
        LET skills == object[x].requested_skill_ids
        IN \A i, j \in DOMAIN skills :
              /\ (skills[i] = POLICY_SKILL_ID => j <= i)
              /\ (skills[i] = skills[j] => i = j)
=============================================================================
