-------------------------- MODULE DisputeMcpProofs --------------------------
(***************************************************************************)
(* dispute-mcp-server, for any callers, cases, keys and statuses: its      *)
(* invariant is inductive, and under it the worker threads implement the   *)
(* atomic store.                                                           *)
(***************************************************************************)
EXTENDS DisputeMcp, FiniteSetTheorems, TLAPS

\* What a request holds, by its tool.
LEMMA RequestFields ==
    ASSUME NEW req \in Requests
    PROVE /\ req # NoRequest
          /\ req.tool \in {"get_case", "update_case", "write_audit"} \cup ReadTools
          /\ req.tool \in {"get_case", "update_case", "write_audit"} =>
                req.case \in Cases
          /\ req.tool \in ReadTools => req \in SeedRequest
          /\ req.tool = "update_case" => req.status \in Statuses
          /\ req.tool = "write_audit" /\ Valid(req) =>
                Entry(req) \in [case: Cases, key: Keys]
<1>1. CASE req \in GetCaseRequest
  BY <1>1, DisputeCallsAssumption DEF GetCaseRequest, NoRequest
<1>2. CASE req \in UpdateCaseStatusRequest
  BY <1>2, DisputeCallsAssumption DEF UpdateCaseStatusRequest, NoRequest
<1>3. CASE req \in CreateAuditEntryRequest
  BY <1>3, DisputeCallsAssumption
  DEF CreateAuditEntryRequest, NoRequest, Valid, Entry
<1>4. CASE req \in SeedRequest
  BY <1>4, DisputeCallsAssumption DEF SeedRequest, NoRequest
<1> QED
  BY <1>1, <1>2, <1>3, <1>4 DEF Requests

\* What the tools answer has the type of an answer.
LEMMA AnswerTypes ==
    /\ Failure \in Answers /\ ToolError \in Answers /\ NoAnswer \in Answers
    /\ \A record \in Record \cup {Absent} : Success(record) \in Answers
  BY DEF Failure, ToolError, NoAnswer, Success, Answers

LEMMA LookupType ==
    ASSUME NEW req \in SeedRequest
    PROVE Lookup(req) \in Answers
<1>1. req.tool \in ReadTools
  BY DEF SeedRequest
<1>2. CASE req.id \in DOMAIN Tables[req.tool]
  <2>1. Tables[req.tool][req.id] \in SUBSET Rows
    BY <1>1, <1>2 DEF Rows
  <2> QED
    BY <1>2, <2>1 DEF Lookup, Found, Answers
<1>3. CASE req.id \notin DOMAIN Tables[req.tool]
  BY <1>3, AnswerTypes DEF Lookup
<1> QED
  BY <1>2, <1>3

\* A stored copy has the status asked for and the rest of the record.
LEMMA CopyOfRecord ==
    ASSUME NEW record \in Record, NEW s \in Statuses
    PROVE [record EXCEPT !.status = s] = [status |-> s, rest |-> record.rest]
  BY DEF Record

LEMMA InitStoreInv == Init => StoreInv
<1> SUFFICES ASSUME Init PROVE StoreInv
  OBVIOUS
<1>1. Seeded \in [Cases -> Record \cup {Absent}]
  BY DisputeCallsAssumption DEF Seeded, Record
<1>2. TypeOK
  BY <1>1, AnswerTypes DEF Init, TypeOK, Places
<1>3. \A t \in Calls : CallOK(t)
  BY DEF Init, CallOK
<1>4. CopiesLoseNothing
  BY DisputeCallsAssumption DEF Init, CopiesLoseNothing, Seeded, Record
<1> QED
  BY <1>2, <1>3, <1>4 DEF StoreInv

-----------------------------------------------------------------------------
(* One lemma for each action. *)

LEMMA CallStep ==
    ASSUME StoreInv, NEW t \in Calls, NEW req \in Requests, Call(t, req)
    PROVE StoreInv'
<1> USE DEF StoreInv
<1>1. TypeOK'
  BY RequestFields, AnswerTypes, CopyOfRecord DEF TypeOK, Places, Call
<1>2. ASSUME NEW u \in Calls PROVE CallOK(u)'
  BY RequestFields DEF TypeOK, CallOK, Call
<1>3. CopiesLoseNothing'
  BY RequestFields, CopyOfRecord DEF TypeOK, CallOK, CopiesLoseNothing, Call
<1> QED
  BY <1>1, <1>2, <1>3

LEMMA RefuseStep ==
    ASSUME StoreInv, NEW t \in Calls, Refuse(t)
    PROVE StoreInv'
<1> USE DEF StoreInv
<1>1. TypeOK'
  BY RequestFields, AnswerTypes, CopyOfRecord DEF TypeOK, Places, Refuse, Ends
<1>2. ASSUME NEW u \in Calls PROVE CallOK(u)'
  BY RequestFields DEF TypeOK, CallOK, Refuse, Ends
<1>3. CopiesLoseNothing'
  BY RequestFields, CopyOfRecord
  DEF TypeOK, CallOK, CopiesLoseNothing, Refuse, Ends
<1> QED
  BY <1>1, <1>2, <1>3

LEMMA GetCaseStep ==
    ASSUME StoreInv, NEW t \in Calls, GetCase(t)
    PROVE StoreInv'
<1> USE DEF StoreInv
<1>1. cases[request[t].case] \in Record \cup {Absent}
  BY RequestFields DEF TypeOK, GetCase, Starts, NoRequest
<1>2. (IF cases[request[t].case] = Absent
       THEN ToolError ELSE Success(cases[request[t].case])) \in Answers
  BY <1>1, AnswerTypes
<1>3. TypeOK'
  BY <1>2 DEF TypeOK, Places, GetCase, Starts, Ends
<1>4. ASSUME NEW u \in Calls PROVE CallOK(u)'
  BY RequestFields DEF TypeOK, CallOK, GetCase, Starts, Ends
<1>5. CopiesLoseNothing'
  BY RequestFields, CopyOfRecord
  DEF TypeOK, CallOK, CopiesLoseNothing, GetCase, Starts, Ends
<1> QED
  BY <1>3, <1>4, <1>5

LEMMA GetSeededStep ==
    ASSUME StoreInv, NEW t \in Calls, GetSeeded(t)
    PROVE StoreInv'
<1> USE DEF StoreInv
<1>1. Lookup(request[t]) \in Answers
  BY RequestFields, LookupType DEF TypeOK, CallOK, GetSeeded, Starts
<1>2. TypeOK'
  BY <1>1 DEF TypeOK, Places, GetSeeded, Starts, Ends
<1>3. ASSUME NEW u \in Calls PROVE CallOK(u)'
  BY RequestFields DEF TypeOK, CallOK, GetSeeded, Starts, Ends
<1>4. CopiesLoseNothing'
  BY RequestFields, CopyOfRecord
  DEF TypeOK, CallOK, CopiesLoseNothing, GetSeeded, Starts, Ends
<1> QED
  BY <1>2, <1>3, <1>4

LEMMA CaseNotFoundStep ==
    ASSUME StoreInv, NEW t \in Calls, CaseNotFound(t)
    PROVE StoreInv'
<1> USE DEF StoreInv
<1>1. TypeOK'
  BY RequestFields, AnswerTypes, CopyOfRecord
  DEF TypeOK, Places, CaseNotFound, Starts, Ends
<1>2. ASSUME NEW u \in Calls PROVE CallOK(u)'
  BY RequestFields DEF TypeOK, CallOK, CaseNotFound, Starts, Ends
<1>3. CopiesLoseNothing'
  BY RequestFields, CopyOfRecord
  DEF TypeOK, CallOK, CopiesLoseNothing, CaseNotFound, Starts, Ends
<1> QED
  BY <1>1, <1>2, <1>3

LEMMA ReadForUpdateStep ==
    ASSUME StoreInv, NEW t \in Calls, ReadForUpdate(t)
    PROVE StoreInv'
<1> USE DEF StoreInv
<1>1. request[t].case \in Cases
  BY RequestFields DEF TypeOK, ReadForUpdate, Starts, NoRequest
<1>2. cases[request[t].case] \in Record \cup {Absent}
  BY <1>1 DEF TypeOK
<1>3. TypeOK'
  BY <1>2 DEF TypeOK, Places, ReadForUpdate, Starts, Reaches
<1>4. ASSUME NEW u \in Calls PROVE CallOK(u)'
  BY RequestFields DEF TypeOK, CallOK, ReadForUpdate, Starts, Reaches
<1>5. CopiesLoseNothing'
  BY RequestFields, CopyOfRecord
  DEF TypeOK, CallOK, CopiesLoseNothing, ReadForUpdate, Starts, Reaches
<1> QED
  BY <1>3, <1>4, <1>5

LEMMA StoreUpdatedStep ==
    ASSUME StoreInv, NEW t \in Calls, StoreUpdated(t)
    PROVE StoreInv'
<1> USE DEF StoreInv
<1> DEFINE c == request[t].case
           copy == [current[t] EXCEPT !.status = request[t].status]
<1>1. c \in SeededCases /\ c \in Cases
  BY DisputeCallsAssumption DEF CopiesLoseNothing, StoreUpdated
<1>2. request[t].status \in Statuses
  BY RequestFields DEF TypeOK, CallOK, StoreUpdated, NoRequest
<1>3. current[t] \in Record /\ current[t].rest = c
  BY <1>1 DEF CopiesLoseNothing, StoreUpdated
<1>4. copy = [status |-> request[t].status, rest |-> c]
  BY <1>2, <1>3, CopyOfRecord
<1>5. copy \in Record /\ copy.rest = c
  BY <1>1, <1>2, <1>4 DEF Record
<1>6. cases' = [cases EXCEPT ![c] = copy]
  BY DEF StoreUpdated
<1> HIDE DEF copy
<1>7. TypeOK'
  BY <1>5, <1>6, AnswerTypes DEF TypeOK, Places, StoreUpdated, Ends
<1>8. ASSUME NEW u \in Calls PROVE CallOK(u)'
  BY DEF TypeOK, CallOK, StoreUpdated, Ends
<1>9. CopiesLoseNothing'
  BY <1>1, <1>5, <1>6 DEF TypeOK, CallOK, CopiesLoseNothing, StoreUpdated, Ends
<1> QED
  BY <1>7, <1>8, <1>9

LEMMA CheckForAuditStep ==
    ASSUME StoreInv, NEW t \in Calls, CheckForAudit(t)
    PROVE StoreInv'
<1> USE DEF StoreInv
<1>1. TypeOK'
  BY RequestFields, AnswerTypes, CopyOfRecord
  DEF TypeOK, Places, CheckForAudit, Starts, Reaches
<1>2. ASSUME NEW u \in Calls PROVE CallOK(u)'
  BY RequestFields DEF TypeOK, CallOK, CheckForAudit, Starts, Reaches
<1>3. CopiesLoseNothing'
  BY RequestFields, CopyOfRecord
  DEF TypeOK, CallOK, CopiesLoseNothing, CheckForAudit, Starts, Reaches
<1> QED
  BY <1>1, <1>2, <1>3

LEMMA AppendEntryStep ==
    ASSUME StoreInv, NEW t \in Calls, AppendEntry(t)
    PROVE StoreInv'
<1> USE DEF StoreInv
<1>1. Entry(request[t]) \in [case: Cases, key: Keys]
  BY RequestFields DEF TypeOK, CallOK, AppendEntry, NoRequest
<1>2. auditLog' \in Seq([case: Cases, key: Keys])
  BY <1>1 DEF TypeOK, AppendEntry
<1>3. TypeOK'
  BY <1>2, AnswerTypes DEF TypeOK, Places, AppendEntry, Ends
<1>4. ASSUME NEW u \in Calls PROVE CallOK(u)'
  BY RequestFields DEF TypeOK, CallOK, AppendEntry, Ends
<1>5. CopiesLoseNothing'
  BY RequestFields, CopyOfRecord
  DEF TypeOK, CallOK, CopiesLoseNothing, AppendEntry, Ends
<1> QED
  BY <1>3, <1>4, <1>5

LEMMA ReturnStep ==
    ASSUME StoreInv, NEW t \in Calls, Return(t)
    PROVE StoreInv'
<1> USE DEF StoreInv
<1>1. TypeOK'
  BY RequestFields, AnswerTypes, CopyOfRecord DEF TypeOK, Places, Return
<1>2. ASSUME NEW u \in Calls PROVE CallOK(u)'
  BY RequestFields DEF TypeOK, CallOK, Return
<1>3. CopiesLoseNothing'
  BY RequestFields, CopyOfRecord DEF TypeOK, CallOK, CopiesLoseNothing, Return
<1> QED
  BY <1>1, <1>2, <1>3

LEMMA RestartStep == ASSUME Restart PROVE StoreInv'
<1>1. Seeded \in [Cases -> Record \cup {Absent}]
  BY DisputeCallsAssumption DEF Seeded, Record
<1>2. TypeOK'
  BY <1>1, AnswerTypes DEF Restart, TypeOK, Places
<1>3. ASSUME NEW u \in Calls PROVE CallOK(u)'
  BY <1>2 DEF TypeOK, Restart, CallOK
<1>4. CopiesLoseNothing'
  BY <1>2, DisputeCallsAssumption
  DEF TypeOK, Restart, CopiesLoseNothing, Seeded, Record
<1> QED
  BY <1>2, <1>3, <1>4 DEF StoreInv

LEMMA NextStoreInv == StoreInv /\ [Next]_vars => StoreInv'
<1> SUFFICES ASSUME StoreInv, [Next]_vars PROVE StoreInv'
  OBVIOUS
<1>1. CASE UNCHANGED vars
  BY <1>1 DEF vars, StoreInv, TypeOK, CallOK, CopiesLoseNothing
<1>2. CASE Restart
  BY <1>2, RestartStep
<1>3. ASSUME NEW t \in Calls, NEW req \in Requests, Call(t, req) PROVE StoreInv'
  BY <1>3, CallStep
<1>4. ASSUME NEW t \in Calls,
             Refuse(t) \/ GetCase(t) \/ GetSeeded(t) \/ CaseNotFound(t)
      PROVE StoreInv'
  BY <1>4, RefuseStep, GetCaseStep, GetSeededStep, CaseNotFoundStep
<1>5. ASSUME NEW t \in Calls,
             \/ ReadForUpdate(t) \/ StoreUpdated(t)
             \/ CheckForAudit(t) \/ AppendEntry(t) \/ Return(t)
      PROVE StoreInv'
  BY <1>5, ReadForUpdateStep, StoreUpdatedStep, CheckForAuditStep,
     AppendEntryStep, ReturnStep
<1> QED
  BY <1>1, <1>2, <1>3, <1>4, <1>5 DEF Next

\* StoreInv holds of the server: whatever the worker threads interleave, an
\* update stores a copy that differs from the record in the status only
\* (repository.py:51-55).
THEOREM StoreInvariance == Spec => []StoreInv
  BY InitStoreInv, NextStoreInv, PTL DEF Spec

-----------------------------------------------------------------------------
(* Acknowledged audit entries. *)

LEMMA AuditSetsFinite ==
    ASSUME TypeOK, NEW entry
    PROVE /\ IsFiniteSet(Acknowledged(entry))
          /\ IsFiniteSet(Logged(entry))
          /\ Cardinality(Acknowledged(entry)) \in Nat
          /\ Cardinality(Logged(entry)) \in Nat
<1>1. IsFiniteSet(Acknowledged(entry))
  <2>1. Acknowledged(entry) \subseteq Calls
    BY DEF Acknowledged
  <2> QED
    BY <2>1, DisputeMcpAssumption, FS_Subset
<1>2. IsFiniteSet(Logged(entry))
  <2>1. Len(auditLog) \in Nat /\ DOMAIN auditLog = 1 .. Len(auditLog)
    BY DEF TypeOK
  <2>2. IsFiniteSet(DOMAIN auditLog)
    BY <2>1, FS_Interval
  <2>3. Logged(entry) \subseteq DOMAIN auditLog
    BY DEF Logged
  <2> QED
    BY <2>2, <2>3, FS_Subset
<1> QED
  BY <1>1, <1>2, FS_CardinalityType

\* A step that gives no call an acknowledgement and leaves the log alone.
LEMMA NoNewAcknowledgement ==
    ASSUME StoreInv, StoreInv', AcknowledgedAuditsLogged, auditLog' = auditLog,
           \A u \in Calls : request'[u].tool = "write_audit"
                           /\ answer'[u].outcome = "success"
                => request'[u] = request[u] /\ answer'[u] = answer[u]
    PROVE AcknowledgedAuditsLogged'
<1> SUFFICES ASSUME NEW entry \in [case: Cases, key: Keys]
             PROVE Cardinality(Acknowledged(entry)') <= Cardinality(Logged(entry)')
  BY DEF AcknowledgedAuditsLogged
<1>1. Acknowledged(entry)' \subseteq Acknowledged(entry)
  BY DEF Acknowledged
<1>2. Logged(entry)' = Logged(entry)
  BY DEF Logged
<1>3. /\ IsFiniteSet(Acknowledged(entry))
      /\ Cardinality(Acknowledged(entry)) \in Nat
      /\ Cardinality(Logged(entry)) \in Nat
  BY AuditSetsFinite DEF StoreInv
<1>4. /\ Cardinality(Acknowledged(entry)') \in Nat
      /\ Cardinality(Acknowledged(entry)') <= Cardinality(Acknowledged(entry))
  BY <1>1, <1>3, FS_Subset, FS_CardinalityType
<1>5. Cardinality(Acknowledged(entry)) <= Cardinality(Logged(entry))
  BY DEF AcknowledgedAuditsLogged
<1> QED
  BY <1>2, <1>3, <1>4, <1>5

\* write_audit appends the entry that it acknowledges.
LEMMA AppendEntryLogs ==
    ASSUME StoreInv, StoreInv', AcknowledgedAuditsLogged,
           NEW t \in Calls, AppendEntry(t)
    PROVE AcknowledgedAuditsLogged'
<1> SUFFICES ASSUME NEW entry \in [case: Cases, key: Keys]
             PROVE Cardinality(Acknowledged(entry)') <= Cardinality(Logged(entry)')
  BY DEF AcknowledgedAuditsLogged
<1> DEFINE n == Len(auditLog) + 1
<1>1. /\ auditLog \in Seq([case: Cases, key: Keys])
      /\ Len(auditLog) \in Nat /\ DOMAIN auditLog = 1 .. Len(auditLog)
  BY DEF StoreInv, TypeOK
<1>2. /\ auditLog' = Append(auditLog, Entry(request[t]))
      /\ Entry(request[t]) \in [case: Cases, key: Keys]
  BY RequestFields DEF AppendEntry, StoreInv, TypeOK, CallOK
<1>3. /\ DOMAIN auditLog' = 1 .. n
      /\ auditLog'[n] = Entry(request[t])
      /\ \A i \in DOMAIN auditLog : auditLog'[i] = auditLog[i]
  BY <1>1, <1>2
<1>4. /\ t \notin Acknowledged(entry)
      /\ n \notin Logged(entry)
  BY <1>1 DEF Acknowledged, Logged, AppendEntry, StoreInv, CallOK, NoAnswer
<1>5. /\ IsFiniteSet(Acknowledged(entry)) /\ IsFiniteSet(Logged(entry))
      /\ Cardinality(Acknowledged(entry)) \in Nat
      /\ Cardinality(Logged(entry)) \in Nat
      /\ Cardinality(Acknowledged(entry)) <= Cardinality(Logged(entry))
  BY AuditSetsFinite DEF StoreInv, AcknowledgedAuditsLogged
<1>6. /\ request' = request
      /\ answer' = [answer EXCEPT ![t] = Success(Absent)]
      /\ answer \in [Calls -> Answers]
  BY DEF AppendEntry, Ends, StoreInv, TypeOK
<1>7. CASE Entry(request[t]) = entry
  <2>1. Logged(entry)' = Logged(entry) \cup {n}
    BY <1>1, <1>3, <1>7 DEF Logged
  <2>2. Acknowledged(entry)' \subseteq Acknowledged(entry) \cup {t}
    BY <1>6 DEF Acknowledged
  <2>3. /\ IsFiniteSet(Acknowledged(entry) \cup {t})
        /\ Cardinality(Acknowledged(entry) \cup {t})
             = Cardinality(Acknowledged(entry)) + 1
    BY <1>4, <1>5, FS_AddElement
  <2>4. Cardinality(Logged(entry)') = Cardinality(Logged(entry)) + 1
    BY <2>1, <1>4, <1>5, FS_AddElement
  <2>5. /\ Cardinality(Acknowledged(entry)') \in Nat
        /\ Cardinality(Acknowledged(entry)')
             <= Cardinality(Acknowledged(entry)) + 1
    BY <2>2, <2>3, FS_Subset, FS_CardinalityType
  <2> QED
    BY <1>5, <2>4, <2>5
<1>8. CASE Entry(request[t]) # entry
  <2>1. Logged(entry)' = Logged(entry)
    BY <1>1, <1>3, <1>8 DEF Logged
  <2>2. Acknowledged(entry)' = Acknowledged(entry)
    BY <1>6, <1>8 DEF Acknowledged
  <2> QED
    BY <1>5, <2>1, <2>2
<1> QED
  BY <1>7, <1>8

LEMMA NextAcknowledgedAudits ==
    ASSUME StoreInv, StoreInv', AcknowledgedAuditsLogged, [Next]_vars
    PROVE AcknowledgedAuditsLogged'
<1>1. CASE UNCHANGED vars
  BY <1>1, NoNewAcknowledgement DEF vars
<1>2. CASE Restart
  <2>1. \A entry : Acknowledged(entry)' = {} /\ Logged(entry)' = {}
    BY <1>2 DEF Restart, Acknowledged, Logged, NoAnswer
  <2>2. Cardinality({}) = 0
    BY FS_EmptySet
  <2> QED
    BY <2>1, <2>2 DEF AcknowledgedAuditsLogged
<1>3. ASSUME NEW t \in Calls, NEW req \in Requests, Call(t, req)
      PROVE AcknowledgedAuditsLogged'
  BY <1>3, NoNewAcknowledgement
  DEF Call, StoreInv, TypeOK, CallOK, NoAnswer
<1>4. ASSUME NEW t \in Calls,
             Refuse(t) \/ GetCase(t) \/ GetSeeded(t) \/ CaseNotFound(t)
      PROVE AcknowledgedAuditsLogged'
  <2>1. PICK a : /\ answer' = [answer EXCEPT ![t] = a]
                 /\ request[t].tool = "write_audit" => a.outcome # "success"
    <3> ToolError.outcome # "success" /\ Failure.outcome # "success"
      BY DEF ToolError, Failure
    <3>1. CASE Refuse(t)
      BY <3>1 DEF Refuse, Ends
    <3>2. CASE CaseNotFound(t)
      BY <3>2 DEF CaseNotFound, Ends
    <3>3. CASE GetCase(t)
      BY <3>3 DEF GetCase, Starts, Ends
    <3>4. CASE GetSeeded(t)
      BY <3>4, DisputeCallsAssumption DEF GetSeeded, Starts, Ends
    <3> QED
      BY <1>4, <3>1, <3>2, <3>3, <3>4
  <2>2. request' = request /\ auditLog' = auditLog
    BY <1>4 DEF Refuse, GetCase, GetSeeded, CaseNotFound, Ends
  <2>3. ASSUME NEW u \in Calls,
               request'[u].tool = "write_audit", answer'[u].outcome = "success"
        PROVE request'[u] = request[u] /\ answer'[u] = answer[u]
    <3>1. u # t
      BY <2>1, <2>2, <2>3 DEF StoreInv, TypeOK
    <3> QED
      BY <2>1, <2>2, <3>1 DEF StoreInv, TypeOK
  <2> QED
    BY <2>2, <2>3, NoNewAcknowledgement
<1>5. ASSUME NEW t \in Calls, StoreUpdated(t)
      PROVE AcknowledgedAuditsLogged'
  <2>1. request[t].tool = "update_case"
    BY <1>5 DEF StoreUpdated, StoreInv, CallOK
  <2> QED
    BY <1>5, <2>1, NoNewAcknowledgement DEF StoreUpdated, Ends, StoreInv, TypeOK
<1>6. ASSUME NEW t \in Calls, ReadForUpdate(t) \/ CheckForAudit(t)
      PROVE AcknowledgedAuditsLogged'
  BY <1>6, NoNewAcknowledgement DEF ReadForUpdate, CheckForAudit, Reaches
<1>7. ASSUME NEW t \in Calls, AppendEntry(t)
      PROVE AcknowledgedAuditsLogged'
  BY <1>7, AppendEntryLogs
<1>8. ASSUME NEW t \in Calls, Return(t)
      PROVE AcknowledgedAuditsLogged'
  BY <1>8, NoNewAcknowledgement DEF Return, StoreInv, TypeOK, NoAnswer
<1> QED
  BY <1>1, <1>2, <1>3, <1>4, <1>5, <1>6, <1>7, <1>8 DEF Next

\* AcknowledgedAuditsLogged holds of the server, for any number of callers: no
\* acknowledged audit entry is lost, whatever else the worker threads do.
THEOREM AcknowledgedAudits == Spec => []AcknowledgedAuditsLogged
<1>1. Init => AcknowledgedAuditsLogged
  <2>1. ASSUME Init, NEW entry PROVE Acknowledged(entry) = {} /\ Logged(entry) = {}
    BY <2>1 DEF Init, Acknowledged, Logged, NoAnswer
  <2>2. Cardinality({}) = 0
    BY FS_EmptySet
  <2> QED
    BY <2>1, <2>2 DEF AcknowledgedAuditsLogged
<1>2. StoreInv /\ StoreInv' /\ AcknowledgedAuditsLogged /\ [Next]_vars
        => AcknowledgedAuditsLogged'
  BY NextAcknowledgedAudits
<1> QED
  BY <1>1, <1>2, StoreInvariance, PTL DEF Spec

-----------------------------------------------------------------------------
(* What callers learn. *)

\* An answer holds the case that was asked for, or the rows of the id that was.
AnswerOK(t) ==
    /\ answer[t].record # Absent =>
          /\ request[t].tool = "get_case"
          /\ request[t].case \in SeededCases
          /\ answer[t].record.rest = request[t].case
    /\ answer[t].rows # {} =>
          /\ request[t].tool \in ReadTools
          /\ request[t].id \in DOMAIN Tables[request[t].tool]
          /\ answer[t].rows = Tables[request[t].tool][request[t].id]

LEMMA LookupOK ==
    ASSUME NEW req \in SeedRequest
    PROVE /\ Lookup(req).record = Absent
          /\ Lookup(req).rows # {} => /\ req.id \in DOMAIN Tables[req.tool]
                                     /\ Lookup(req).rows = Tables[req.tool][req.id]
  BY DEF Lookup, Found, ToolError

LEMMA EmptyAnswers ==
    /\ NoAnswer.record = Absent /\ NoAnswer.rows = {}
    /\ ToolError.record = Absent /\ ToolError.rows = {}
    /\ Failure.record = Absent /\ Failure.rows = {}
    /\ \A r : Success(r).record = r /\ Success(r).rows = {}
  BY DEF NoAnswer, ToolError, Failure, Success

LEMMA NextAnswerOK ==
    ASSUME StoreInv, \A t \in Calls : AnswerOK(t), [Next]_vars, NEW t \in Calls
    PROVE AnswerOK(t)'
<1> USE EmptyAnswers DEF AnswerOK
<1>1. CASE request'[t] = request[t] /\ answer'[t] = answer[t]
  BY <1>1
<1>2. CASE answer'[t].record = Absent /\ answer'[t].rows = {}
  BY <1>2
<1>3. CASE GetCase(t)
  <2>1. /\ request[t].tool = "get_case"
        /\ request[t].case \in Cases
    BY <1>3, RequestFields DEF GetCase, Starts, StoreInv, TypeOK, CallOK
  <2>2. request'[t] = request[t]
    BY <1>3 DEF GetCase, Ends
  <2>3. CASE cases[request[t].case] = Absent
    BY <1>2, <1>3, <2>3 DEF GetCase, Ends, StoreInv, TypeOK
  <2>4. CASE cases[request[t].case] # Absent
    <3>1. /\ request[t].case \in SeededCases
          /\ cases[request[t].case].rest = request[t].case
      BY <2>1, <2>4 DEF StoreInv, CopiesLoseNothing
    <3>2. answer'[t] = Success(cases[request[t].case])
      BY <1>3, <2>4 DEF GetCase, Ends, StoreInv, TypeOK
    <3> QED
      BY <2>1, <2>2, <3>1, <3>2
  <2> QED
    BY <2>3, <2>4
<1>4. CASE GetSeeded(t)
  <2>1. /\ request[t].tool \in ReadTools
        /\ request[t] \in SeedRequest
    BY <1>4, RequestFields DEF GetSeeded, Starts, StoreInv, TypeOK, CallOK
  <2>2. request'[t] = request[t] /\ answer'[t] = Lookup(request[t])
    BY <1>4 DEF GetSeeded, Ends, StoreInv, TypeOK
  <2> QED
    BY <2>1, <2>2, LookupOK
<1>5. CASE Restart
  BY <1>2, <1>5 DEF Restart
<1>6. CASE UNCHANGED vars
  BY <1>1, <1>6 DEF vars
<1>7. ASSUME NEW u \in Calls, NEW req \in Requests, Call(u, req)
      PROVE AnswerOK(t)'
  <2>1. CASE u = t
    BY <1>2, <1>7, <2>1 DEF Call, StoreInv, CallOK
  <2>2. CASE u # t
    BY <1>1, <1>7, <2>2 DEF Call, StoreInv, TypeOK
  <2> QED
    BY <2>1, <2>2
<1>8. ASSUME NEW u \in Calls, \/ Refuse(u) \/ CaseNotFound(u) \/ Return(u)
                              \/ StoreUpdated(u) \/ AppendEntry(u)
      PROVE AnswerOK(t)'
  <2>1. CASE u = t
    BY <1>2, <1>8, <2>1
    DEF Refuse, CaseNotFound, Return, StoreUpdated, AppendEntry, Ends,
        StoreInv, TypeOK
  <2>2. CASE u # t
    BY <1>1, <1>8, <2>2
    DEF Refuse, CaseNotFound, Return, StoreUpdated, AppendEntry, Ends,
        StoreInv, TypeOK
  <2> QED
    BY <2>1, <2>2
<1>9. ASSUME NEW u \in Calls, \/ ReadForUpdate(u) \/ CheckForAudit(u)
                              \/ (u # t /\ (GetCase(u) \/ GetSeeded(u)))
      PROVE AnswerOK(t)'
  BY <1>1, <1>9
  DEF ReadForUpdate, CheckForAudit, Reaches, GetCase, GetSeeded, Ends,
      StoreInv, TypeOK
<1> QED
  BY <1>3, <1>4, <1>5, <1>6, <1>7, <1>8, <1>9 DEF Next

\* Answers that hold what was asked for agree as the seed data does.
LEMMA AnswersAgreeAsSeeds ==
    ASSUME SeedsAgree, \A t \in Calls : AnswerOK(t)
    PROVE AnswersAgree
<1>1. ASSUME NEW t \in Calls, NEW row \in Learned(t)
      PROVE row \in Rows \cup CaseRows(CaseTable) /\ Carries(row, AskedFor(t))
  <2>1. CASE answer[t].record = Absent
    <3>1. /\ request[t].tool \in ReadTools
          /\ request[t].id \in DOMAIN Tables[request[t].tool]
          /\ row \in Tables[request[t].tool][request[t].id]
      BY <1>1, <2>1 DEF Learned, AnswerOK
    <3>2. AskedFor(t) = request[t].id
      BY <3>1, DisputeCallsAssumption DEF AskedFor
    <3> QED
      BY <3>1, <3>2 DEF SeedsAgree, AgreesWithTables, Rows
  <2>2. CASE answer[t].record # Absent
    BY <1>1, <2>2 DEF Learned, AnswerOK, AskedFor, SeedsAgree, AgreesWithTables, CaseRows,
      SeededCases
  <2> QED
    BY <2>1, <2>2
<1> QED
  BY <1>1 DEF AnswersAgree, SeedsAgree, AgreesWithTables

\* AnswersAgree holds of the server on any seed data whose rows agree: neither
\* updates nor the interleaving of their threads spoil what callers learn.
THEOREM AnswersAgreement ==
    ASSUME SeedsAgree
    PROVE Spec => []AnswersAgree
<1>1. Init => \A t \in Calls : AnswerOK(t)
  BY EmptyAnswers DEF Init, AnswerOK
<1>2. StoreInv /\ (\A t \in Calls : AnswerOK(t)) /\ [Next]_vars
        => (\A t \in Calls : AnswerOK(t))'
  BY NextAnswerOK
<1>3. (\A t \in Calls : AnswerOK(t)) => AnswersAgree
  BY AnswersAgreeAsSeeds
<1> QED
  BY <1>1, <1>2, <1>3, StoreInvariance, PTL DEF Spec

-----------------------------------------------------------------------------
(* Each step of a worker thread is a step of the store or none. *)

\* Store's copies of the operators of DisputeCalls are the same.
LEMMA SameCalls ==
    /\ Store!Seeded = Seeded
    /\ Store!Requests = Requests
    /\ Store!NoRequest = NoRequest
    /\ Store!NoAnswer = NoAnswer
    /\ Store!ToolError = ToolError
    /\ Store!Failure = Failure
    /\ \A record : Store!Success(record) = Success(record)
    /\ \A req : Store!Valid(req) <=> Valid(req)
    /\ \A req : Store!Entry(req) = Entry(req)
    /\ \A req : Store!Lookup(req) = Lookup(req)
    /\ Store!ReadTools = ReadTools
<1>1. Store!Seeded = Seeded
  BY DEF Seeded, SeededCases, Store!Seeded, Store!SeededCases
<1>2. Store!Requests = Requests
  BY DEF Requests, GetCaseRequest, UpdateCaseStatusRequest,
         CreateAuditEntryRequest, SeedRequest, ReadTools, Store!Requests,
         Store!GetCaseRequest, Store!SeedRequest, Store!ReadTools,
         Store!UpdateCaseStatusRequest, Store!CreateAuditEntryRequest
<1>3. /\ Store!NoRequest = NoRequest
      /\ Store!NoAnswer = NoAnswer
      /\ Store!ToolError = ToolError
      /\ Store!Failure = Failure
      /\ \A record : Store!Success(record) = Success(record)
  BY DEF NoRequest, NoAnswer, ToolError, Failure, Success, Store!NoRequest,
         Store!NoAnswer, Store!ToolError, Store!Failure, Store!Success
<1>4. \A req : Store!Valid(req) <=> Valid(req)
  BY DEF Valid, Store!Valid
<1>5. \A req : Store!Entry(req) = Entry(req)
  BY DEF Entry, Store!Entry
<1>6. \A req : Store!Lookup(req) = Lookup(req)
  BY <1>3 DEF Lookup, Found, Store!Lookup, Store!Found
<1>7. Store!ReadTools = ReadTools
  BY DEF ReadTools, Store!ReadTools
<1> QED
  BY <1>1, <1>2, <1>3, <1>4, <1>5, <1>6, <1>7

LEMMA InitMaps == Init => Store!Init
  BY SameCalls DEF Init, Caller, Store!Init

LEMMA RestartMaps == Restart => Store!Restart
  BY SameCalls DEF Restart, Caller, Store!Restart

LEMMA CallerFollows ==
    ASSUME TypeOK, NEW t \in Calls, NEW p \in Places,
           place' = [place EXCEPT ![t] = p]
    PROVE Caller' = [Caller EXCEPT ![t] =
                        IF p = "free" THEN "free"
                        ELSE IF p = "answered" THEN "done" ELSE "open"]
  BY DEF TypeOK, Caller

LEMMA CallerOpen ==
    ASSUME NEW t \in Calls
    PROVE /\ place[t] \in {"called", "read", "checked"} => Caller[t] = "open"
          /\ place[t] = "free" => Caller[t] = "free"
          /\ place[t] = "answered" => Caller[t] = "done"
  BY DEF Caller

LEMMA CallMaps ==
    ASSUME StoreInv, NEW t \in Calls, NEW req \in Requests, Call(t, req)
    PROVE Store!Invoke(t, req)
<1>1. Caller' = [Caller EXCEPT ![t] = "open"]
  BY CallerFollows DEF StoreInv, TypeOK, Places, Call
<1> QED
  BY <1>1, CallerOpen, SameCalls DEF Call, Store!Invoke

LEMMA RefuseMaps ==
    ASSUME StoreInv, NEW t \in Calls, Refuse(t)
    PROVE Store!Refuse(t)
<1>1. Caller' = [Caller EXCEPT ![t] = "done"]
  BY CallerFollows DEF StoreInv, TypeOK, Places, Refuse, Ends
<1> QED
  BY <1>1, CallerOpen, SameCalls DEF Refuse, Ends, Store!Refuse, Store!Answer

LEMMA GetCaseMaps ==
    ASSUME StoreInv, NEW t \in Calls, GetCase(t)
    PROVE Store!GetCase(t)
<1>1. Caller' = [Caller EXCEPT ![t] = "done"]
  BY CallerFollows DEF StoreInv, TypeOK, Places, GetCase, Starts, Ends
<1> QED
  BY <1>1, CallerOpen, SameCalls
  DEF GetCase, Starts, Ends, Store!GetCase, Store!Asks, Store!Answer

LEMMA GetSeededMaps ==
    ASSUME StoreInv, NEW t \in Calls, GetSeeded(t)
    PROVE Store!GetSeeded(t)
<1>1. Caller' = [Caller EXCEPT ![t] = "done"]
  BY CallerFollows DEF StoreInv, TypeOK, Places, GetSeeded, Starts, Ends
<1> QED
  BY <1>1, CallerOpen, SameCalls
  DEF GetSeeded, Starts, Ends, Store!GetSeeded, Store!Asks, Store!Answer

LEMMA CaseNotFoundMaps ==
    ASSUME StoreInv, NEW t \in Calls, CaseNotFound(t)
    PROVE Store!CaseNotFound(t)
<1>1. Caller' = [Caller EXCEPT ![t] = "done"]
  BY CallerFollows DEF StoreInv, TypeOK, Places, CaseNotFound, Starts, Ends
<1> QED
  BY <1>1, CallerOpen, SameCalls
  DEF CaseNotFound, Starts, Ends, Store!CaseNotFound, Store!Asks, Store!Answer

LEMMA AppendEntryMaps ==
    ASSUME StoreInv, NEW t \in Calls, AppendEntry(t)
    PROVE Store!WriteAudit(t)
<1>1. Caller' = [Caller EXCEPT ![t] = "done"]
  BY CallerFollows DEF StoreInv, TypeOK, Places, AppendEntry, Ends
<1>2. cases[request[t].case] \in Record
  BY DisputeCallsAssumption DEF StoreInv, CopiesLoseNothing, AppendEntry
<1>3. cases[request[t].case] # Absent
  BY <1>2, DisputeCallsAssumption
<1>4. Store!Asks(t, "write_audit")
  BY CallerOpen, SameCalls DEF StoreInv, CallOK, AppendEntry, Store!Asks
<1>5. Store!Answer(t, Success(Absent))
  BY <1>1 DEF AppendEntry, Ends, Store!Answer
<1> QED
  BY <1>3, <1>4, <1>5, SameCalls DEF AppendEntry, Store!WriteAudit

LEMMA ReturnMaps ==
    ASSUME StoreInv, NEW t \in Calls, Return(t)
    PROVE Store!Return(t)
<1>1. Caller' = [Caller EXCEPT ![t] = "free"]
  BY CallerFollows DEF StoreInv, TypeOK, Places, Return
<1> QED
  BY <1>1, CallerOpen, SameCalls DEF Return, Store!Return

LEMMA StoreUpdatedMaps ==
    ASSUME StoreInv, NEW t \in Calls, StoreUpdated(t)
    PROVE Store!UpdateCase(t)
<1> DEFINE c == request[t].case
<1>1. Caller' = [Caller EXCEPT ![t] = "done"]
  BY CallerFollows DEF StoreInv, TypeOK, Places, StoreUpdated, Ends
<1>2. c \in SeededCases /\ c \in Cases
  BY DisputeCallsAssumption DEF StoreInv, CopiesLoseNothing, StoreUpdated
<1>3. request[t].status \in Statuses
  BY RequestFields DEF StoreInv, TypeOK, CallOK, StoreUpdated, NoRequest
<1>4. /\ cases[c] \in Record
      /\ current[t] \in Record
      /\ current[t].rest = cases[c].rest
  BY <1>2 DEF StoreInv, CopiesLoseNothing, StoreUpdated
<1>5. [current[t] EXCEPT !.status = request[t].status]
          = [cases[c] EXCEPT !.status = request[t].status]
  <2>1. [current[t] EXCEPT !.status = request[t].status]
            = [status |-> request[t].status, rest |-> current[t].rest]
    BY ONLY <1>3, <1>4, CopyOfRecord
  <2>2. [cases[c] EXCEPT !.status = request[t].status]
            = [status |-> request[t].status, rest |-> cases[c].rest]
    BY ONLY <1>3, <1>4, CopyOfRecord
  <2>3. QED
    BY ONLY <1>4, <2>1, <2>2
<1>6. cases' = [cases EXCEPT ![c].status = request[t].status]
  BY <1>5 DEF StoreUpdated
<1>7. cases[c] # Absent
  BY <1>4, DisputeCallsAssumption
<1>8. Store!Asks(t, "update_case")
  BY CallerOpen, SameCalls DEF StoreInv, CallOK, StoreUpdated, Store!Asks
<1>9. Store!Answer(t, Success(Absent)) /\ UNCHANGED auditLog
  BY <1>1, SameCalls DEF StoreUpdated, Ends, Store!Answer
<1> QED
  BY <1>6, <1>7, <1>8, <1>9, SameCalls DEF Store!UpdateCase

\* The first steps of the writes: the store does not see them.
LEMMA FirstStepsStutter ==
    ASSUME StoreInv, NEW t \in Calls, ReadForUpdate(t) \/ CheckForAudit(t)
    PROVE UNCHANGED Store!vars
<1>1. \E p \in {"read", "checked"} : /\ place[t] = "called"
                                     /\ place' = [place EXCEPT ![t] = p]
  BY DEF ReadForUpdate, CheckForAudit, Starts, Reaches
<1>2. UNCHANGED Caller
  BY <1>1 DEF StoreInv, TypeOK, Caller
<1> QED
  BY <1>2 DEF ReadForUpdate, CheckForAudit, Reaches, Store!vars

LEMMA NextMaps == StoreInv /\ [Next]_vars => [Store!Next]_(Store!vars)
<1> SUFFICES ASSUME StoreInv, [Next]_vars PROVE [Store!Next]_(Store!vars)
  OBVIOUS
<1>1. CASE UNCHANGED vars
  BY <1>1 DEF vars, Caller, Store!vars
<1>2. CASE Restart
  BY <1>2, RestartMaps DEF Store!Next
<1>3. ASSUME NEW t \in Calls, NEW req \in Requests, Call(t, req) PROVE Store!Next
  BY <1>3, CallMaps, SameCalls DEF Store!Next
<1>4. ASSUME NEW t \in Calls,
             Refuse(t) \/ GetCase(t) \/ GetSeeded(t) \/ CaseNotFound(t)
      PROVE Store!Next
  BY <1>4, RefuseMaps, GetCaseMaps, GetSeededMaps, CaseNotFoundMaps
  DEF Store!Next
<1>5. ASSUME NEW t \in Calls, StoreUpdated(t) \/ AppendEntry(t) \/ Return(t)
      PROVE Store!Next
  BY <1>5, StoreUpdatedMaps, AppendEntryMaps, ReturnMaps DEF Store!Next
<1>6. ASSUME NEW t \in Calls, ReadForUpdate(t) \/ CheckForAudit(t)
      PROVE UNCHANGED Store!vars
  BY <1>6, FirstStepsStutter
<1> QED
  BY <1>1, <1>2, <1>3, <1>4, <1>5, <1>6 DEF Next

\* The server implements the atomic store: the tool that updates a case takes
\* effect when it stores the copy, the one that writes the audit log when it
\* appends, although neither holds a lock (repository.py:51-70).
THEOREM Refinement == Spec => ImplementsDisputeStore
  BY InitMaps, NextMaps, StoreInvariance, PTL
  DEF Spec, ImplementsDisputeStore, Store!Spec
=============================================================================
