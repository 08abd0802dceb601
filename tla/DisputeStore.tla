---------------------------- MODULE DisputeStore ----------------------------
(***************************************************************************)
(* What dispute-mcp-server promises the callers of its tools: a call takes *)
(* effect in one step between its arrival and its answer.  DisputeMcp is   *)
(* the server as it is, with tools that run in worker threads on a         *)
(* repository without a lock, and implements this specification.           *)
(***************************************************************************)
EXTENDS DisputeCalls, Sequences

VARIABLES cases,      \* DisputeRepository._cases
          auditLog,   \* DisputeRepository._audit_log
          caller,     \* caller[t]: "free", "open" (no effect yet) or "done"
          request,    \* request[t]: the request of call t
          answer      \* answer[t]: its answer

vars == <<cases, auditLog, caller, request, answer>>

Init ==
    /\ cases = Seeded
    /\ auditLog = <<>>
    /\ caller = [t \in Calls |-> "free"]
    /\ request = [t \in Calls |-> NoRequest]
    /\ answer = [t \in Calls |-> NoAnswer]

-----------------------------------------------------------------------------
Invoke(t, req) ==
    /\ caller[t] = "free"
    /\ caller' = [caller EXCEPT ![t] = "open"]
    /\ request' = [request EXCEPT ![t] = req]
    /\ UNCHANGED <<cases, auditLog, answer>>

\* Call t asks for a tool, with arguments that validate.
Asks(t, tool) ==
    /\ caller[t] = "open"
    /\ request[t].tool = tool
    /\ Valid(request[t])

\* Call t is answered with a.
Answer(t, a) ==
    /\ caller' = [caller EXCEPT ![t] = "done"]
    /\ answer' = [answer EXCEPT ![t] = a]
    /\ UNCHANGED request

Refuse(t) ==
    /\ caller[t] = "open"
    /\ ~Valid(request[t])
    /\ Answer(t, ToolError)
    /\ UNCHANGED <<cases, auditLog>>

GetCase(t) ==
    LET record == cases[request[t].case]
    IN /\ Asks(t, "get_case")
       /\ Answer(t, IF record = Absent THEN ToolError ELSE Success(record))
       /\ UNCHANGED <<cases, auditLog>>

UpdateCase(t) ==
    LET c == request[t].case
    IN /\ Asks(t, "update_case")
       /\ cases[c] # Absent
       /\ Answer(t, Success(Absent))
       /\ cases' = [cases EXCEPT ![c].status = request[t].status]
       /\ UNCHANGED auditLog

WriteAudit(t) ==
    /\ Asks(t, "write_audit")
    /\ cases[request[t].case] # Absent
    /\ Answer(t, Success(Absent))
    /\ auditLog' = Append(auditLog, Entry(request[t]))
    /\ UNCHANGED cases

\* The two writes of a case that does not exist.
CaseNotFound(t) ==
    /\ \E tool \in {"update_case", "write_audit"} : Asks(t, tool)
    /\ cases[request[t].case] = Absent
    /\ Answer(t, Failure)
    /\ UNCHANGED <<cases, auditLog>>

GetSeeded(t) ==
    /\ \E tool \in ReadTools : Asks(t, tool)
    /\ Answer(t, Lookup(request[t]))
    /\ UNCHANGED <<cases, auditLog>>

Return(t) ==
    /\ caller[t] = "done"
    /\ caller' = [caller EXCEPT ![t] = "free"]
    /\ request' = [request EXCEPT ![t] = NoRequest]
    /\ answer' = [answer EXCEPT ![t] = NoAnswer]
    /\ UNCHANGED <<cases, auditLog>>

\* The store lives in memory: a new process starts from the seed data, and the
\* calls of the old one are lost.
Restart ==
    /\ cases' = Seeded
    /\ auditLog' = <<>>
    /\ caller' = [t \in Calls |-> "free"]
    /\ request' = [t \in Calls |-> NoRequest]
    /\ answer' = [t \in Calls |-> NoAnswer]

Next ==
    \/ \E t \in Calls :
        \/ \E req \in Requests : Invoke(t, req)
        \/ Refuse(t) \/ GetCase(t) \/ UpdateCase(t) \/ WriteAudit(t)
        \/ CaseNotFound(t) \/ GetSeeded(t) \/ Return(t)
    \/ Restart

Spec == Init /\ [][Next]_vars
=============================================================================
