----------------------------- MODULE DisputeCalls -----------------------------
(***************************************************************************)
(* The tool calls of dispute-mcp-server: what a caller sends, what it is   *)
(* answered, and the records behind.  Of a case the model keeps the        *)
(* status, the one field that tools change, and the rest of the record as  *)
(* its key in the seed data.  The tables that the tools of the             *)
(* transaction, customer and merchant groups read are constant.            *)
(***************************************************************************)
CONSTANTS Cases,         \* case ids a caller may name
          CaseTable,     \* the seeded cases, by id
          Ids,           \* transaction, customer and case ids a caller may name
          Tables,        \* Tables[tool][id]: the rows that a read tool answers
          Statuses,      \* values of a case's status
          SeedStatus,
          Keys,          \* idempotency keys
          BlankKey,      \* a key of blanks only
          Absent,        \* no record
          Calls          \* the callers, each with one call at a time

SeededCases == DOMAIN CaseTable
ReadTools == DOMAIN Tables
Rows == UNION {UNION {Tables[tool][id] : id \in DOMAIN Tables[tool]} :
                   tool \in ReadTools}

Record == [status: Statuses, rest: SeededCases]
Seeded == [c \in Cases |-> IF c \in SeededCases
                           THEN [status |-> SeedStatus, rest |-> c] ELSE Absent]

ASSUME DisputeCallsAssumption ==
    /\ SeededCases \subseteq Cases
    /\ SeedStatus \in Statuses
    /\ BlankKey \notin Keys
    /\ Absent \notin Record
    /\ ReadTools \cap {"none", "get_case", "update_case", "write_audit"} = {}

\* Requests, with the arguments the tools take.
GetCaseRequest == [tool: {"get_case"}, case: Cases]
UpdateCaseStatusRequest ==
    [tool: {"update_case"}, case: Cases, status: Statuses,
     key: Keys \cup {BlankKey}]
CreateAuditEntryRequest ==
    [tool: {"write_audit"}, case: Cases, key: Keys \cup {BlankKey}]
SeedRequest == [tool: ReadTools, id: Ids]
Requests == GetCaseRequest \cup UpdateCaseStatusRequest
                \cup CreateAuditEntryRequest \cup SeedRequest
NoRequest == [tool |-> "none"]

\* McpWriteRequestBase: a write needs a key.
Valid(req) == req.tool \in {"update_case", "write_audit"} => req.key # BlankKey

\* A tool answers, with a success or with the failure of an unknown id, or the
\* call is an error: a request that does not validate, or an id a read misses.
Success(record) == [outcome |-> "success", record |-> record, rows |-> {}]
Found(rows) == [outcome |-> "success", record |-> Absent, rows |-> rows]
Failure == [outcome |-> "failure", record |-> Absent, rows |-> {}]
ToolError == [outcome |-> "error", record |-> Absent, rows |-> {}]
NoAnswer == [outcome |-> "none", record |-> Absent, rows |-> {}]
Answers == [outcome: {"none", "success", "failure", "error"},
            record: Record \cup {Absent}, rows: SUBSET Rows]

\* The lookup of a read tool: NotFoundError reaches the caller as a ToolError.
Lookup(req) == IF req.id \in DOMAIN Tables[req.tool]
               THEN Found(Tables[req.tool][req.id]) ELSE ToolError

Entry(req) == [case |-> req.case, key |-> req.key]
=============================================================================
