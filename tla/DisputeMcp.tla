----------------------------- MODULE DisputeMcp -----------------------------
(***************************************************************************)
(* dispute-mcp-server.  FastMCP runs a synchronous tool in a worker thread *)
(* and the repository has no lock, so the tools of two callers interleave  *)
(* between any two accesses to its dictionary and its list, each of which  *)
(* the interpreter makes atomic.  update_case reads a record and stores a  *)
(* changed copy; write_audit looks a case up and appends an entry.  The    *)
(* process may end at any moment, with everything it holds.                *)
(***************************************************************************)
EXTENDS DisputeCalls, FiniteSets, Naturals, Sequences

CONSTANT MaxAudit   \* bound on the audit log
ASSUME DisputeMcpAssumption == MaxAudit \in Nat /\ IsFiniteSet(Calls)

VARIABLES cases,      \* DisputeRepository._cases
          auditLog,   \* DisputeRepository._audit_log
          place,      \* place[t]: where call t stands
          request,    \* request[t]: the arguments of call t
          current,    \* current[t]: the record that call t is about to replace
          answer      \* answer[t]: what the tool of call t returns or raises

vars == <<cases, auditLog, place, request, current, answer>>

Places == {"free", "called", "read", "checked", "answered"}

Init ==
    /\ cases = Seeded
    /\ auditLog = <<>>
    /\ place = [t \in Calls |-> "free"]
    /\ request = [t \in Calls |-> NoRequest]
    /\ current = [t \in Calls |-> Absent]
    /\ answer = [t \in Calls |-> NoAnswer]

-----------------------------------------------------------------------------
(* The life of a call. *)

Call(t, req) ==
    /\ place[t] = "free"
    /\ place' = [place EXCEPT ![t] = "called"]
    /\ request' = [request EXCEPT ![t] = req]
    /\ UNCHANGED <<cases, auditLog, current, answer>>

\* The tool of call t is at its first statement, with arguments that validate.
Starts(t, tool) ==
    /\ place[t] = "called"
    /\ request[t].tool = tool
    /\ Valid(request[t])

\* Call t gets on to p.
Reaches(t, p) ==
    /\ place' = [place EXCEPT ![t] = p]
    /\ UNCHANGED <<request, answer>>

\* The tool of call t ends with answer a; its local variables are gone.
Ends(t, a) ==
    /\ place' = [place EXCEPT ![t] = "answered"]
    /\ answer' = [answer EXCEPT ![t] = a]
    /\ current' = [current EXCEPT ![t] = Absent]
    /\ UNCHANGED request

Return(t) ==
    /\ place[t] = "answered"
    /\ place' = [place EXCEPT ![t] = "free"]
    /\ request' = [request EXCEPT ![t] = NoRequest]
    /\ answer' = [answer EXCEPT ![t] = NoAnswer]
    /\ UNCHANGED <<cases, auditLog, current>>

-----------------------------------------------------------------------------
(* The tools. *)

\* The arguments do not validate: the tool does not run.
Refuse(t) ==
    /\ place[t] = "called"
    /\ ~Valid(request[t])
    /\ Ends(t, ToolError)
    /\ UNCHANGED <<cases, auditLog>>

GetCase(t) ==
    LET record == cases[request[t].case]
    IN /\ Starts(t, "get_case")
       /\ Ends(t, IF record = Absent THEN ToolError ELSE Success(record))
       /\ UNCHANGED <<cases, auditLog>>

GetSeeded(t) ==
    /\ \E tool \in ReadTools : Starts(t, tool)
    /\ Ends(t, Lookup(request[t]))
    /\ UNCHANGED <<cases, auditLog>>

\* The case of a write does not exist: NotFoundError becomes a failure.
CaseNotFound(t) ==
    /\ \E tool \in {"update_case", "write_audit"} : Starts(t, tool)
    /\ cases[request[t].case] = Absent
    /\ Ends(t, Failure)
    /\ UNCHANGED <<cases, auditLog>>

\* Wrong on purpose: the case is not looked for.
ReadAnything(t) ==
    /\ Starts(t, "update_case")
    /\ current' = [current EXCEPT ![t] = cases[request[t].case]]
    /\ Reaches(t, "read")
    /\ UNCHANGED <<cases, auditLog>>

\* Wrong on purpose: the record is kept where all threads see it.
ReadIntoShared(t) ==
    /\ Starts(t, "update_case")
    /\ cases[request[t].case] # Absent
    /\ current' = [u \in Calls |-> cases[request[t].case]]
    /\ Reaches(t, "read")
    /\ UNCHANGED <<cases, auditLog>>

ReadForUpdate(t) ==
    /\ Starts(t, "update_case")
    /\ cases[request[t].case] # Absent
    /\ current' = [current EXCEPT ![t] = cases[request[t].case]]
    /\ Reaches(t, "read")
    /\ UNCHANGED <<cases, auditLog>>

\* Wrong on purpose: stores only if nobody else has, and does not try again.
StoreIfUnchanged(t) ==
    LET c == request[t].case
    IN /\ place[t] = "read"
       /\ cases' = [cases EXCEPT ![c] = IF @ = current[t]
                       THEN [current[t] EXCEPT !.status = request[t].status] ELSE @]
       /\ Ends(t, Success(Absent))
       /\ UNCHANGED auditLog

StoreUpdated(t) ==
    LET c == request[t].case
    IN /\ place[t] = "read"
       /\ cases' = [cases EXCEPT ![c] =
                       [current[t] EXCEPT !.status = request[t].status]]
       /\ Ends(t, Success(Absent))
       /\ UNCHANGED auditLog

CheckForAudit(t) ==
    /\ Starts(t, "write_audit")
    /\ cases[request[t].case] # Absent
    /\ Reaches(t, "checked")
    /\ UNCHANGED <<cases, auditLog, current>>

\* Wrong on purpose: takes a call for a retry if its key was seen, for any case.
AppendOncePerKey(t) ==
    /\ place[t] = "checked"
    /\ Len(auditLog) < MaxAudit
    /\ auditLog' = IF \E i \in DOMAIN auditLog : auditLog[i].key = request[t].key
                   THEN auditLog ELSE Append(auditLog, Entry(request[t]))
    /\ Ends(t, Success(Absent))
    /\ UNCHANGED cases

AppendEntry(t) ==
    /\ place[t] = "checked"
    /\ Len(auditLog) < MaxAudit
    /\ auditLog' = Append(auditLog, Entry(request[t]))
    /\ Ends(t, Success(Absent))
    /\ UNCHANGED cases

\* A new process starts from the seed data.
Restart ==
    /\ cases' = Seeded
    /\ auditLog' = <<>>
    /\ place' = [t \in Calls |-> "free"]
    /\ request' = [t \in Calls |-> NoRequest]
    /\ current' = [t \in Calls |-> Absent]
    /\ answer' = [t \in Calls |-> NoAnswer]

Next ==
    \/ \E t \in Calls :
        \/ \E req \in Requests : Call(t, req)
        \/ Refuse(t) \/ GetCase(t) \/ GetSeeded(t) \/ CaseNotFound(t)
        \/ ReadForUpdate(t) \/ StoreUpdated(t)
        \/ CheckForAudit(t) \/ AppendEntry(t) \/ Return(t)
    \/ Restart

Spec == Init /\ [][Next]_vars

-----------------------------------------------------------------------------
TypeOK ==
    /\ cases \in [Cases -> Record \cup {Absent}]
    /\ auditLog \in Seq([case: Cases, key: Keys])
    /\ place \in [Calls -> Places]
    /\ request \in [Calls -> Requests \cup {NoRequest}]
    /\ current \in [Calls -> Record \cup {Absent}]
    /\ answer \in [Calls -> Answers]

\* A call is where its tool can be, with arguments that validated; a tool about
\* to store has a record.
CallOK(t) ==
    /\ place[t] = "free" <=> request[t] = NoRequest
    /\ place[t] \in {"free", "called", "read", "checked"} => answer[t] = NoAnswer
    /\ place[t] = "read" => request[t].tool = "update_case"
    /\ place[t] = "checked" => request[t].tool = "write_audit"
    /\ place[t] \in {"read", "checked"} => Valid(request[t])

\* The cases there are remain the seeded ones, and what a tool read of a case
\* differs from what the repository holds, whoever wrote meanwhile, at most in
\* the status it is about to overwrite: storing the copy loses nothing.
CopiesLoseNothing ==
    /\ \A c \in Cases :
        IF c \in SeededCases THEN cases[c] \in Record /\ cases[c].rest = c
                             ELSE cases[c] = Absent
    /\ \A t \in Calls : place[t] \in {"read", "checked"} =>
                            request[t].case \in SeededCases
    /\ \A t \in Calls : place[t] = "read" =>
            current[t] \in Record /\ current[t].rest = cases[request[t].case].rest

\* The inductive invariant: types, every call where it can be, and no update
\* about to undo anything but the status it sets (repository.py:51-55).
StoreInv == TypeOK /\ (\A t \in Calls : CallOK(t)) /\ CopiesLoseNothing

Acknowledged(entry) == {t \in Calls : /\ request[t].tool = "write_audit"
                                      /\ Entry(request[t]) = entry
                                      /\ answer[t].outcome = "success"}
Logged(entry) == {i \in DOMAIN auditLog : auditLog[i] = entry}

\* Every audit entry that was acknowledged is in the log: there are at least as
\* many entries of a case and key as calls that hold a success for them, also if
\* some of them are retries of others (write_audit, case_tools.py:50-70).
AcknowledgedAuditsLogged ==
    \A entry \in [case: Cases, key: Keys] :
        Cardinality(Acknowledged(entry)) <= Cardinality(Logged(entry))

\* What the caller of t learns from its answer.
Learned(t) == IF answer[t].record = Absent THEN answer[t].rows
              ELSE {CaseTable[answer[t].record.rest]}
AskedFor(t) ==
    IF request[t].tool = "get_case" THEN request[t].case ELSE request[t].id

\* Rows about one case, or about one transaction, agree in all they share.
SameMatter(row1, row2) ==
    \E key \in {"case_id", "transaction_id"} \cap DOMAIN row1 \cap DOMAIN row2 :
        row1[key] = row2[key]
Agree(row1, row2) ==
    SameMatter(row1, row2) =>
        \A field \in DOMAIN row1 \cap DOMAIN row2 : row1[field] = row2[field]
Carries(row, id) ==
    \E field \in DOMAIN row \cap {"case_id", "customer_id", "transaction_id"} :
        row[field] = id

\* The seed data: a row carries the id it is filed under, and rows agree.
CaseRows(table) == {table[c] : c \in DOMAIN table}
AgreesWithTables(table) ==
    /\ \A c \in DOMAIN table : Carries(table[c], c)
    /\ \A tool \in ReadTools : \A id \in DOMAIN Tables[tool] :
            \A row \in Tables[tool][id] : Carries(row, id)
    /\ \A row1, row2 \in Rows \cup CaseRows(table) : Agree(row1, row2)
SeedsAgree == AgreesWithTables(CaseTable)

\* What callers learn of a case fits together, whichever tools they learn it
\* from and whoever updates it meanwhile: every row carries the id it was asked
\* for, and rows about one case or one transaction name the same customer,
\* merchant and amount (seed_data.py, repository.py:45-128).
AnswersAgree ==
    /\ \A t \in Calls : \A row \in Learned(t) : Carries(row, AskedFor(t))
    /\ \A t, u \in Calls :
            \A row1 \in Learned(t), row2 \in Learned(u) : Agree(row1, row2)

\* Where the caller of call t stands, as the store sees it.
Caller == [t \in Calls |-> IF place[t] = "free" THEN "free"
                          ELSE IF place[t] = "answered" THEN "done" ELSE "open"]

Store == INSTANCE DisputeStore WITH caller <- Caller

\* Each tool call takes effect in one step between its arrival and its answer:
\* the missing lock costs nothing as long as status is the one mutable field.
ImplementsDisputeStore == Store!Spec
=============================================================================
