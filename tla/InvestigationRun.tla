-------------------------- MODULE InvestigationRun --------------------------
(***************************************************************************)
(* transaction-agent: POST /agent/run and POST /intake.  A request names a *)
(* case; the case and its transaction are looked up before the answer      *)
(* begins, so that an unknown case can still be refused; then              *)
(* run_investigation streams a fixed sequence of AG-UI events, in the      *)
(* middle of which it waits for the language model's explanation.  An      *)
(* exception there, with the status line long sent, can only cut the       *)
(* stream.                                                                 *)
(*                                                                         *)
(* A run is one request.  The stream is the HTTP response: the events the  *)
(* client has not read yet, in order.  An event counts as sent when it is  *)
(* at the client's host.  Runs share nothing but their process.            *)
(***************************************************************************)
EXTENDS AgUiStream

CONSTANTS Cases,             \* case ids a request may name
          CaseTable,         \* the cases of dispute-mcp-server, by id
          TransactionTable,  \* what get_transaction answers, by id
          BlankCase          \* no case id, or one of blanks only

KnownCases == DOMAIN CaseTable

ASSUME InvestigationRunAssumption ==
    /\ KnownCases \subseteq Cases
    /\ BlankCase \notin Cases

VARIABLES runCase,      \* runCase[r]: the case run r is about
          transaction,  \* transaction[r]: the rows of its transaction
          unnamed,      \* the runs whose client gave them a blank run id
          status,       \* status[r], see Statuses
          emitted,      \* emitted[r]: how many events of Protocol have been sent
          llm,          \* llm[r]: the explanation: "none", "asked" or "given"
          gone,         \* the runs whose client has closed the connection
          stream        \* stream[r]: events sent and not yet read

runVars == <<runCase, transaction, unnamed, status, emitted, llm, gone, stream>>

Statuses == {"unused",       \* no request yet
             "finding_case", "finding_transaction",  \* in dispute-mcp-server
             "refused",      \* answered 404 or 422, no stream
             "failed",       \* answered 500, no stream
             "streaming",    \* answered 200, events follow
             "finished",     \* the stream is complete
             "broken",       \* the stream was cut by an exception
             "cancelled",    \* the generator was cancelled
             "lost"}         \* the process ended before the run

RunTypeOK ==
    /\ runCase \in [Runs -> Cases \cup {BlankCase}]
    /\ unnamed \subseteq Runs
    /\ status \in [Runs -> Statuses]
    /\ emitted \in [Runs -> 0 .. Len(Protocol)]
    /\ llm \in [Runs -> {"none", "asked", "given"}]
    /\ gone \subseteq Runs

RunInit ==
    /\ runCase = [r \in Runs |-> BlankCase]
    /\ transaction = [r \in Runs |-> {}]
    /\ unnamed = {}
    /\ status = [r \in Runs |-> "unused"]
    /\ emitted = [r \in Runs |-> 0]
    /\ llm = [r \in Runs |-> "none"]
    /\ gone = {}
    /\ stream = [r \in Runs |-> <<>>]

Becomes(r, s) == status' = [status EXCEPT ![r] = s]

-----------------------------------------------------------------------------
(* Before the answer. *)

\* /agent/run: without a case id a request is refused at once (422).  Nothing
\* looks at the run id the client chose.
AgentRun(r, c, blankId) ==
    /\ status[r] = "unused"
    /\ runCase' = [runCase EXCEPT ![r] = c]
    /\ unnamed' = IF blankId THEN unnamed \cup {r} ELSE unnamed
    /\ Becomes(r, IF c = BlankCase THEN "refused" ELSE "finding_case")
    /\ UNCHANGED <<transaction, emitted, llm, gone, stream>>

\* /intake makes the run id itself, and a case id of blanks is looked up.
Intake(r, c) ==
    /\ status[r] = "unused"
    /\ runCase' = [runCase EXCEPT ![r] = c]
    /\ Becomes(r, "finding_case")
    /\ UNCHANGED <<transaction, unnamed, emitted, llm, gone, stream>>

\* Wrong on purpose: the stream begins whether the case exists or not.
LookupIgnored(r) ==
    /\ status[r] = "finding_case"
    /\ Becomes(r, "streaming")
    /\ UNCHANGED <<runCase, transaction, unnamed, emitted, llm, gone, stream>>

\* get_case returns, or raises ToolError, which becomes a 404.
FindCase(r) ==
    /\ status[r] = "finding_case"
    /\ Becomes(r, IF runCase[r] \in KnownCases THEN "finding_transaction"
                                               ELSE "refused")
    /\ UNCHANGED <<runCase, transaction, unnamed, emitted, llm, gone, stream>>

\* get_transaction returns, or raises ToolError, which nothing expects.
FindTransaction(r) ==
    LET id == CaseTable[runCase[r]].transaction_id
    IN /\ status[r] = "finding_transaction"
       /\ IF id \in DOMAIN TransactionTable
          THEN /\ transaction' = [transaction EXCEPT ![r] = TransactionTable[id]]
               /\ Becomes(r, "streaming")
          ELSE UNCHANGED transaction /\ Becomes(r, "failed")
       /\ UNCHANGED <<runCase, unnamed, emitted, llm, gone, stream>>

-----------------------------------------------------------------------------
(* The answer: run_investigation. *)

\* The generator yields its next event; after the last one it returns.
Send(r) ==
    LET next == emitted[r] + 1
    IN /\ emitted' = [emitted EXCEPT ![r] = next]
       /\ stream' = IF r \in gone THEN stream
                    ELSE [stream EXCEPT ![r] = Append(@, Protocol[next])]
       /\ Becomes(r, IF next = Len(Protocol) THEN "finished" ELSE "streaming")
       /\ UNCHANGED <<runCase, transaction, unnamed, llm, gone>>

\* Wrong on purpose: the recommendation does not wait for its explanation.
EmitUnexplained(r) == status[r] = "streaming" /\ Send(r)

Emit(r) ==
    /\ status[r] = "streaming"
    /\ emitted[r] < BeforeExplanation \/ llm[r] = "given"
    /\ r \in unnamed => emitted[r] = 0
    /\ Send(r)

\* The first event of the contracts does not take a blank run id, and raises
\* after RUN_STARTED has been sent.
RejectRunId(r) ==
    /\ status[r] = "streaming"
    /\ r \in unnamed
    /\ emitted[r] = 1
    /\ Becomes(r, "broken")
    /\ UNCHANGED <<runCase, transaction, unnamed, emitted, llm, gone, stream>>

AskExplanation(r) ==
    /\ status[r] = "streaming"
    /\ emitted[r] = BeforeExplanation
    /\ llm[r] = "none"
    /\ llm' = [llm EXCEPT ![r] = "asked"]
    /\ UNCHANGED <<runCase, transaction, unnamed, status, emitted, gone, stream>>

ExplanationGiven(r) ==
    /\ status[r] = "streaming"
    /\ llm[r] = "asked"
    /\ llm' = [llm EXCEPT ![r] = "given"]
    /\ UNCHANGED <<runCase, transaction, unnamed, status, emitted, gone, stream>>

\* Wrong on purpose: a failed call is made again, without end.
RetryExplanation(r) ==
    /\ status[r] = "streaming"
    /\ llm[r] = "asked"
    /\ llm' = [llm EXCEPT ![r] = "none"]
    /\ UNCHANGED <<runCase, transaction, unnamed, status, emitted, gone, stream>>

\* The call times out, Ollama answers with an error status, or its answer is
\* not JSON with a non-blank explanation: the generator raises.
ExplanationFails(r) ==
    /\ status[r] = "streaming"
    /\ llm[r] = "asked"
    /\ Becomes(r, "broken")
    /\ UNCHANGED <<runCase, transaction, unnamed, emitted, llm, gone, stream>>

Serve(r) ==
    \/ FindCase(r) \/ FindTransaction(r)
    \/ Emit(r) \/ RejectRunId(r)
    \/ AskExplanation(r) \/ ExplanationGiven(r) \/ ExplanationFails(r)

-----------------------------------------------------------------------------
(* The client, and the end of the process. *)

\* The client reads the next event.
Read(r) ==
    /\ stream[r] # <<>>
    /\ stream' = [stream EXCEPT ![r] = Tail(@)]
    /\ UNCHANGED <<runCase, transaction, unnamed, status, emitted, llm, gone>>

Ended(r) == status[r] \in {"refused", "failed", "finished", "broken",
                           "cancelled", "lost"}

\* The clients of the runs in R that are not over close their connections.
Leave(R) ==
    LET left == {r \in R : status[r] # "unused" /\ ~(Ended(r) /\ stream[r] = <<>>)}
    IN /\ gone' = gone \cup left
       /\ stream' = [r \in Runs |-> IF r \in left THEN <<>> ELSE stream[r]]
       /\ UNCHANGED <<runCase, transaction, unnamed, status, emitted, llm>>

\* The server sees it and cancels the generator, wherever that is; or it sees
\* it late, and the run goes on for nobody.
Cancel(r) ==
    /\ r \in gone
    /\ status[r] = "streaming"
    /\ Becomes(r, "cancelled")
    /\ UNCHANGED <<runCase, transaction, unnamed, emitted, llm, gone, stream>>

\* Nothing of a run is kept: its end is the end of its process.
Restart ==
    /\ status' = [r \in Runs |-> IF status[r] = "unused" \/ Ended(r)
                                 THEN status[r] ELSE "lost"]
    /\ UNCHANGED <<runCase, transaction, unnamed, emitted, llm, gone, stream>>

-----------------------------------------------------------------------------
(* Properties. *)

\* Every case has its own transaction, which TLC evaluates for the seed data.
HasTransactions(table) ==
    \A c \in DOMAIN table :
        LET id == table[c].transaction_id
        IN /\ id \in DOMAIN TransactionTable
           /\ TransactionTable[id] # {}
           /\ \A row \in TransactionTable[id] : row.case_id = c
TransactionsAgree == HasTransactions(CaseTable)

\* A client that stays reads a prefix of the protocol, with nothing lost or
\* repeated, and sees a recommendation only when the model has explained it.
\* While the process lives its stream is cut nowhere but at the explanation,
\* or after RUN_STARTED for a blank run id; a refused run streams nothing
\* (service.py:43-165).
StreamOK ==
    /\ RunTypeOK
    /\ \A r \in Runs :
        LET unread == Len(stream[r])
        IN /\ stream[r] = SubSeq(Protocol, emitted[r] - unread + 1, emitted[r])
           /\ r \in gone => unread = 0
           /\ emitted[r] > BeforeExplanation => llm[r] = "given"
           /\ r \in unnamed => emitted[r] <= 1
           /\ status[r] = "finished" <=> emitted[r] = Len(Protocol)
           /\ status[r] = "broken" =>
                 emitted[r] = IF r \in unnamed THEN 1 ELSE BeforeExplanation
           /\ status[r] = "cancelled" => r \in gone
           /\ status[r] \notin {"streaming", "finished", "broken", "cancelled", "lost"}
                 => emitted[r] = 0

\* A case that exists is investigated, with its own transaction, and no other:
\* the lookup is over before the response begins, when it can still be refused,
\* and it never fails half way (mcp_client.py:20-45, api.py:40-47).
OnlyKnownCases ==
    \A r \in Runs :
        /\ emitted[r] > 0 =>
              /\ runCase[r] \in KnownCases
              /\ transaction[r] # {}
              /\ \A row \in transaction[r] : row.case_id = runCase[r]
        /\ runCase[r] \in KnownCases => status[r] \notin {"refused", "failed"}
        /\ status[r] # "failed"

\* Every request is answered, and what it streams comes to an end that its
\* client sees, whether or not the model explains or the client stays.
EveryRequestEnds ==
    \A r \in Runs : status[r] = "finding_case" ~> Ended(r) /\ stream[r] = <<>>
=============================================================================
