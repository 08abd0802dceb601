---------------------------- MODULE SliceProofs ----------------------------
(***************************************************************************)
(* The vertical slice, for any runs, clients, cases and posts: what a run  *)
(* streams, and what the page shows of it.                                 *)
(***************************************************************************)
EXTENDS VerticalSlice, SequenceTheorems, TLAPS

\* What is known of a stream, event by event; StreamOK says the same with SubSeq.
StreamInv(r) ==
    /\ Len(stream[r]) <= emitted[r]
    /\ \A i \in 1 .. Len(stream[r]) :
            stream[r][i] = Protocol[emitted[r] - Len(stream[r]) + i]
    /\ r \in gone => Len(stream[r]) = 0

\* How far a run can be, by its status and what the model has said.
StageInv(r) ==
    /\ emitted[r] > BeforeExplanation => llm[r] = "given"
    /\ llm[r] = "asked" => emitted[r] = BeforeExplanation
    /\ r \in unnamed => emitted[r] <= 1
    /\ status[r] = "finished" <=> emitted[r] = 7
    /\ status[r] = "broken" =>
          emitted[r] = IF r \in unnamed THEN 1 ELSE BeforeExplanation
    /\ status[r] = "cancelled" => r \in gone
    /\ r \in gone => status[r] # "unused"
    /\ status[r] \notin {"streaming", "finished", "broken", "cancelled", "lost"}
          => emitted[r] = 0

\* Whose data a run has, once its lookups are over.
Streamed(r) == status[r] \in {"streaming", "finished", "broken", "cancelled"}
                    \/ emitted[r] > 0
CaseInv(r) ==
    /\ Streamed(r) \/ status[r] = "finding_transaction" => runCase[r] \in KnownCases
    /\ Streamed(r) =>
          transaction[r] = TransactionTable[CaseTable[runCase[r]].transaction_id]
    /\ runCase[r] \in KnownCases => status[r] # "refused"
    /\ status[r] # "failed"

RunOK(r) == StreamInv(r) /\ StageInv(r)

RunInv ==
    /\ RunTypeOK
    /\ stream \in [Runs -> Seq(EventNames)]
    /\ \A r \in Runs : RunOK(r)

CasesInv ==
    /\ RunTypeOK
    /\ DOMAIN transaction = Runs
    /\ \A r \in Runs : CaseInv(r)

-----------------------------------------------------------------------------
\* How many events the page has read of the run it shows.
Seen == IF started = <<>> THEN 0 ELSE emitted[Current] - Len(stream[Current])

\* The runs the page has started are its own, and all but the last are over.
StartedInv ==
    /\ started \in Seq(Runs)
    /\ \A i \in 1 .. Len(started) :
          /\ status[started[i]] # "unused" /\ started[i] \notin gone
          /\ i # Len(started) => /\ status[started[i]] = "finished"
                                 /\ Len(stream[started[i]]) = 0

\* What the page shows is a function of how far it has read.
PageInv ==
    /\ events \in Seq([run: Runs, name: EventNames])
    /\ running \in BOOLEAN
    /\ running <=> started # <<>> /\ Seen < 7
    /\ Len(events) = (IF Seen <= 1 THEN 0 ELSE IF Seen = 7 THEN 5 ELSE Seen - 1)
    /\ \A i \in 1 .. Len(events) :
          events[i] = [run |-> Current, name |-> Protocol[i + 1]]
    /\ recommendation = IF Seen >= 5 THEN Current ELSE None
    /\ decisionCard = IF Seen = 7 THEN Current ELSE None

\* A post has a decision, and every decision was made on a complete run.
Informed(d) == status[d.run] = "finished" /\ llm[d.run] = "given"
PostsType == [Posts -> [state: PostStates, decision: Decision \cup {None}]]
PostsInv ==
    /\ submittedAction \in Decision \cup {None}
    /\ posts \in PostsType
    /\ decisions \subseteq Decision
    /\ \A d \in decisions : Informed(d)
    /\ \A p \in Posts : IF posts[p].state = "unused"
                        THEN posts[p].decision = None
                        ELSE posts[p].decision \in Decision
                                /\ Informed(posts[p].decision)

UiInv == StartedInv /\ PageInv /\ PostsInv

-----------------------------------------------------------------------------
(* The protocol. *)

LEMMA ProtocolFacts ==
    /\ Protocol \in Seq(EventNames)
    /\ Len(Protocol) = 7
    /\ \A i \in 1 .. 7 : Protocol[i] \in EventNames
    /\ Protocol[1] = "RUN_STARTED" /\ Protocol[7] = "RUN_FINISHED"
    /\ \A i \in 1 .. 7 : Protocol[i] = "recommendation.produced" <=> i = 5
    /\ \A i \in 2 .. 6 : Protocol[i] \notin {"RUN_STARTED", "RUN_FINISHED"}
<1>1. Len(Protocol) = 7
  BY DEF Protocol
<1>2. /\ Protocol[1] = "RUN_STARTED" /\ Protocol[2] = "investigation.accepted"
      /\ Protocol[3] = "specialist.started"
      /\ Protocol[4] = "specialist.finding_received"
      /\ Protocol[5] = "recommendation.produced"
      /\ Protocol[6] = "investigation.completed" /\ Protocol[7] = "RUN_FINISHED"
  BY DEF Protocol
<1>3. \A i \in 1 .. 7 : i \in {1, 2, 3, 4, 5, 6, 7}
  OBVIOUS
<1>4. \A i \in 1 .. 7 : Protocol[i] \in EventNames
  BY <1>1 DEF EventNames
<1>5. Protocol \in Seq({Protocol[i] : i \in 1 .. 7})
  BY DEF Protocol
<1>6. \A i \in 1 .. 7 : Protocol[i] = "recommendation.produced" <=> i = 5
  BY <1>2, <1>3
<1>7. \A i \in 2 .. 6 : Protocol[i] \notin {"RUN_STARTED", "RUN_FINISHED"}
  <2>1. \A i \in 2 .. 6 : i \in {2, 3, 4, 5, 6}
    OBVIOUS
  <2> QED
    BY <1>2, <2>1
<1> QED
  BY <1>1, <1>2, <1>4, <1>5, <1>6, <1>7 DEF EventNames

LEMMA MilestoneFacts ==
    /\ Milestones \in Seq(EventNames)
    /\ Len(Milestones) = 5
    /\ \A i \in 1 .. 5 : Milestones[i] = Protocol[i + 1]
<1>1. \A i \in 2 .. 6 : Protocol[i] \in EventNames
  BY ProtocolFacts
<1> DEFINE s == SubSeq(Protocol, 2, 6)
<1>2. /\ s \in Seq(EventNames)
      /\ Len(s) = IF 2 <= 6 THEN 6 - 2 + 1 ELSE 0
      /\ \A i \in 1 .. 6 - 2 + 1 : s[i] = Protocol[2 + i - 1]
  BY <1>1, SubSeqProperties
<1>3. Milestones = s
  BY ProtocolFacts DEF Milestones
<1>4. \A i \in 1 .. 5 : s[i] = Protocol[i + 1]
  BY <1>2
<1> HIDE DEF s
<1> QED
  BY <1>2, <1>3, <1>4

-----------------------------------------------------------------------------
(* Runs: the stream, and how far a run is. *)

LEMMA RunInitInv == RunInit => RunInv
<1> SUFFICES ASSUME RunInit PROVE RunInv
  OBVIOUS
<1>1. RunTypeOK
  BY ProtocolFacts DEF RunInit, RunTypeOK, Statuses
<1>2. stream \in [Runs -> Seq(EventNames)] /\ \A r \in Runs : Len(stream[r]) = 0
  BY EmptySeq DEF RunInit
<1>3. ASSUME NEW r \in Runs PROVE RunOK(r)
  BY <1>2 DEF RunInit, RunOK, StreamInv, StageInv, BeforeExplanation
<1> QED
  BY <1>1, <1>2, <1>3 DEF RunInv

\* A step that leaves the streams alone, and moves run r to another stage.
LEMMA StageStep ==
    ASSUME RunInv, RunTypeOK', NEW r \in Runs, StageInv(r)',
           UNCHANGED <<emitted, stream, gone>>,
           \A q \in Runs \ {r} : /\ status'[q] = status[q] /\ llm'[q] = llm[q]
                                 /\ q \in unnamed' <=> q \in unnamed
    PROVE RunInv'
<1>1. ASSUME NEW q \in Runs PROVE RunOK(q)'
  <2>1. StreamInv(q)'
    BY DEF RunInv, RunOK, StreamInv
  <2>2. StageInv(q)'
    BY DEF RunInv, RunOK, StageInv
  <2> QED
    BY <2>1, <2>2 DEF RunOK
<1> QED
  BY <1>1 DEF RunInv

LEMMA AgentRunInv ==
    ASSUME RunInv, NEW r \in Runs, NEW c \in Cases \cup {BlankCase},
           NEW blankId \in BOOLEAN, AgentRun(r, c, blankId)
    PROVE RunInv'
<1>1. RunTypeOK'
  BY DEF RunInv, RunTypeOK, AgentRun, Becomes, Statuses
<1>2. emitted'[r] = 0 /\ llm'[r] = llm[r] /\ llm[r] # "asked"
  BY DEF RunInv, RunOK, StageInv, AgentRun, BeforeExplanation
<1>3. status'[r] \in {"refused", "finding_case"}
  BY DEF RunInv, RunTypeOK, AgentRun, Becomes
<1>4. StageInv(r)'
  BY <1>2, <1>3 DEF StageInv, BeforeExplanation
<1> QED
  BY <1>1, <1>4, StageStep DEF AgentRun, Becomes, RunInv, RunTypeOK

LEMMA IntakeInv ==
    ASSUME RunInv, NEW r \in Runs, NEW c \in Cases \cup {BlankCase}, Intake(r, c)
    PROVE RunInv'
<1>1. RunTypeOK'
  BY DEF RunInv, RunTypeOK, Intake, Becomes, Statuses
<1>2. StageInv(r)'
  BY ProtocolFacts
  DEF RunInv, RunOK, RunTypeOK, StageInv, Intake, Becomes, BeforeExplanation
<1> QED
  BY <1>1, <1>2, StageStep DEF Intake, Becomes, RunInv, RunTypeOK

LEMMA FindCaseInv ==
    ASSUME RunInv, NEW r \in Runs, FindCase(r)
    PROVE RunInv'
<1>1. RunTypeOK'
  BY DEF RunInv, RunTypeOK, FindCase, Becomes, Statuses
<1>2. StageInv(r)'
  BY ProtocolFacts
  DEF RunInv, RunOK, RunTypeOK, StageInv, FindCase, Becomes, BeforeExplanation
<1> QED
  BY <1>1, <1>2, StageStep DEF FindCase, Becomes, RunInv, RunTypeOK

LEMMA FindTransactionInv ==
    ASSUME RunInv, NEW r \in Runs, FindTransaction(r)
    PROVE RunInv'
<1>1. RunTypeOK'
  BY DEF RunInv, RunTypeOK, FindTransaction, Becomes, Statuses
<1>2. StageInv(r)'
  BY ProtocolFacts
  DEF RunInv, RunOK, RunTypeOK, StageInv, FindTransaction, Becomes,
      BeforeExplanation
<1> QED
  BY <1>1, <1>2, StageStep DEF FindTransaction, Becomes, RunInv, RunTypeOK

\* The event that is sent goes to the end of the stream, which stays contiguous.
LEMMA SendInv ==
    ASSUME RunInv, NEW r \in Runs, status[r] = "streaming",
           emitted[r] < BeforeExplanation \/ llm[r] = "given",
           r \in unnamed => emitted[r] = 0, Send(r)
    PROVE /\ RunInv'
          /\ r \notin gone => Len(stream'[r]) = Len(stream[r]) + 1
          /\ \A q \in Runs \ {r} : Len(stream'[q]) = Len(stream[q])
<1> DEFINE next == emitted[r] + 1
           event == Protocol[next]
<1>1. emitted[r] \in 0 .. 6 /\ next \in 1 .. 7 /\ next - 1 = emitted[r]
  BY ProtocolFacts DEF RunInv, RunOK, RunTypeOK, StageInv
<1>2. event \in EventNames
  BY <1>1, ProtocolFacts
<1>3. stream[r] \in Seq(EventNames) /\ Len(stream[r]) \in Nat
  BY DEF RunInv
<1>4. /\ Append(stream[r], event) \in Seq(EventNames)
      /\ Len(Append(stream[r], event)) = Len(stream[r]) + 1
      /\ \A i \in 1 .. Len(stream[r]) : Append(stream[r], event)[i] = stream[r][i]
      /\ Append(stream[r], event)[Len(stream[r]) + 1] = event
  BY <1>2, <1>3, AppendProperties
<1>5. /\ emitted' = [emitted EXCEPT ![r] = next]
      /\ stream' = IF r \in gone THEN stream
                   ELSE [stream EXCEPT ![r] = Append(@, event)]
      /\ status' = [status EXCEPT ![r] =
                        IF next = 7 THEN "finished" ELSE "streaming"]
      /\ UNCHANGED <<runCase, transaction, unnamed, llm, gone>>
  BY ProtocolFacts DEF Send, Becomes
<1> HIDE DEF next, event
<1>6. RunTypeOK' /\ stream' \in [Runs -> Seq(EventNames)]
  BY <1>1, <1>4, <1>5, ProtocolFacts DEF RunInv, RunTypeOK, Statuses
<1>7. StreamInv(r)'
  <2>1. CASE r \in gone
    BY <1>1, <1>3, <1>5, <2>1 DEF RunInv, RunOK, RunTypeOK, StreamInv
  <2>2. CASE r \notin gone
    <3>1. stream'[r] = Append(stream[r], event) /\ emitted'[r] = next
      BY <1>5, <2>2 DEF RunInv, RunTypeOK
    <3>2. Len(stream'[r]) = Len(stream[r]) + 1 /\ Len(stream'[r]) <= next
      BY <1>1, <1>3, <1>4, <3>1 DEF RunInv, RunOK, StreamInv
    <3>3. ASSUME NEW i \in 1 .. Len(stream'[r])
          PROVE stream'[r][i] = Protocol[next - Len(stream'[r]) + i]
      <4>1. CASE i = Len(stream[r]) + 1
        BY <1>1, <1>3, <1>4, <3>1, <3>2, <4>1 DEF event
      <4>2. CASE i # Len(stream[r]) + 1
        <5>1. i \in 1 .. Len(stream[r])
          BY <1>3, <3>2, <4>2
        <5>2. stream[r][i] = Protocol[emitted[r] - Len(stream[r]) + i]
          BY <5>1 DEF RunInv, RunOK, StreamInv
        <5>3. next - Len(stream'[r]) + i = emitted[r] - Len(stream[r]) + i
          BY <1>1, <1>3, <3>2 DEF next
        <5> QED
          BY <1>4, <3>1, <5>1, <5>2, <5>3
      <4> QED
        BY <4>1, <4>2
    <3> QED
      BY <1>5, <2>2, <3>1, <3>2, <3>3 DEF StreamInv
  <2> QED
    BY <2>1, <2>2
<1>8. StageInv(r)'
  BY <1>1, <1>5 DEF RunInv, RunOK, RunTypeOK, StageInv, BeforeExplanation, next
<1>9. ASSUME NEW q \in Runs \ {r} PROVE RunOK(q)' /\ stream'[q] = stream[q]
  <2>1. /\ emitted'[q] = emitted[q] /\ status'[q] = status[q]
        /\ stream'[q] = stream[q]
    BY <1>5 DEF RunInv, RunTypeOK
  <2> QED
    BY <1>5, <2>1 DEF RunInv, RunOK, StreamInv, StageInv
<1>10. r \notin gone => Len(stream'[r]) = Len(stream[r]) + 1
  BY <1>4, <1>5 DEF RunInv
<1> QED
  BY <1>6, <1>7, <1>8, <1>9, <1>10 DEF RunInv, RunOK

LEMMA RejectRunIdInv ==
    ASSUME RunInv, NEW r \in Runs, RejectRunId(r)
    PROVE RunInv'
<1>1. RunTypeOK'
  BY DEF RunInv, RunTypeOK, RejectRunId, Becomes, Statuses
<1>2. StageInv(r)'
  BY DEF RunInv, RunOK, RunTypeOK, StageInv, RejectRunId, Becomes, BeforeExplanation
<1> QED
  BY <1>1, <1>2, StageStep DEF RejectRunId, Becomes, RunInv, RunTypeOK

LEMMA AskExplanationInv ==
    ASSUME RunInv, NEW r \in Runs, AskExplanation(r)
    PROVE RunInv'
<1>1. RunTypeOK'
  BY DEF RunInv, RunTypeOK, AskExplanation
<1>2. StageInv(r)'
  BY DEF RunInv, RunOK, RunTypeOK, StageInv, AskExplanation, BeforeExplanation
<1> QED
  BY <1>1, <1>2, StageStep DEF AskExplanation, RunInv, RunTypeOK

LEMMA ExplanationGivenInv ==
    ASSUME RunInv, NEW r \in Runs, ExplanationGiven(r)
    PROVE RunInv'
<1>1. RunTypeOK'
  BY DEF RunInv, RunTypeOK, ExplanationGiven
<1>2. StageInv(r)'
  BY DEF RunInv, RunOK, RunTypeOK, StageInv, ExplanationGiven, BeforeExplanation
<1> QED
  BY <1>1, <1>2, StageStep DEF ExplanationGiven, RunInv, RunTypeOK

LEMMA ExplanationFailsInv ==
    ASSUME RunInv, NEW r \in Runs, ExplanationFails(r)
    PROVE RunInv'
<1>1. RunTypeOK'
  BY DEF RunInv, RunTypeOK, ExplanationFails, Becomes, Statuses
<1>2. StageInv(r)'
  BY DEF RunInv, RunOK, RunTypeOK, StageInv, ExplanationFails, Becomes,
         BeforeExplanation
<1> QED
  BY <1>1, <1>2, StageStep DEF ExplanationFails, Becomes, RunInv, RunTypeOK

LEMMA CancelInv ==
    ASSUME RunInv, NEW r \in Runs, Cancel(r)
    PROVE RunInv'
<1>1. RunTypeOK'
  BY DEF RunInv, RunTypeOK, Cancel, Becomes, Statuses
<1>2. StageInv(r)'
  BY DEF RunInv, RunOK, RunTypeOK, StageInv, Cancel, Becomes, BeforeExplanation
<1> QED
  BY <1>1, <1>2, StageStep DEF Cancel, Becomes, RunInv, RunTypeOK

\* What the client reads is the next event after those it has read.
LEMMA ReadInv ==
    ASSUME RunInv, NEW r \in Runs, Read(r)
    PROVE /\ RunInv'
          /\ Len(stream[r]) \in 1 .. emitted[r]
          /\ Head(stream[r]) = Protocol[emitted[r] - Len(stream[r]) + 1]
          /\ Len(stream'[r]) = Len(stream[r]) - 1
          /\ \A q \in Runs \ {r} : Len(stream'[q]) = Len(stream[q])
<1>1. stream[r] \in Seq(EventNames) /\ stream[r] # <<>>
  BY DEF RunInv, Read
<1>2. Len(stream[r]) \in Nat /\ Len(stream[r]) # 0
  BY <1>1, LenProperties, EmptySeq
<1>3. emitted[r] \in 0 .. 7 /\ Len(stream[r]) <= emitted[r]
  BY ProtocolFacts DEF RunInv, RunTypeOK, RunOK, StreamInv
<1>4. /\ Tail(stream[r]) \in Seq(EventNames)
      /\ Len(Tail(stream[r])) = Len(stream[r]) - 1
      /\ \A i \in 1 .. Len(Tail(stream[r])) : Tail(stream[r])[i] = stream[r][i + 1]
  BY <1>1, HeadTailProperties
<1>5. Head(stream[r]) = stream[r][1]
  BY <1>1
<1>6. Head(stream[r]) = Protocol[emitted[r] - Len(stream[r]) + 1]
  BY <1>2, <1>3, <1>5 DEF RunInv, RunOK, StreamInv
<1>7. stream'[r] = Tail(stream[r]) /\ \A q \in Runs \ {r} : stream'[q] = stream[q]
  BY DEF Read, RunInv
<1>8. stream' \in [Runs -> Seq(EventNames)]
  BY <1>4 DEF Read, RunInv
<1>9. StreamInv(r)'
  <2>1. Len(stream'[r]) <= emitted'[r] /\ (r \in gone' => Len(stream'[r]) = 0)
    BY <1>2, <1>3, <1>4, <1>7 DEF Read, RunInv, RunOK, StreamInv
  <2>2. ASSUME NEW i \in 1 .. Len(stream'[r])
        PROVE stream'[r][i] = Protocol[emitted'[r] - Len(stream'[r]) + i]
    <3>1. i \in Nat /\ i + 1 \in 1 .. Len(stream[r])
      BY <1>2, <1>4, <1>7
    <3>2. stream[r][i + 1] = Protocol[emitted[r] - Len(stream[r]) + (i + 1)]
      BY <3>1 DEF RunInv, RunOK, StreamInv
    <3>3. emitted[r] - Len(stream[r]) + (i + 1) = emitted[r] - Len(stream'[r]) + i
      <4>1. \A e, k, j \in Nat : e - k + (j + 1) = e - (k - 1) + j
        OBVIOUS
      <4>2. emitted[r] \in Nat /\ Len(stream[r]) \in Nat
        BY <1>2, <1>3
      <4>3. Len(stream'[r]) = Len(stream[r]) - 1
        BY <1>4, <1>7
      <4>4. emitted[r] - Len(stream[r]) + (i + 1)
                = emitted[r] - (Len(stream[r]) - 1) + i
        BY <3>1, <4>1, <4>2
      <4> QED
        BY <4>3, <4>4
    <3> QED
      BY <1>4, <1>7, <3>2, <3>3 DEF Read
  <2> QED
    BY <2>1, <2>2 DEF StreamInv
<1>10. ASSUME NEW q \in Runs PROVE StageInv(q)'
  BY DEF Read, RunInv, RunOK, StageInv
<1>11. ASSUME NEW q \in Runs \ {r} PROVE StreamInv(q)'
  BY <1>7 DEF Read, RunInv, RunOK, StreamInv
<1>12. RunTypeOK'
  BY DEF Read, RunInv, RunTypeOK
<1> QED
  BY <1>2, <1>3, <1>4, <1>6, <1>7, <1>8, <1>9, <1>10, <1>11, <1>12
  DEF RunInv, RunOK

LEMMA LeaveInv ==
    ASSUME RunInv, NEW R \in SUBSET Runs, Leave(R)
    PROVE /\ RunInv'
          /\ gone \subseteq gone'
          /\ \A r \in Runs \ R : /\ stream'[r] = stream[r]
                                 /\ r \in gone' <=> r \in gone
<1> DEFINE left == {r \in R : status[r] # "unused"
                                /\ ~(Ended(r) /\ stream[r] = <<>>)}
<1>1. /\ gone' = gone \cup left
      /\ stream' = [r \in Runs |-> IF r \in left THEN <<>> ELSE stream[r]]
      /\ left \subseteq R /\ \A r \in left : status[r] # "unused"
      /\ UNCHANGED <<runCase, transaction, unnamed, status, emitted, llm>>
  BY DEF Leave
<1> HIDE DEF left
<1>2. RunTypeOK' /\ stream' \in [Runs -> Seq(EventNames)]
  BY <1>1, EmptySeq DEF RunInv, RunTypeOK
<1>3. ASSUME NEW r \in Runs PROVE StreamInv(r)'
  <2>1. CASE r \in left
    <3>1. Len(stream'[r]) = 0 /\ emitted'[r] \in Nat
      BY <1>1, <2>1, EmptySeq DEF RunInv, RunTypeOK
    <3> QED
      BY <3>1 DEF StreamInv
  <2>2. CASE r \notin left
    BY <1>1, <2>2 DEF RunInv, RunOK, StreamInv
  <2> QED
    BY <2>1, <2>2
<1>4. ASSUME NEW r \in Runs PROVE StageInv(r)'
  BY <1>1 DEF RunInv, RunOK, StageInv
<1> QED
  BY <1>1, <1>2, <1>3, <1>4 DEF RunInv, RunOK

LEMMA RestartInv ==
    ASSUME RunInv, Restart
    PROVE /\ RunInv'
          /\ \A r \in Runs : /\ status[r] = "finished" => status'[r] = "finished"
                             /\ status[r] # "unused" => status'[r] # "unused"
<1>1. RunTypeOK'
  BY DEF RunInv, RunTypeOK, Restart, Statuses
<1>2. \A r \in Runs :
          \/ status'[r] = status[r]
          \/ /\ status[r] \notin {"unused", "finished"}
             /\ status'[r] = "lost"
  <2> TAKE r \in Runs
  <2>1. status'[r] = IF status[r] = "unused" \/ Ended(r) THEN status[r] ELSE "lost"
    BY DEF Restart
  <2>2. CASE status[r] = "unused" \/ Ended(r)
    BY <2>1, <2>2
  <2>3. CASE ~(status[r] = "unused" \/ Ended(r))
    BY <2>1, <2>3 DEF Ended
  <2> QED
    BY <2>2, <2>3
<1>3. ASSUME NEW r \in Runs PROVE StageInv(r)'
  BY <1>2 DEF Restart, RunInv, RunOK, StageInv
<1>4. ASSUME NEW r \in Runs PROVE StreamInv(r)'
  BY DEF Restart, RunInv, RunOK, StreamInv
<1> QED
  BY <1>1, <1>2, <1>3, <1>4 DEF RunInv, RunOK, Restart

LEMMA ServeInv ==
    ASSUME RunInv, NEW r \in Runs, Serve(r)
    PROVE RunInv'
<1>1. CASE FindCase(r)
  BY <1>1, FindCaseInv
<1>2. CASE FindTransaction(r)
  BY <1>2, FindTransactionInv
<1>3. CASE Emit(r)
  BY <1>3, SendInv DEF Emit
<1>4. CASE RejectRunId(r)
  BY <1>4, RejectRunIdInv
<1>5. CASE AskExplanation(r)
  BY <1>5, AskExplanationInv
<1>6. CASE ExplanationGiven(r)
  BY <1>6, ExplanationGivenInv
<1>7. CASE ExplanationFails(r)
  BY <1>7, ExplanationFailsInv
<1> QED
  BY <1>1, <1>2, <1>3, <1>4, <1>5, <1>6, <1>7 DEF Serve

LEMMA CaseOfUi == UiCase \in Cases \cup {BlankCase} /\ UiCase # BlankCase
  BY InvestigationRunAssumption, VerticalSliceAssumption

\* With started \in Seq(Runs), because a reload leaves the runs of the page.
LEMMA RunNextInv ==
    ASSUME RunInv, started \in Seq(Runs), [Next]_sliceVars
    PROVE RunInv'
<1>1. ASSUME NEW r \in Runs, Start(r) PROVE RunInv'
  BY <1>1, CaseOfUi, AgentRunInv DEF Start
<1>2. ASSUME NEW r \in Runs, Deliver(r) PROVE RunInv'
  BY <1>2, ReadInv DEF Deliver
<1>3. ASSUME NEW r \in Runs, RequestElsewhere(r) PROVE RunInv'
  BY <1>3, IntakeInv, AgentRunInv DEF RequestElsewhere
<1>4. ASSUME NEW r \in Runs, ReadElsewhere(r) PROVE RunInv'
  BY <1>4, ReadInv DEF ReadElsewhere
<1>5. ASSUME NEW r \in Runs, LeaveElsewhere(r) PROVE RunInv'
  <2>1. {r} \in SUBSET Runs
    OBVIOUS
  <2> QED
    BY <1>5, <2>1, LeaveInv DEF LeaveElsewhere
<1>6. ASSUME NEW r \in Runs, ServeRun(r) PROVE RunInv'
  BY <1>6, ServeInv DEF ServeRun
<1>7. ASSUME NEW r \in Runs, CancelRun(r) PROVE RunInv'
  BY <1>7, CancelInv DEF CancelRun
<1>8. ASSUME NEW p \in Posts, Decide(p) PROVE RunInv'
  BY <1>8 DEF Decide, runVars, RunInv, RunTypeOK, RunOK, StreamInv, StageInv
<1>9. CASE ReloadPage
  <2>1. PageRuns \in SUBSET Runs
    BY DEF PageRuns
  <2> QED
    BY <1>9, <2>1, LeaveInv DEF ReloadPage
<1>10. CASE RestartService
  BY <1>10, RestartInv DEF RestartService
<1>11. CASE UNCHANGED sliceVars
  BY <1>11 DEF sliceVars, runVars, RunInv, RunTypeOK, RunOK, StreamInv, StageInv
<1> QED
  BY <1>1, <1>2, <1>3, <1>4, <1>5, <1>6, <1>7, <1>8, <1>9, <1>10, <1>11 DEF Next

\* The page's runs stay among the runs.
LEMMA StartedNext ==
    ASSUME started \in Seq(Runs), [Next]_sliceVars
    PROVE started' \in Seq(Runs)
<1>1. ASSUME NEW r \in Runs, Start(r) PROVE started' \in Seq(Runs)
  BY <1>1, AppendProperties DEF Start
<1>2. CASE ReloadPage
  BY <1>2, EmptySeq DEF ReloadPage
<1>3. CASE UNCHANGED started
  BY <1>3
<1>4. \/ \E r \in Runs : Start(r)
      \/ ReloadPage
      \/ UNCHANGED started
  BY DEF Next, Deliver, RequestElsewhere, ReadElsewhere, LeaveElsewhere, ServeRun,
         CancelRun, Decide, RestartService, sliceVars
<1> QED
  BY <1>1, <1>2, <1>3, <1>4

LEMMA ProtocolSlice ==
    ASSUME NEW e \in 0 .. 7, NEW t \in Seq(EventNames), Len(t) <= e,
           \A i \in 1 .. Len(t) : t[i] = Protocol[e - Len(t) + i]
    PROVE t = SubSeq(Protocol, e - Len(t) + 1, e)
<1> DEFINE m == e - Len(t) + 1
           s == SubSeq(Protocol, m, e)
<1>1. Len(t) \in Nat
  OBVIOUS
<1>2. m \in Int /\ 1 <= m /\ e - m + 1 = Len(t)
  BY <1>1
<1>3. \A i \in 1 .. Len(t) : m + i - 1 = e - Len(t) + i
  BY <1>1
<1> HIDE DEF m
<1>4. \A i \in m .. e : Protocol[i] \in EventNames
  BY <1>2, ProtocolFacts
<1>5. /\ s \in Seq(EventNames)
      /\ Len(s) = IF m <= e THEN e - m + 1 ELSE 0
      /\ \A i \in 1 .. e - m + 1 : s[i] = Protocol[m + i - 1]
  BY <1>2, <1>4, SubSeqProperties
<1> HIDE DEF s
<1>6. Len(s) = Len(t)
  BY <1>1, <1>2, <1>5
<1>7. \A i \in 1 .. Len(s) : s[i] = t[i]
  BY <1>2, <1>3, <1>5, <1>6
<1>8. s = t
  BY <1>5, <1>6, <1>7, SeqEqual
<1> QED
  BY <1>8 DEF s, m

LEMMA StreamAsSubSeq ==
    ASSUME RunInv, NEW r \in Runs
    PROVE stream[r] = SubSeq(Protocol, emitted[r] - Len(stream[r]) + 1, emitted[r])
<1>1. stream[r] \in Seq(EventNames) /\ emitted[r] \in 0 .. 7
  BY ProtocolFacts DEF RunInv, RunTypeOK
<1>2. StreamInv(r)
  BY DEF RunInv, RunOK
<1> QED
  BY <1>1, <1>2, ProtocolSlice DEF StreamInv

LEMMA StreamOKHolds == RunInv => StreamOK
<1> SUFFICES ASSUME RunInv, NEW r \in Runs
             PROVE /\ stream[r] = SubSeq(Protocol,
                                    emitted[r] - Len(stream[r]) + 1, emitted[r])
                   /\ r \in gone => Len(stream[r]) = 0
                   /\ StageInv(r)
  BY ProtocolFacts DEF RunInv, StreamOK, StageInv
<1> QED
  BY StreamAsSubSeq DEF RunInv, RunOK, StreamInv

\* Every client that stays reads a prefix of the protocol; streams are cut only
\* where the code can raise; recommendations are explained (service.py:43-165).
THEOREM StreamCorrectness == Spec => []StreamOK
<1> DEFINE Inv == RunInv /\ started \in Seq(Runs)
<1>1. Init => Inv
  BY RunInitInv, EmptySeq DEF Init
<1>2. Inv /\ [Next]_sliceVars => Inv'
  BY RunNextInv, StartedNext
<1>3. Inv => StreamOK
  BY StreamOKHolds
<1> QED
  BY <1>1, <1>2, <1>3, PTL DEF Spec

-----------------------------------------------------------------------------
(* Runs: the case and its transaction. *)

\* A step of run r; what CaseInv says of the others is not touched.
LEMMA CaseStep ==
    ASSUME CasesInv, RunTypeOK', DOMAIN transaction' = Runs,
           NEW r \in Runs, CaseInv(r)',
           \A q \in Runs \ {r} : /\ status'[q] = status[q]
                                 /\ runCase'[q] = runCase[q]
                                 /\ transaction'[q] = transaction[q]
                                 /\ emitted'[q] = emitted[q]
    PROVE CasesInv'
<1>1. ASSUME NEW q \in Runs \ {r} PROVE CaseInv(q)'
  BY DEF CasesInv, CaseInv, Streamed
<1> QED
  BY <1>1 DEF CasesInv

LEMMA CasesRequest ==
    ASSUME CasesInv, RunInv, RunInv',
           NEW r \in Runs, NEW c \in Cases \cup {BlankCase},
           Intake(r, c) \/ \E blankId \in BOOLEAN : AgentRun(r, c, blankId)
    PROVE CasesInv'
<1>1. /\ status[r] = "unused"
      /\ runCase' = [runCase EXCEPT ![r] = c]
      /\ \/ Becomes(r, "finding_case")
         \/ c = BlankCase /\ Becomes(r, "refused")
      /\ UNCHANGED <<transaction, emitted>>
  BY DEF Intake, AgentRun
<1>2. emitted[r] = 0
  BY <1>1 DEF RunInv, RunOK, StageInv
<1>3. /\ runCase'[r] = c /\ emitted'[r] = 0
      /\ status'[r] = "finding_case" \/ (c = BlankCase /\ status'[r] = "refused")
      /\ \A q \in Runs \ {r} : status'[q] = status[q] /\ runCase'[q] = runCase[q]
  <2>1. runCase'[r] = c /\ \A q \in Runs \ {r} : runCase'[q] = runCase[q]
    BY <1>1 DEF RunInv, RunTypeOK
  <2>2. CASE Becomes(r, "finding_case")
    BY <1>1, <1>2, <2>1, <2>2 DEF RunInv, RunTypeOK, Becomes
  <2>3. CASE c = BlankCase /\ Becomes(r, "refused")
    BY <1>1, <1>2, <2>1, <2>3 DEF RunInv, RunTypeOK, Becomes
  <2> QED
    BY <1>1, <2>2, <2>3
<1>4. BlankCase \notin KnownCases
  BY InvestigationRunAssumption
<1>5. CaseInv(r)'
  BY <1>3, <1>4 DEF CaseInv, Streamed
<1> QED
  BY <1>1, <1>3, <1>5, CaseStep DEF CasesInv, RunInv

LEMMA CasesServe ==
    ASSUME TransactionsAgree, CasesInv, RunInv, RunInv', NEW r \in Runs,
           Serve(r) \/ Cancel(r)
    PROVE CasesInv'
<1>1. CASE FindCase(r)
  <2>1. emitted[r] = 0
    BY <1>1 DEF FindCase, RunInv, RunOK, StageInv
  <2>2. status'[r] = IF runCase[r] \in KnownCases THEN "finding_transaction"
                                                  ELSE "refused"
    BY <1>1 DEF FindCase, Becomes, RunInv, RunTypeOK
  <2>3. CaseInv(r)'
    BY <1>1, <2>1, <2>2 DEF FindCase, CaseInv, Streamed
  <2>4. \A q \in Runs \ {r} : status'[q] = status[q]
    BY <1>1 DEF FindCase, Becomes, RunInv, RunTypeOK
  <2> QED
    BY <1>1, <2>3, <2>4, CaseStep DEF FindCase, CasesInv, RunInv
<1>2. CASE FindTransaction(r)
  <2> DEFINE id == CaseTable[runCase[r]].transaction_id
  <2>1. runCase[r] \in KnownCases /\ emitted[r] = 0
    BY <1>2 DEF FindTransaction, CasesInv, CaseInv, RunInv, RunOK, StageInv
  <2>2. id \in DOMAIN TransactionTable
    BY <2>1 DEF TransactionsAgree, HasTransactions, KnownCases
  <2>3. /\ transaction' = [transaction EXCEPT ![r] = TransactionTable[id]]
        /\ Becomes(r, "streaming")
        /\ UNCHANGED <<runCase, emitted>>
    BY <1>2, <2>2 DEF FindTransaction
  <2>4. /\ transaction'[r] = TransactionTable[id] /\ status'[r] = "streaming"
        /\ DOMAIN transaction' = Runs
        /\ \A q \in Runs \ {r} : /\ status'[q] = status[q]
                                 /\ transaction'[q] = transaction[q]
    BY <2>3 DEF Becomes, CasesInv, RunInv, RunTypeOK
  <2>5. CaseInv(r)'
    BY <2>1, <2>3, <2>4 DEF CaseInv, Streamed
  <2> QED
    BY <2>3, <2>4, <2>5, CaseStep DEF RunInv
<1>3. CASE Emit(r)
  <2>1. /\ status[r] = "streaming" /\ status'[r] \in {"streaming", "finished"}
        /\ \A q \in Runs \ {r} : /\ status'[q] = status[q]
                                 /\ emitted'[q] = emitted[q]
        /\ UNCHANGED <<runCase, transaction>>
    BY <1>3 DEF Emit, Send, Becomes, RunInv, RunTypeOK
  <2>2. CaseInv(r)'
    BY <2>1 DEF CasesInv, CaseInv, Streamed
  <2> QED
    BY <2>1, <2>2, CaseStep DEF CasesInv, RunInv
<1>4. CASE RejectRunId(r) \/ ExplanationFails(r) \/ Cancel(r)
  <2>1. /\ status[r] = "streaming" /\ status'[r] \in {"broken", "cancelled"}
        /\ \A q \in Runs \ {r} : status'[q] = status[q]
        /\ UNCHANGED <<runCase, transaction, emitted>>
    BY <1>4 DEF RejectRunId, ExplanationFails, Cancel, Becomes, RunInv, RunTypeOK
  <2>2. CaseInv(r)'
    BY <2>1 DEF CasesInv, CaseInv, Streamed
  <2> QED
    BY <2>1, <2>2, CaseStep DEF CasesInv, RunInv
<1>5. CASE AskExplanation(r) \/ ExplanationGiven(r)
  <2>1. UNCHANGED <<runCase, transaction, emitted, status>>
    BY <1>5 DEF AskExplanation, ExplanationGiven
  <2> QED
    BY <2>1 DEF CasesInv, CaseInv, Streamed, RunInv
<1> QED
  BY <1>1, <1>2, <1>3, <1>4, <1>5 DEF Serve

LEMMA CasesRestart ==
    ASSUME CasesInv, RunInv', Restart
    PROVE CasesInv'
<1>1. UNCHANGED <<runCase, transaction, emitted>>
  BY DEF Restart
<1>2. \A r \in Runs : status'[r] \in {status[r], "lost"}
  BY DEF Restart
<1>3. ASSUME NEW r \in Runs PROVE CaseInv(r)'
  BY <1>1, <1>2 DEF CasesInv, CaseInv, Streamed
<1> QED
  BY <1>1, <1>3 DEF CasesInv, RunInv

LEMMA CasesNextInv ==
    ASSUME TransactionsAgree, CasesInv, RunInv, RunInv', [Next]_sliceVars
    PROVE CasesInv'
<1>1. ASSUME NEW r \in Runs, Start(r) PROVE CasesInv'
  BY <1>1, CaseOfUi, CasesRequest DEF Start
<1>2. ASSUME NEW r \in Runs, RequestElsewhere(r) PROVE CasesInv'
  BY <1>2, CasesRequest DEF RequestElsewhere
<1>3. ASSUME NEW r \in Runs, ServeRun(r) \/ CancelRun(r) PROVE CasesInv'
  BY <1>3, CasesServe DEF ServeRun, CancelRun
<1>4. CASE RestartService
  BY <1>4, CasesRestart DEF RestartService
<1>5. CASE UNCHANGED <<runCase, transaction, status, emitted>>
  BY <1>5 DEF CasesInv, CaseInv, Streamed, RunInv
<1>6. \/ \E r \in Runs : \/ Start(r) \/ RequestElsewhere(r)
                         \/ ServeRun(r) \/ CancelRun(r)
      \/ RestartService
      \/ UNCHANGED <<runCase, transaction, status, emitted>>
  BY DEF Next, Deliver, ReadElsewhere, LeaveElsewhere, Read, Leave, Decide,
         ReloadPage, runVars, sliceVars
<1> QED
  BY <1>1, <1>2, <1>3, <1>4, <1>5, <1>6

LEMMA OnlyKnownCasesHolds ==
    ASSUME TransactionsAgree, CasesInv
    PROVE OnlyKnownCases
<1> SUFFICES ASSUME NEW r \in Runs
             PROVE /\ emitted[r] > 0 =>
                         /\ runCase[r] \in KnownCases
                         /\ transaction[r] # {}
                         /\ \A row \in transaction[r] : row.case_id = runCase[r]
                   /\ runCase[r] \in KnownCases =>
                         status[r] \notin {"refused", "failed"}
                   /\ status[r] # "failed"
  BY DEF OnlyKnownCases
<1>1. CaseInv(r)
  BY DEF CasesInv
<1>2. CASE emitted[r] > 0
  <2>1. /\ runCase[r] \in KnownCases
        /\ transaction[r] = TransactionTable[CaseTable[runCase[r]].transaction_id]
    BY <1>1, <1>2 DEF CaseInv, Streamed
  <2> QED
    BY <1>1, <2>1 DEF TransactionsAgree, HasTransactions, KnownCases, CaseInv
<1>3. CASE ~(emitted[r] > 0)
  BY <1>1, <1>3 DEF CaseInv
<1> QED
  BY <1>2, <1>3

\* If every case has its own transaction, then an investigation streams only of a
\* case that exists, with that transaction, and no lookup fails half way
\* (mcp_client.py:20-45, api.py:40-47).
THEOREM KnownCasesOnly ==
    ASSUME TransactionsAgree
    PROVE Spec => []OnlyKnownCases
<1> DEFINE Inv == RunInv /\ started \in Seq(Runs) /\ CasesInv
<1>1. Init => Inv
  <2> SUFFICES ASSUME Init PROVE Inv
    OBVIOUS
  <2>1. RunInv /\ started \in Seq(Runs)
    BY RunInitInv, EmptySeq DEF Init
  <2>2. CasesInv
    BY <2>1 DEF Init, RunInit, RunInv, CasesInv, CaseInv, Streamed
  <2> QED
    BY <2>1, <2>2
<1>2. Inv /\ [Next]_sliceVars => Inv'
  BY RunNextInv, StartedNext, CasesNextInv
<1>3. Inv => OnlyKnownCases
  BY OnlyKnownCasesHolds
<1> QED
  BY <1>1, <1>2, <1>3, PTL DEF Spec

-----------------------------------------------------------------------------
(* The page. *)

LEMMA CurrentFacts ==
    ASSUME started \in Seq(Runs)
    PROVE /\ started = <<>> => Current = None /\ Seen = 0 /\ Len(started) = 0
          /\ started # <<>> => /\ Len(started) \in Nat \ {0}
                               /\ Current = started[Len(started)]
                               /\ Current \in Runs /\ Current \in PageRuns
                               /\ Current # None
                               /\ Seen = emitted[Current] - Len(stream[Current])
          /\ PageRuns \subseteq Runs
<1>1. CASE started = <<>>
  BY <1>1 DEF Current, Seen, PageRuns
<1>2. CASE started # <<>>
  <2>1. Len(started) \in Nat \ {0}
    BY <1>2, LenProperties, EmptySeq
  <2>2. Current = started[Len(started)] /\ Current \in Runs /\ Current \in PageRuns
    BY <1>2, <2>1 DEF Current, PageRuns
  <2> QED
    BY <1>2, <2>1, <2>2, InvestigatorUiAssumption DEF Seen, PageRuns
<1> QED
  BY <1>1, <1>2

LEMMA SeenRange ==
    ASSUME RunInv, started \in Seq(Runs)
    PROVE Seen \in 0 .. 7
<1>1. CASE started = <<>>
  BY <1>1, CurrentFacts
<1>2. CASE started # <<>>
  <2>1. /\ emitted[Current] \in 0 .. 7 /\ Len(stream[Current]) \in Nat
        /\ Len(stream[Current]) <= emitted[Current]
    BY <1>2, CurrentFacts, ProtocolFacts DEF RunInv, RunTypeOK, RunOK, StreamInv
  <2>2. \A e \in 0 .. 7, n \in Nat : n <= e => e - n \in 0 .. 7
    OBVIOUS
  <2>3. emitted[Current] - Len(stream[Current]) \in 0 .. 7
    BY <2>1, <2>2
  <2> QED
    BY <1>2, <2>3, CurrentFacts
<1> QED
  BY <1>1, <1>2

\* What a step that is not the page's does to the runs of the page: they go on,
\* and what is sent is not yet read.
KeepsPage ==
    \A q \in PageRuns :
        /\ status'[q] # "unused" /\ q \notin gone'
        /\ emitted'[q] - Len(stream'[q]) = emitted[q] - Len(stream[q])
        /\ status[q] = "finished" =>
              status'[q] = "finished" /\ Len(stream'[q]) = Len(stream[q])

pageVars == <<events, recommendation, decisionCard, running, started>>

LEMMA PageKept ==
    ASSUME RunInv, StartedInv, PageInv, KeepsPage, UNCHANGED pageVars
    PROVE StartedInv' /\ PageInv'
<1>1. started \in Seq(Runs) /\ UNCHANGED started
  BY DEF StartedInv, pageVars
<1>2. StartedInv'
  <2>1. ASSUME NEW i \in 1 .. Len(started) PROVE started[i] \in PageRuns
    BY DEF PageRuns
  <2> QED
    BY <1>1, <2>1 DEF StartedInv, KeepsPage
<1>3. Current' = Current
  BY <1>1 DEF Current
<1>4. Seen' = Seen
  <2>1. CASE started = <<>>
    BY <1>1, <2>1 DEF Seen
  <2>2. CASE started # <<>>
    BY <1>1, <1>3, <2>2, CurrentFacts DEF Seen, KeepsPage
  <2> QED
    BY <2>1, <2>2
<1>5. PageInv'
  BY <1>1, <1>3, <1>4 DEF PageInv, pageVars
<1> QED
  BY <1>2, <1>5

LEMMA KeepsPageUnchanged ==
    ASSUME StartedInv, UNCHANGED <<status, gone, emitted, stream>>
    PROVE KeepsPage
  BY DEF StartedInv, KeepsPage, PageRuns

\* The runs of the page are not unused, and nobody else leaves them.
LEMMA PageRunFacts ==
    ASSUME RunInv, StartedInv, NEW q \in PageRuns
    PROVE /\ q \in Runs /\ status[q] # "unused" /\ q \notin gone
          /\ emitted[q] \in Nat /\ Len(stream[q]) \in Nat
<1>1. PICK i \in 1 .. Len(started) : q = started[i]
  BY DEF PageRuns
<1>2. q \in Runs /\ status[q] # "unused" /\ q \notin gone
  BY <1>1 DEF StartedInv
<1> QED
  BY <1>2, ProtocolFacts DEF RunInv, RunTypeOK

LEMMA RequestKeepsPage ==
    ASSUME RunInv, StartedInv, NEW r \in Runs, RequestElsewhere(r)
    PROVE KeepsPage
<1>1. /\ status[r] = "unused" /\ UNCHANGED <<emitted, gone, stream>>
      /\ \A q \in Runs \ {r} : status'[q] = status[q]
  BY DEF RequestElsewhere, Intake, AgentRun, Becomes, RunInv, RunTypeOK
<1> QED
  BY <1>1, PageRunFacts DEF KeepsPage

LEMMA ReadKeepsPage ==
    ASSUME RunInv, StartedInv, NEW r \in Runs, ReadElsewhere(r)
    PROVE KeepsPage
<1>1. /\ r \notin PageRuns /\ UNCHANGED <<emitted, gone, status>>
      /\ \A q \in Runs \ {r} : Len(stream'[q]) = Len(stream[q])
  BY ReadInv DEF ReadElsewhere, Read
<1> QED
  BY <1>1, PageRunFacts DEF KeepsPage

LEMMA LeaveKeepsPage ==
    ASSUME RunInv, StartedInv, NEW r \in Runs, LeaveElsewhere(r)
    PROVE KeepsPage
<1>1. r \notin PageRuns /\ Leave({r}) /\ UNCHANGED <<emitted, status>>
  BY DEF LeaveElsewhere, Leave
<1>2. \A q \in Runs \ {r} : stream'[q] = stream[q] /\ (q \in gone' <=> q \in gone)
  BY <1>1, LeaveInv
<1> QED
  BY <1>1, <1>2, PageRunFacts DEF KeepsPage

LEMMA ServeKeepsPage ==
    ASSUME RunInv, StartedInv, NEW r \in Runs, ServeRun(r) \/ CancelRun(r)
    PROVE KeepsPage
<1>1. /\ status[r] \notin {"unused", "finished"} /\ status'[r] # "unused"
      /\ UNCHANGED gone
      /\ \A q \in Runs \ {r} : /\ status'[q] = status[q] /\ emitted'[q] = emitted[q]
  BY DEF ServeRun, CancelRun, Serve, Cancel, FindCase, FindTransaction, Emit, Send,
         RejectRunId, AskExplanation, ExplanationGiven, ExplanationFails, Becomes,
         RunInv, RunTypeOK
<1>2. CASE Emit(r)
  <2>1. /\ r \notin gone => Len(stream'[r]) = Len(stream[r]) + 1
        /\ \A q \in Runs \ {r} : Len(stream'[q]) = Len(stream[q])
        /\ emitted'[r] = emitted[r] + 1
    BY <1>2, SendInv DEF Emit, Send, RunInv, RunTypeOK
  <2>2. ASSUME NEW q \in PageRuns
        PROVE emitted'[q] - Len(stream'[q]) = emitted[q] - Len(stream[q])
    BY <1>1, <2>1, PageRunFacts
  <2> QED
    BY <1>1, <2>1, <2>2, PageRunFacts DEF KeepsPage
<1>3. CASE ~Emit(r)
  <2>1. UNCHANGED <<emitted, stream>>
    BY <1>3 DEF ServeRun, CancelRun, Serve, Cancel, FindCase, FindTransaction,
         RejectRunId, AskExplanation, ExplanationGiven, ExplanationFails
  <2> QED
    BY <1>1, <2>1, PageRunFacts DEF KeepsPage
<1> QED
  BY <1>2, <1>3

LEMMA RestartKeepsPage ==
    ASSUME RunInv, StartedInv, RestartService
    PROVE KeepsPage
<1>1. UNCHANGED <<emitted, stream, gone>>
  BY DEF RestartService, Restart
<1> QED
  BY <1>1, RestartInv, PageRunFacts DEF KeepsPage, RestartService

\* A new investigation starts when the last one is over and read to its end.
LEMMA StartPage ==
    ASSUME RunInv, StartedInv, PageInv, NEW r \in Runs, Start(r)
    PROVE StartedInv' /\ PageInv'
<1>1. started \in Seq(Runs) /\ Len(started) \in Nat
  BY DEF StartedInv
<1>2. /\ status[r] = "unused" /\ status'[r] # "unused"
      /\ UNCHANGED <<emitted, gone, stream>>
      /\ \A q \in Runs \ {r} : status'[q] = status[q]
  BY CaseOfUi DEF Start, AgentRun, Becomes, RunInv, RunTypeOK
<1>3. emitted[r] = 0 /\ Len(stream[r]) = 0 /\ r \notin gone
  <2>1. emitted[r] = 0 /\ Len(stream[r]) \in Nat /\ Len(stream[r]) <= emitted[r]
    BY <1>2 DEF RunInv, RunOK, StreamInv, StageInv
  <2> QED
    BY <1>2, <2>1 DEF RunInv, RunOK, StageInv
<1>4. /\ started' = Append(started, r) /\ started' \in Seq(Runs)
      /\ Len(started') = Len(started) + 1 /\ started' # <<>>
      /\ started'[Len(started) + 1] = r
      /\ \A i \in 1 .. Len(started) : started'[i] = started[i]
  BY <1>1, AppendProperties DEF Start
<1>5. Current' = r /\ Seen' = 0
  <2>1. Current' = r
    BY <1>1, <1>4 DEF Current
  <2> QED
    BY <1>2, <1>3, <1>4, <2>1 DEF Seen
<1>6. started # <<>> => status[Current] = "finished" /\ Len(stream[Current]) = 0
  <2> SUFFICES ASSUME started # <<>>
               PROVE status[Current] = "finished" /\ Len(stream[Current]) = 0
    OBVIOUS
  <2>1. Current \in Runs /\ Seen = emitted[Current] - Len(stream[Current])
    BY <1>1, CurrentFacts
  <2>2. ~(Seen < 7)
    BY DEF Start, StartInvestigation, PageInv
  <2>3. emitted[Current] \in 0 .. 7 /\ Len(stream[Current]) \in Nat
    BY <2>1, ProtocolFacts DEF RunInv, RunTypeOK
  <2>4. emitted[Current] = 7 /\ Len(stream[Current]) = 0
    BY <2>1, <2>2, <2>3
  <2> QED
    BY <2>1, <2>4 DEF RunInv, RunOK, StageInv
<1>7. StartedInv'
  <2> SUFFICES ASSUME NEW i \in 1 .. Len(started')
               PROVE /\ status'[started'[i]] # "unused" /\ started'[i] \notin gone'
                     /\ i # Len(started') =>
                           /\ status'[started'[i]] = "finished"
                           /\ Len(stream'[started'[i]]) = 0
    BY <1>4 DEF StartedInv
  <2>1. CASE i = Len(started) + 1
    BY <1>2, <1>3, <1>4, <2>1
  <2>2. CASE i # Len(started) + 1
    <3>1. i \in 1 .. Len(started) /\ started # <<>>
      BY <1>1, <1>4, <2>2
    <3>2. /\ started[i] \in Runs /\ started[i] # r /\ started[i] \notin gone
          /\ status[started[i]] = "finished" /\ Len(stream[started[i]]) = 0
      BY <1>1, <1>2, <1>6, <3>1, CurrentFacts DEF StartedInv
    <3> QED
      BY <1>2, <1>4, <3>1, <3>2
  <2> QED
    BY <2>1, <2>2
<1>8. PageInv'
  <2>1. /\ events' = <<>> /\ recommendation' = None /\ decisionCard' = None
        /\ running' = TRUE
    BY DEF Start, StartInvestigation
  <2>2. events' \in Seq([run : Runs, name : EventNames]) /\ Len(events') = 0
    BY <2>1, EmptySeq
  <2> QED
    BY <1>4, <1>5, <2>1, <2>2 DEF PageInv
<1> QED
  BY <1>7, <1>8

\* The page shows the events of its current run one after the other.
LEMMA DeliverPage ==
    ASSUME RunInv, StartedInv, PageInv, NEW r \in Runs, Deliver(r)
    PROVE StartedInv' /\ PageInv'
<1>1. started \in Seq(Runs) /\ UNCHANGED started /\ r \in PageRuns /\ Read(r)
  BY DEF StartedInv, Deliver
<1>2. /\ Len(stream[r]) \in 1 .. emitted[r] /\ emitted[r] \in 0 .. 7
      /\ Head(stream[r]) = Protocol[emitted[r] - Len(stream[r]) + 1]
      /\ Len(stream'[r]) = Len(stream[r]) - 1
      /\ \A q \in Runs \ {r} : Len(stream'[q]) = Len(stream[q])
      /\ UNCHANGED <<status, emitted, gone>>
  BY <1>1, ReadInv, ProtocolFacts DEF Read, RunInv, RunTypeOK
<1>3. r = Current /\ started # <<>>
  <2>1. PICK i \in 1 .. Len(started) : r = started[i]
    BY <1>1 DEF PageRuns
  <2>2. i = Len(started)
    BY <1>2, <2>1 DEF StartedInv
  <2>3. started # <<>>
    BY <2>1, EmptySeq
  <2> QED
    BY <1>1, <2>1, <2>2, <2>3, CurrentFacts
<1> DEFINE k == Seen
           name == Protocol[k + 1]
<1>4. k = emitted[r] - Len(stream[r]) /\ k \in 0 .. 6 /\ Head(stream[r]) = name
  <2>1. k = emitted[r] - Len(stream[r])
    BY <1>1, <1>3, CurrentFacts
  <2>2. k \in 0 .. 6
    <3> \A e \in 0 .. 7 : \A n \in 1 .. e : e - n \in 0 .. 6
      OBVIOUS
    <3> HIDE DEF k
    <3> QED
      BY <1>2, <2>1
  <2>3. Head(stream[r]) = name
    BY <1>2, <2>1
  <2> QED
    BY <2>1, <2>2, <2>3
<1>5. Current' = Current /\ Seen' = k + 1
  <2>1. Current' = Current
    BY <1>1 DEF Current
  <2>2. Seen' = emitted'[r] - Len(stream'[r])
    BY <1>1, <1>3, <2>1 DEF Seen
  <2>3. Seen' = emitted[r] - (Len(stream[r]) - 1)
    BY <1>2, <2>2
  <2>4. \A e, n \in Nat : e - (n - 1) = (e - n) + 1
    OBVIOUS
  <2>5. emitted[r] \in Nat /\ Len(stream[r]) \in Nat
    BY <1>2
  <2>6. Seen' = (emitted[r] - Len(stream[r])) + 1
    BY <2>3, <2>4, <2>5, Zenon
  <2>7. Seen' = k + 1
    BY <1>4, <2>6, Zenon
  <2> QED
    BY <2>1, <2>7
<1>6. StartedInv'
  <2> SUFFICES ASSUME NEW i \in 1 .. Len(started), i # Len(started)
               PROVE Len(stream'[started[i]]) = 0
    BY <1>1, <1>2 DEF StartedInv
  <2>1. started[i] \in Runs /\ Len(stream[started[i]]) = 0
    BY DEF StartedInv
  <2> QED
    BY <1>2, <2>1
<1>7. OnEvent(r, name)
  BY <1>4 DEF Deliver
<1>8. Len(events) \in Nat /\ Current # None /\ r \in Runs
  BY <1>1, <1>3, CurrentFacts DEF PageInv
<1> HIDE DEF k, name
<1>9. PageInv'
  <2>1. CASE k = 0
    <3>1. UNCHANGED <<events, recommendation, decisionCard, running>>
      BY <1>7, <2>1, ProtocolFacts DEF OnEvent, name
    <3> QED
      BY <1>1, <1>3, <1>5, <2>1, <3>1 DEF PageInv, k
  <2>2. CASE k \in 1 .. 5
    <3>1. /\ events' = Append(events, [run |-> r, name |-> name])
          /\ recommendation' = IF k = 4 THEN r ELSE recommendation
          /\ UNCHANGED <<decisionCard, running>>
      BY <1>7, <2>2, ProtocolFacts DEF OnEvent, OnCustomEvent, name
    <3>2. name \in EventNames
      BY <2>2, ProtocolFacts DEF name
    <3>3. [run |-> r, name |-> name] \in [run : Runs, name : EventNames]
      BY <3>2
    <3>4. /\ events' \in Seq([run : Runs, name : EventNames])
          /\ Len(events') = Len(events) + 1
          /\ events'[Len(events) + 1] = [run |-> r, name |-> name]
          /\ \A i \in 1 .. Len(events) : events'[i] = events[i]
      <4>1. events \in Seq([run : Runs, name : EventNames])
        BY DEF PageInv
      <4> QED
        BY <3>1, <3>3, <4>1, AppendProperties
    <3>5. Len(events) = k - 1
      BY <2>2 DEF PageInv, k
    <3>6. ASSUME NEW i \in 1 .. Len(events')
          PROVE events'[i] = [run |-> Current', name |-> Protocol[i + 1]]
      <4>1. CASE i = Len(events) + 1
        BY <1>3, <1>4, <1>5, <3>4, <3>5, <4>1 DEF name
      <4>2. CASE i # Len(events) + 1
        <5>1. i \in 1 .. Len(events)
          BY <1>8, <3>4, <4>2
        <5> QED
          BY <1>5, <3>4, <5>1 DEF PageInv
      <4> QED
        BY <4>1, <4>2
    <3>7. Len(events') = (IF Seen' <= 1 THEN 0 ELSE IF Seen' = 7 THEN 5
                                        ELSE Seen' - 1)
      BY <1>5, <2>2, <3>4, <3>5
    <3>8. /\ recommendation' = IF Seen' >= 5 THEN Current' ELSE None
          /\ decisionCard' = IF Seen' = 7 THEN Current' ELSE None
          /\ running' \in BOOLEAN /\ (running' <=> started' # <<>> /\ Seen' < 7)
      BY <1>1, <1>3, <1>5, <2>2, <3>1 DEF PageInv, k
    <3> QED
      BY <3>4, <3>6, <3>7, <3>8 DEF PageInv
  <2>3. CASE k = 6
    <3>1. /\ decisionCard' = r /\ running' = FALSE
          /\ UNCHANGED <<events, recommendation>>
      BY <1>7, <2>3, ProtocolFacts DEF OnEvent, OnRunFinishedEvent, name
    <3>2. Seen = 6 /\ Seen' = 7
      BY <1>5, <2>3 DEF k
    <3>3. Len(events') = 5 /\ recommendation' = Current' /\ decisionCard' = Current'
      BY <1>3, <1>5, <3>1, <3>2 DEF PageInv
    <3>4. \A i \in 1 .. Len(events') :
              events'[i] = [run |-> Current', name |-> Protocol[i + 1]]
      BY <1>5, <3>1 DEF PageInv
    <3>5. events' \in Seq([run : Runs, name : EventNames])
      BY <3>1 DEF PageInv
    <3>6. running' \in BOOLEAN /\ ~running'
      BY <3>1
    <3> QED
      BY <1>1, <1>3, <3>2, <3>3, <3>4, <3>5, <3>6 DEF PageInv
  <2> QED
    BY <1>4, <2>1, <2>2, <2>3
<1> QED
  BY <1>6, <1>9

LEMMA ReloadedPage ==
    ASSUME ReloadPage
    PROVE StartedInv' /\ PageInv'
<1>1. /\ started' = <<>> /\ events' = <<>> /\ recommendation' = None
      /\ decisionCard' = None /\ running' = FALSE
  BY DEF ReloadPage, Reload
<1>2. Seen' = 0 /\ Len(started') = 0 /\ started' \in Seq(Runs)
  BY <1>1, EmptySeq DEF Seen
<1>3. Len(events') = 0 /\ events' \in Seq([run : Runs, name : EventNames])
  BY <1>1, EmptySeq
<1>4. StartedInv'
  BY <1>2 DEF StartedInv
<1>5. \A i \in 1 .. Len(events') :
          events'[i] = [run |-> Current', name |-> Protocol[i + 1]]
  BY <1>3
<1>6. running' \in BOOLEAN /\ ~running' /\ started' = <<>>
  BY <1>1
<1>7. recommendation' = None /\ decisionCard' = None
  BY <1>1
<1>8. PageInv'
  BY <1>2, <1>3, <1>5, <1>6, <1>7 DEF PageInv
<1> QED
  BY <1>4, <1>8

LEMMA PageNextInv ==
    ASSUME RunInv, RunInv', StartedInv, PageInv, [Next]_sliceVars
    PROVE StartedInv' /\ PageInv'
<1>1. ASSUME NEW r \in Runs, Start(r) PROVE StartedInv' /\ PageInv'
  BY <1>1, StartPage
<1>2. ASSUME NEW r \in Runs, Deliver(r) PROVE StartedInv' /\ PageInv'
  BY <1>2, DeliverPage
<1>3. CASE ReloadPage
  BY <1>3, ReloadedPage
<1>4. ASSUME NEW r \in Runs,
             \/ RequestElsewhere(r) \/ ReadElsewhere(r) \/ LeaveElsewhere(r)
             \/ ServeRun(r) \/ CancelRun(r)
      PROVE StartedInv' /\ PageInv'
  <2>1. KeepsPage
    BY <1>4, RequestKeepsPage, ReadKeepsPage, LeaveKeepsPage, ServeKeepsPage
  <2>2. UNCHANGED pageVars
    BY <1>4 DEF RequestElsewhere, ReadElsewhere, LeaveElsewhere, ServeRun,
                CancelRun, uiVars, pageVars
  <2> QED
    BY <2>1, <2>2, PageKept
<1>5. CASE RestartService
  <2>1. UNCHANGED pageVars
    BY <1>5 DEF RestartService, uiVars, pageVars
  <2> QED
    BY <1>5, <2>1, RestartKeepsPage, PageKept
<1>6. ASSUME NEW p \in Posts, Decide(p) PROVE StartedInv' /\ PageInv'
  <2>1. UNCHANGED pageVars
    BY <1>6 DEF Decide, PostStep, Submit, ActionsDecision, RefuseDecision,
                FetchResolves, FetchRejects, PostUnchanged, pageVars
  <2>2. UNCHANGED <<status, gone, emitted, stream>>
    BY <1>6 DEF Decide, runVars
  <2> QED
    BY <2>1, <2>2, KeepsPageUnchanged, PageKept
<1>7. CASE UNCHANGED sliceVars
  <2>1. UNCHANGED pageVars /\ UNCHANGED <<status, gone, emitted, stream>>
    BY <1>7 DEF sliceVars, runVars, uiVars, pageVars
  <2> QED
    BY <2>1, KeepsPageUnchanged, PageKept
<1> QED
  BY <1>1, <1>2, <1>3, <1>4, <1>5, <1>6, <1>7 DEF Next

-----------------------------------------------------------------------------
(* Decisions. *)

\* A complete run stays complete.
LEMMA InformedKept ==
    ASSUME RunInv, started \in Seq(Runs), [Next]_sliceVars,
           NEW q \in Runs, status[q] = "finished", llm[q] = "given"
    PROVE status'[q] = "finished" /\ llm'[q] = "given"
<1>1. ASSUME NEW r \in Runs, Start(r) \/ RequestElsewhere(r)
      PROVE status'[q] = "finished" /\ llm'[q] = "given"
  BY <1>1 DEF Start, RequestElsewhere, AgentRun, Intake, Becomes, RunInv, RunTypeOK
<1>2. ASSUME NEW r \in Runs, ServeRun(r) \/ CancelRun(r)
      PROVE status'[q] = "finished" /\ llm'[q] = "given"
  BY <1>2 DEF ServeRun, CancelRun, Serve, Cancel, FindCase, FindTransaction, Emit,
         Send, RejectRunId, AskExplanation, ExplanationGiven, ExplanationFails,
         Becomes, RunInv, RunTypeOK
<1>3. CASE RestartService
  BY <1>3, RestartInv DEF RestartService, Restart
<1>4. CASE UNCHANGED <<status, llm>>
  BY <1>4
<1>5. \/ \E r \in Runs : \/ Start(r) \/ RequestElsewhere(r)
                         \/ ServeRun(r) \/ CancelRun(r)
      \/ RestartService
      \/ UNCHANGED <<status, llm>>
  BY DEF Next, Deliver, ReadElsewhere, LeaveElsewhere, Read, Leave, Decide,
         ReloadPage, runVars, sliceVars
<1> QED
  BY <1>1, <1>2, <1>3, <1>4, <1>5

\* The card is shown for a complete run only.
LEMMA CardIsInformed ==
    ASSUME RunInv, StartedInv, PageInv, decisionCard # None
    PROVE /\ decisionCard \in Runs
          /\ status[decisionCard] = "finished" /\ llm[decisionCard] = "given"
<1>1. Seen = 7 /\ decisionCard = Current
  BY DEF PageInv
<1>2. /\ Current \in Runs /\ Seen = emitted[Current] - Len(stream[Current])
  BY <1>1, CurrentFacts DEF StartedInv
<1>3. emitted[Current] \in 0 .. 7 /\ Len(stream[Current]) \in Nat
  BY <1>2, ProtocolFacts DEF RunInv, RunTypeOK
<1>4. emitted[Current] = 7
  BY <1>1, <1>2, <1>3
<1> QED
  BY <1>1, <1>2, <1>4 DEF RunInv, RunOK, StageInv, BeforeExplanation

\* A post that moves on keeps its decision.
LEMMA MovedPost ==
    ASSUME PostsInv, NEW p \in Posts,
           NEW from \in PostStates, NEW to \in PostStates,
           "unused" \notin {from, to}, Move(p, from, to)
    PROVE /\ posts' \in PostsType
          /\ \A q \in Posts : /\ posts'[q].decision = posts[q].decision
                              /\ posts'[q].state = "unused" <=>
                                    posts[q].state = "unused"
          /\ posts[p].decision \in Decision /\ Informed(posts[p].decision)
  BY DEF PostsInv, PostsType, Move

\* Posts are made on the card that is shown, and decisions come from posts.
LEMMA DecideInv ==
    ASSUME RunInv, StartedInv, PageInv, PostsInv, NEW p \in Posts, Decide(p)
    PROVE PostsInv'
<1>1. UNCHANGED <<status, llm>> /\ PostStep(p)
  BY DEF Decide, runVars
<1>2. CASE \E action \in Actions : Submit(p, action)
  <2>1. PICK action \in Actions : Submit(p, action)
    BY <1>2
  <2> DEFINE d == [run |-> decisionCard, action |-> action]
  <2>2. /\ posts' = [posts EXCEPT ![p] = [state |-> "sent", decision |-> d]]
        /\ UNCHANGED <<submittedAction, decisions>>
    BY <2>1 DEF Submit
  <2>3. d \in Decision /\ Informed(d) /\ "sent" \in PostStates
    BY <2>1, CardIsInformed DEF Submit, Decision, Informed, PostStates
  <2> HIDE DEF d
  <2>4. /\ posts' \in PostsType
        /\ posts'[p].decision = d /\ posts'[p].state = "sent"
        /\ \A q \in Posts \ {p} : posts'[q] = posts[q]
    BY <2>2, <2>3 DEF PostsInv, PostsType
  <2> QED
    BY <1>1, <2>2, <2>3, <2>4 DEF PostsInv, PostsType, Informed
<1>3. ASSUME NEW from \in PostStates, NEW to \in PostStates,
             "unused" \notin {from, to}, Move(p, from, to),
             decisions' \subseteq decisions \cup {posts[p].decision},
             submittedAction' \in {submittedAction, posts[p].decision}
      PROVE PostsInv'
  <2>1. /\ posts' \in PostsType
        /\ \A q \in Posts : /\ posts'[q].decision = posts[q].decision
                            /\ posts'[q].state = "unused" <=>
                                  posts[q].state = "unused"
        /\ posts[p].decision \in Decision /\ Informed(posts[p].decision)
    BY <1>3, MovedPost
  <2> QED
    BY <1>1, <1>3, <2>1 DEF PostsInv, PostsType, Informed
<1>4. CASE \/ ActionsDecision(p) \/ RefuseDecision(p)
           \/ FetchResolves(p) \/ FetchRejects(p)
  <2>1. \E from, to \in PostStates :
            /\ "unused" \notin {from, to} /\ Move(p, from, to)
            /\ decisions' \subseteq decisions \cup {posts[p].decision}
            /\ submittedAction' \in {submittedAction, posts[p].decision}
    BY <1>4 DEF ActionsDecision, RefuseDecision, FetchResolves, FetchRejects,
                PostStates
  <2> QED
    BY <1>3, <2>1
<1> QED
  BY <1>1, <1>2, <1>4 DEF PostStep

LEMMA PostsNextInv ==
    ASSUME RunInv, StartedInv, PageInv, PostsInv, [Next]_sliceVars
    PROVE PostsInv'
<1>1. ASSUME NEW p \in Posts, Decide(p) PROVE PostsInv'
  BY <1>1, DecideInv
<1>2. \A d \in Decision : Informed(d) => Informed(d)'
  <2> SUFFICES ASSUME NEW d \in Decision, Informed(d) PROVE Informed(d)'
    OBVIOUS
  <2>1. d.run \in Runs
    BY DEF Decision
  <2> QED
    BY <2>1, InformedKept DEF Informed, StartedInv
<1>3. CASE ReloadPage
  <2>1. DOMAIN posts' = Posts /\ submittedAction' = None /\ UNCHANGED decisions
    BY <1>3 DEF ReloadPage, Reload
  <2>2. posts' \in PostsType
    BY <1>3 DEF ReloadPage, Reload, PostsInv, PostsType, PostStates
  <2>3. \A p \in Posts : /\ posts'[p].decision = posts[p].decision
                         /\ posts'[p].state = "unused" <=> posts[p].state = "unused"
    BY <1>3 DEF ReloadPage, Reload, PostsInv, PostsType, PostStates
  <2> QED
    BY <1>2, <2>1, <2>2, <2>3 DEF PostsInv, PostsType
<1>4. CASE UNCHANGED <<submittedAction, posts, decisions>>
  BY <1>2, <1>4 DEF PostsInv, PostsType
<1>5. \/ \E p \in Posts : Decide(p)
      \/ ReloadPage
      \/ UNCHANGED <<submittedAction, posts, decisions>>
  BY DEF Next, Start, StartInvestigation, Deliver, OnEvent, RequestElsewhere,
         ReadElsewhere, LeaveElsewhere, ServeRun, CancelRun, RestartService,
         uiVars, sliceVars
<1> QED
  BY <1>1, <1>3, <1>4, <1>5

-----------------------------------------------------------------------------

Inv == RunInv /\ UiInv

LEMMA InitInv == Init => Inv
<1> SUFFICES ASSUME Init PROVE Inv
  OBVIOUS
<1>1. RunInv
  BY RunInitInv DEF Init
<1>2. started \in Seq(Runs) /\ Len(started) = 0 /\ Len(events) = 0
        /\ events \in Seq([run : Runs, name : EventNames])
  BY EmptySeq DEF Init, UiInit
<1>3. StartedInv
  BY <1>2 DEF StartedInv
<1>4. PageInv
  <2>1. Seen = 0 /\ running \in BOOLEAN /\ ~running /\ started = <<>>
    BY DEF Init, UiInit, Seen
  <2>2. recommendation = None /\ decisionCard = None
    BY DEF Init, UiInit
  <2> QED
    BY <1>2, <2>1, <2>2 DEF PageInv
<1>5. PostsInv
  BY DEF Init, UiInit, PostsInv, PostsType, PostStates
<1> QED
  BY <1>1, <1>3, <1>4, <1>5 DEF Inv, UiInv

LEMMA NextInv == Inv /\ [Next]_sliceVars => Inv'
<1> SUFFICES ASSUME RunInv, StartedInv, PageInv, PostsInv, [Next]_sliceVars
             PROVE RunInv' /\ StartedInv' /\ PageInv' /\ PostsInv'
  BY DEF Inv, UiInv
<1>1. RunInv'
  BY RunNextInv DEF StartedInv
<1> QED
  BY <1>1, PageNextInv, PostsNextInv

\* Runs, page and posts, for any number of each and any other clients.
THEOREM Invariance == Spec => []Inv
  BY InitInv, NextInv, PTL DEF Spec

LEMMA ShownHolds == Inv => ShownIsCurrent
<1> SUFFICES ASSUME RunInv, StartedInv, PageInv, PostsInv PROVE ShownIsCurrent
  BY DEF Inv, UiInv
<1>1. Seen \in 0 .. 7 /\ started \in Seq(Runs)
  BY SeenRange DEF StartedInv
<1>2. /\ started = <<>> => Current = None /\ Seen = 0
      /\ started # <<>> => Current \in Runs /\ Current # None
  BY <1>1, CurrentFacts
<1>3. UiTypeOK
  BY <1>2 DEF UiTypeOK, PageInv, PostsInv, PostsType
<1>4. Len(events) \in 0 .. 5
  BY <1>1 DEF PageInv
<1>5. \A i \in 1 .. Len(events) :
          events[i] = [run |-> Current, name |-> Milestones[i]]
  BY <1>4, MilestoneFacts DEF PageInv
<1>6. recommendation \in {None, Current} /\ decisionCard \in {None, Current}
  BY DEF PageInv
<1>7. recommendation # None <=> Len(events) >= BeforeExplanation
  BY <1>1, <1>2 DEF PageInv, BeforeExplanation
<1>8. decisionCard # None <=> ~running /\ started # <<>>
  BY <1>1, <1>2 DEF PageInv
<1>9. decisionCard # None => Len(events) = Len(Milestones)
  BY MilestoneFacts DEF PageInv
<1> QED
  BY <1>3, <1>5, <1>6, <1>7, <1>8, <1>9 DEF ShownIsCurrent

\* The page shows one investigation at a time, as far as it has come, whatever
\* else runs, reloads or restarts (App.tsx, agent.ts).
THEOREM ShownCurrent == Spec => []ShownIsCurrent
  BY Invariance, ShownHolds, PTL

LEMMA InformedHolds == Inv => DecisionsInformed
<1> SUFFICES ASSUME PostsInv,
                    NEW d \in decisions
                          \cup ({posts[p].decision : p \in Posts} \ {None})
             PROVE status[d.run] = "finished" /\ llm[d.run] = "given"
  BY DEF Inv, UiInv, DecisionsInformed
<1>1. CASE d \in decisions
  BY <1>1 DEF PostsInv, Informed
<1>2. ASSUME NEW p \in Posts, d = posts[p].decision, d # None
      PROVE status[d.run] = "finished" /\ llm[d.run] = "given"
  BY <1>2 DEF PostsInv, Informed
<1> QED
  BY <1>1, <1>2

\* No decision is made before its investigation is complete and explained
\* (App.tsx, DecisionCard.tsx, api.py).
THEOREM InformedDecisions == Spec => []DecisionsInformed
  BY Invariance, InformedHolds, PTL
=============================================================================
