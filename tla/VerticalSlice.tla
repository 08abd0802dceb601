--------------------------- MODULE VerticalSlice ---------------------------
(***************************************************************************)
(* The vertical slice: the page of investigator-ui and the runs it starts  *)
(* on transaction-agent, among runs that other clients start there, with   *)
(* /intake or /agent/run.  A click on the start button sends the request;  *)
(* the page's subscribers read the streams of the page's runs, whichever   *)
(* has an event to read; the decision posts go to the same service, which  *)
(* logs them.  The page may be reloaded and other clients may hang up; the *)
(* service may be restarted.                                               *)
(***************************************************************************)
EXTENDS InvestigationRun, InvestigatorUi

CONSTANT UiCase   \* the case the page asks for

ASSUME VerticalSliceAssumption == UiCase \in KnownCases

VARIABLE started   \* the runs the page has started, in order

sliceVars == <<runVars, uiVars, started>>

PageRuns == {started[i] : i \in 1 .. Len(started)}
Current == IF started = <<>> THEN None ELSE started[Len(started)]

Init == RunInit /\ UiInit /\ started = <<>>

\* startInvestigation, and the request that it makes the service.
Start(r) ==
    /\ StartInvestigation
    /\ AgentRun(r, UiCase, FALSE)
    /\ started' = Append(started, r)

\* The page's subscriber of run r reads the next event of its stream.
Deliver(r) ==
    /\ r \in PageRuns
    /\ Read(r)
    /\ OnEvent(r, Head(stream[r]))
    /\ UNCHANGED started

\* Another client asks for a run, and reads its stream.
RequestElsewhere(r) ==
    /\ \E c \in Cases \cup {BlankCase} :
            Intake(r, c) \/ \E blankId \in BOOLEAN : AgentRun(r, c, blankId)
    /\ UNCHANGED <<uiVars, started>>

ReadElsewhere(r) ==
    /\ r \notin PageRuns
    /\ Read(r)
    /\ UNCHANGED <<uiVars, started>>

LeaveElsewhere(r) ==
    /\ r \notin PageRuns \cup gone
    /\ Leave({r})
    /\ UNCHANGED <<uiVars, started>>

\* The page is reloaded: the browser drops its connections and its state.
ReloadPage ==
    /\ Leave(PageRuns)
    /\ Reload
    /\ started' = <<>>

RestartService == Restart /\ UNCHANGED <<uiVars, started>>

CancelRun(r) == Cancel(r) /\ UNCHANGED <<uiVars, started>>

ServeRun(r) == Serve(r) /\ UNCHANGED <<uiVars, started>>

Decide(p) == PostStep(p) /\ UNCHANGED <<runVars, started>>

Next ==
    \/ \E r \in Runs :
        \/ Start(r) \/ Deliver(r)
        \/ RequestElsewhere(r) \/ ReadElsewhere(r) \/ LeaveElsewhere(r)
        \/ ServeRun(r) \/ CancelRun(r)
    \/ \E p \in Posts : Decide(p)
    \/ ReloadPage
    \/ RestartService

\* The service goes on with every run, within the 30 seconds its client allows
\* the model, and clients read what arrives.  The investigator owes nothing,
\* and a decision post may hang.
Fairness ==
    \A r \in Runs : /\ WF_sliceVars(ServeRun(r))
                    /\ WF_sliceVars(Deliver(r) \/ ReadElsewhere(r))

Spec == Init /\ [][Next]_sliceVars
FairSpec == Spec /\ Fairness

-----------------------------------------------------------------------------
(* Properties. *)

\* The page never mixes two investigations, and never runs ahead of the one it
\* shows: timeline and event list are what this run has sent so far, in order
\* and without repetition, there is a recommendation only under a milestone
\* for it, and a card only when the run is complete and the button free.
ShownIsCurrent ==
    /\ UiTypeOK
    /\ \A i \in 1 .. Len(events) :
            events[i] = [run |-> Current, name |-> Milestones[i]]
    /\ recommendation \in {None, Current}
    /\ recommendation # None <=> Len(events) >= BeforeExplanation
    /\ decisionCard \in {None, Current}
    /\ decisionCard # None <=> ~running /\ started # <<>>
    /\ decisionCard # None => Len(events) = Len(Milestones)

\* The investigator decides, but only on what an investigation has found: no
\* decision is logged, or under way, for a run that is not complete with the
\* model's explanation.
DecisionsInformed ==
    \A d \in decisions \cup ({posts[p].decision : p \in Posts} \ {None}) :
        status[d.run] = "finished" /\ llm[d.run] = "given"

\* Every investigation the page starts is shown to its end, with a card to
\* decide on, unless the explanation fails, the service is restarted under it
\* or the page reloaded.
InvestigationShown ==
    \A r \in Runs :
        r \in PageRuns /\ status[r] = "finding_case"
            ~> \/ decisionCard = r
               \/ status[r] \in {"broken", "lost"}
               \/ r \notin PageRuns

(* What the documents say and the page does not do; see the README. *)

\* The final decision on every investigation is the investigator's: what the
\* page shows as recorded was decided on the card it stands under.
RecordedForThisCard ==
    decisionCard # None /\ submittedAction # None
        => submittedAction.run = decisionCard

\* "Recorded" means logged by the backend.
RecordedWasLogged ==
    submittedAction # None => submittedAction \in decisions
=============================================================================
