--------------------------- MODULE InvestigatorUi ---------------------------
(***************************************************************************)
(* investigator-ui: the page.  App keeps what one investigation has shown  *)
(* so far and whether it runs; DecisionCard keeps the action the           *)
(* investigator submitted.  Actions are what the page does on a click, on  *)
(* an event of a stream it reads, and on the answer of a POST to           *)
(* /actions/decision.  VerticalSlice connects them to transaction-agent.   *)
(*                                                                         *)
(* Each piece of what is shown carries the run it came from, which the     *)
(* page itself does not know: every run is about the same case.            *)
(***************************************************************************)
EXTENDS AgUiStream

CONSTANTS Posts,     \* decision posts, one per click
          Actions,   \* the allowed actions of a decision card
          None

ASSUME InvestigatorUiAssumption == None \notin Runs

VARIABLES
    events,            \* the CUSTOM events shown, with their run
    recommendation,    \* the run whose recommendation is shown, or None
    decisionCard,      \* the run whose card is shown, or None
    running,           \* the start button is disabled
    submittedAction,   \* shown as "Recorded", with its card's run, or None
    posts,             \* posts[p]: state, run and action of a post
    decisions          \* what the backend has logged

uiVars == <<events, recommendation, decisionCard, running, submittedAction,
            posts, decisions>>

Decision == [run: Runs, action: Actions]
PostStates == {"unused",
               "sent",      \* on its way to the backend
               "orphaned",  \* the same, and the page that sent it is gone
               "logged", "refused",  \* answered, and the answer on its way
               "over"}

UiTypeOK ==
    /\ events \in Seq([run: Runs, name: EventNames])
    /\ recommendation \in Runs \cup {None}
    /\ decisionCard \in Runs \cup {None}
    /\ running \in BOOLEAN
    /\ submittedAction \in Decision \cup {None}
    /\ posts \in [Posts -> [state: PostStates, decision: Decision \cup {None}]]
    /\ decisions \subseteq Decision

UiInit ==
    /\ events = <<>>
    /\ recommendation = None
    /\ decisionCard = None
    /\ running = FALSE
    /\ submittedAction = None
    /\ posts = [p \in Posts |-> [state |-> "unused", decision |-> None]]
    /\ decisions = {}

-----------------------------------------------------------------------------
\* Wrong on purpose: the button stays enabled during an investigation.
StartAgain ==
    /\ events' = <<>>
    /\ recommendation' = None
    /\ decisionCard' = None
    /\ running' = TRUE
    /\ UNCHANGED <<submittedAction, posts, decisions>>

\* The start button: the page forgets the last investigation, its card too, but
\* the card's component stays mounted and keeps its submittedAction.
StartInvestigation ==
    /\ ~running
    /\ events' = <<>>
    /\ recommendation' = None
    /\ decisionCard' = None
    /\ running' = TRUE
    /\ UNCHANGED <<submittedAction, posts, decisions>>

\* Wrong on purpose: the card is shown as soon as there is a recommendation.
OnCustomEventEarly(r, name) ==
    /\ events' = Append(events, [run |-> r, name |-> name])
    /\ IF name = "recommendation.produced"
       THEN recommendation' = r /\ decisionCard' = r
       ELSE UNCHANGED <<recommendation, decisionCard>>
    /\ UNCHANGED running

\* The subscriber of run r gets an event: onEvent keeps the CUSTOM ones and
\* onRunFinishedEvent shows the card.
OnCustomEvent(r, name) ==
    /\ events' = Append(events, [run |-> r, name |-> name])
    /\ recommendation' =
            IF name = "recommendation.produced" THEN r ELSE recommendation
    /\ UNCHANGED <<decisionCard, running>>

\* Wrong on purpose: no component of the result is found to be the card.
OnRunFinishedCardless(r) ==
    /\ running' = FALSE
    /\ UNCHANGED <<events, recommendation, decisionCard>>

OnRunFinishedEvent(r) ==
    /\ decisionCard' = r
    /\ running' = FALSE
    /\ UNCHANGED <<events, recommendation>>

OnEvent(r, name) ==
    /\ CASE name = "RUN_STARTED" ->
                UNCHANGED <<events, recommendation, decisionCard, running>>
         [] name = "RUN_FINISHED" -> OnRunFinishedEvent(r)
         [] OTHER -> OnCustomEvent(r, name)
    /\ UNCHANGED <<submittedAction, posts, decisions>>

-----------------------------------------------------------------------------
\* Submitting: the buttons are disabled by submittedAction, which is set only
\* when fetch returns; until then they can be clicked again.
PostUnchanged == UNCHANGED <<events, recommendation, decisionCard, running>>

Move(p, from, to) ==
    /\ posts[p].state = from
    /\ posts' = [posts EXCEPT ![p].state = to]

Submit(p, action) ==
    /\ decisionCard # None
    /\ submittedAction = None
    /\ posts[p].state = "unused"
    /\ posts' = [posts EXCEPT ![p] =
            [state |-> "sent",
             decision |-> [run |-> decisionCard, action |-> action]]]
    /\ PostUnchanged
    /\ UNCHANGED <<submittedAction, decisions>>

\* POST /actions/decision: logged and answered 204.
ActionsDecision(p) ==
    /\ Move(p, "sent", "logged") \/ Move(p, "orphaned", "over")
    /\ decisions' = decisions \cup {posts[p].decision}
    /\ PostUnchanged
    /\ UNCHANGED submittedAction

\* Answered with an error status: a restart, a gateway or the validation.
RefuseDecision(p) ==
    /\ Move(p, "sent", "refused")
    /\ PostUnchanged
    /\ UNCHANGED <<submittedAction, decisions>>

\* fetch resolves, whatever the status.
FetchResolves(p) ==
    /\ Move(p, "logged", "over") \/ Move(p, "refused", "over")
    /\ submittedAction' = posts[p].decision
    /\ PostUnchanged
    /\ UNCHANGED decisions

\* fetch rejects: no connection, or it broke before the answer.
FetchRejects(p) ==
    /\ Move(p, "sent", "over") \/ Move(p, "logged", "over")
       \/ Move(p, "orphaned", "over")
    /\ PostUnchanged
    /\ UNCHANGED <<submittedAction, decisions>>

\* A reload of the page: a new App and a new DecisionCard, in their initial
\* states; nothing waits for the posts under way any more.
Reload ==
    /\ events' = <<>>
    /\ recommendation' = None
    /\ decisionCard' = None
    /\ running' = FALSE
    /\ submittedAction' = None
    /\ posts' = [p \in Posts |->
            CASE posts[p].state = "sent" -> [posts[p] EXCEPT !.state = "orphaned"]
              [] posts[p].state \in {"logged", "refused"} ->
                    [posts[p] EXCEPT !.state = "over"]
              [] OTHER -> posts[p]]
    /\ UNCHANGED decisions

PostStep(p) ==
    \/ \E action \in Actions : Submit(p, action)
    \/ ActionsDecision(p) \/ RefuseDecision(p)
    \/ FetchResolves(p) \/ FetchRejects(p)
=============================================================================
