----------------------------- MODULE AgUiStream -----------------------------
(***************************************************************************)
(* What transaction-agent and investigator-ui share: the runs, and the     *)
(* AG-UI events of one, in the order run_investigation yields them.        *)
(***************************************************************************)
EXTENDS Naturals, Sequences

CONSTANT Runs   \* requests, by the run id their client chose

Protocol == <<"RUN_STARTED", "investigation.accepted", "specialist.started",
              "specialist.finding_received", "recommendation.produced",
              "investigation.completed", "RUN_FINISHED">>

EventNames == {Protocol[i] : i \in 1 .. Len(Protocol)}

BeforeExplanation == 4   \* events sent before the model is asked

\* The CUSTOM events, which are also the timeline of the page.
Milestones == SubSeq(Protocol, 2, Len(Protocol) - 1)
=============================================================================
