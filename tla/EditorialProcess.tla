-------------------------- MODULE EditorialProcess ---------------------------
(***************************************************************************)
(* What a review run promises, whatever its graph looks like: a submission *)
(* is either returned without review, or decided on by an editor who has   *)
(* every report of the panel the review mode asks for; the decision the    *)
(* editor froze is the one that is published, once.                        *)
(***************************************************************************)
CONSTANTS Mode, PanelOf, NoDecision

VARIABLES mode,       \* the review mode, fixed by the request
          panel,      \* whose reports the editor has
          verdict,    \* what the editor decided
          decision,   \* what was published
          state       \* "open", "delivered" or "abandoned"

vars == <<mode, panel, verdict, decision, state>>

Verdicts == {"ACCEPT", "MINOR_REVISION", "MAJOR_REVISION", "REJECT"}

Init == /\ mode \in Mode
        /\ panel = {}
        /\ verdict = NoDecision
        /\ decision = NoDecision
        /\ state = "open"

Open == state = "open"

\* The reports of a panel become visible to the editor together.
PanelReports ==
    /\ Open /\ decision = NoDecision /\ panel = {}
    /\ panel' = PanelOf[mode]
    /\ UNCHANGED <<mode, verdict, decision, state>>

Decide ==
    /\ Open /\ panel = PanelOf[mode] /\ verdict = NoDecision
    /\ verdict' \in Verdicts
    /\ UNCHANGED <<mode, panel, decision, state>>

Publish ==
    /\ Open /\ verdict # NoDecision /\ decision = NoDecision
    /\ decision' = verdict
    /\ UNCHANGED <<mode, panel, verdict, state>>

\* A panel of one decides and publishes with its report.
SoloReview ==
    /\ Open /\ decision = NoDecision /\ mode = "SINGLE_AGENT_REVIEW"
    /\ panel' = PanelOf[mode]
    /\ decision' \in Verdicts
    /\ verdict' = decision'
    /\ UNCHANGED <<mode, state>>

\* No report was asked for: the file could not be read, it is no paper, or an
\* editor rejected it, and only a full review has those editors.
ReturnUnreviewed ==
    /\ Open /\ panel = {} /\ decision = NoDecision
    /\ decision' \in {"REJECT", "INVALID_SUBMISSION"}
                        \cup (IF mode = "FULL_REVIEW" THEN {"DESK_REJECT"} ELSE {})
    /\ UNCHANGED <<mode, panel, verdict, state>>

\* Only a run that has published a decision is delivered.
Deliver ==
    /\ Open /\ decision # NoDecision
    /\ state' = "delivered"
    /\ UNCHANGED <<mode, panel, verdict, decision>>

Abandon ==
    /\ Open
    /\ state' = "abandoned"
    /\ UNCHANGED <<mode, panel, verdict, decision>>

Next == \/ PanelReports \/ Decide \/ Publish \/ SoloReview
        \/ ReturnUnreviewed \/ Deliver \/ Abandon

Spec == Init /\ [][Next]_vars
=============================================================================
