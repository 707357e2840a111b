------------------------ MODULE ReviewArtifactRenderer ------------------------
(***************************************************************************)
(* The reports a run ends with (infra/renderers): the report for the       *)
(* authors, in one of three forms, and the internal audit.                 *)
(*                                                                         *)
(* A report is the sequence of its parts: what each is and whose words it  *)
(* has.  What the models gave is the set of the keys that hold something;  *)
(* of a review also how many comments it has.  Wording, language, tables   *)
(* and numbering are left out.                                             *)
(***************************************************************************)
EXTENDS Naturals, Sequences, FiniteSets, SequencesExt

Part(title, of) == [title |-> title, of |-> of]

When(condition, parts) == IF condition THEN parts ELSE << >>

\* What is given under a key, if it holds something.
Given(key, value, of) == When(key \in value, <<Part(key, of)>>)

decision_value(decision) == IF decision = "unset" THEN "REJECT" ELSE decision

venue_lines(venue) == When(venue, <<Part("target_venue", "")>>)

stage_snapshot_lines(stages) == When(stages # {}, <<Part("stage_outputs", "")>>)

\* LET v == value IN Body(v), of which TLC computes value once.
With(value, Body(_)) == CHOOSE result \in {Body(v) : v \in {value}} : TRUE

-----------------------------------------------------------------------------
(* What the associate editor merged into ae_final.                         *)

consensus_lines(ae_final) ==
    LET said == Given("consensus", ae_final, "associate editor")
                    \o Given("disagreement", ae_final, "associate editor")
                    \o Given("da_critical_flagged", ae_final, "associate editor")
    IN When(said # << >>, <<Part("consensus_disagreement", "associate editor")>> \o said)

traceability_lines(ae_final) == Given("rr_traceability_matrix", ae_final, "associate editor")

roadmap_lines(ae_final) ==
    When("revision_roadmap" \in ae_final,
         Given("revision_roadmap", ae_final, "associate editor")
            \o Given("must_fix", ae_final, "associate editor")
            \o Given("should_fix", ae_final, "associate editor")
            \o Given("nice_to_fix", ae_final, "associate editor")
            \o Given("rebuttal_strategy", ae_final, "associate editor"))

ae_final_lines(ae_final) ==
    <<Part("ae_final", "associate editor")>>
        \o Given("revision_checklist", ae_final, "associate editor")
        \o consensus_lines(ae_final)
        \o traceability_lines(ae_final)
        \o roadmap_lines(ae_final)

author_revision_lines(ae_final) ==
    Given("revision_checklist", ae_final, "associate editor") \o roadmap_lines(ae_final)

-----------------------------------------------------------------------------
(* The reviews.                                                            *)

\* sorted(s, key=rank): what has the same rank keeps its order.
Sorted(s, rank(_)) ==
    LET place(i) == Cardinality({k \in DOMAIN s : \/ rank(s[k]) < rank(s[i])
                                                  \/ rank(s[k]) = rank(s[i]) /\ k <= i})
    IN [n \in DOMAIN s |-> s[CHOOSE i \in DOMAIN s : place(i) = n]]

sorted_reports(reports) ==
    LET rank(r) == CASE r.reviewer_key = "reviewer1" -> 0
                     [] r.reviewer_key = "reviewer2" -> 1
                     [] r.reviewer_key = "reviewer3" -> 2
                     [] r.reviewer_key = "devils_advocate" -> 3
                     [] OTHER -> 99
    IN Sorted(reports, rank)

review_format_issues(report) ==
    \/ report.major_comments < 3
    \/ report.minor_comments < 2
    \/ report.questions_for_authors < 2
    \/ report.major_comments + report.minor_comments < 5

\* The known kinds of advice first, and any other after them; without one a
\* remark that there is none.
strategic_advice_lines(advice, of) ==
    LET said == Given("problem_roots", advice, of) \o Given("revision_plan", advice, of)
                    \o Given("other advice", advice, of)
    IN IF said # << >> THEN said ELSE <<Part("missing_advice", of)>>

\* weaknesses stands in for the major comments of an old prompt.
reviewer_lines(report, extras) ==
    LET of == report.reviewer_key
        counted(title, count) == When(count > 0, <<Part(title, of)>>)
    IN <<Part("reviewer", of), Part("summary", of)>>
        \o Given("overall_assessment", extras, of)
        \o <<Part("scores", of), Part("strengths", of)>>
        \o counted("major_comments",
                   report.major_comments + (IF "weaknesses" \in extras THEN 1 ELSE 0))
        \o counted("minor_comments", report.minor_comments)
        \o counted("questions_for_authors", report.questions_for_authors)
        \o Given("ethics_and_limitations", extras, of)
        \o When(review_format_issues(report), <<Part("format_check", of)>>)
        \o strategic_advice_lines(extras, of)

-----------------------------------------------------------------------------
(* The reports.  r holds what final_artifact_render_node passes on.        *)

render_invalid_submission_report(r) ==
    <<Part("invalid_submission_report", "INVALID_SUBMISSION"),
      Part("message", IF r.decision_letter # "" THEN r.decision_letter ELSE "default"),
      Part("next_steps", "")>>

\* The reasons are the senior editor's if there are any, whoever rejected.
render_desk_reject_report(r) ==
    LET whose(key, default) == IF key \in r.se_result THEN "senior editor"
                               ELSE IF key \in r.ae_result THEN "associate editor"
                               ELSE default
        reasons(key) == When(key \in r.se_result \cup r.ae_result, <<Part(key, whose(key, ""))>>)
    IN <<Part("desk_reject_report", "DESK_REJECT")>>
        \o venue_lines(r.venue_profile)
        \o <<Part("decision_letter", IF r.decision_letter # "" THEN r.decision_letter ELSE "default"),
             Part("editorial_assessment", whose("assessment", "default"))>>
        \o reasons("desk_reject_types")
        \o reasons("concerns")
        \o <<Part("revision_advice", "")>>

render_review_report(r) ==
    LET lines(reports) ==
            <<Part("review_report", decision_value(r.final_decision))>>
                \o venue_lines(r.venue_profile)
                \o When(r.decision_letter # "", <<Part("decision_letter", r.decision_letter)>>)
                \o When(r.ae_final # {}, author_revision_lines(r.ae_final))
                \o (IF reports # << >>
                    THEN FlattenSeq([i \in DOMAIN reports |-> reviewer_lines(reports[i], r.extras)])
                    ELSE stage_snapshot_lines(r.stage_outputs))
    IN With(sorted_reports(r.reviewer_reports), lines)

render_markdown(r) ==
    CASE decision_value(r.final_decision) = "INVALID_SUBMISSION" ->
            render_invalid_submission_report(r)
      [] decision_value(r.final_decision) = "DESK_REJECT" -> render_desk_reject_report(r)
      [] OTHER -> render_review_report(r)

render_internal_audit_markdown(r) ==
    LET lines(reports) ==
            <<Part("internal_audit_report", decision_value(r.final_decision))>>
                \o venue_lines(r.venue_profile)
                \o When(r.ae_final # {}, ae_final_lines(r.ae_final))
                \o [i \in DOMAIN reports |-> Part("reviewer_artifact_index", reports[i].reviewer_key)]
                \o stage_snapshot_lines(r.stage_outputs)
    IN With(sorted_reports(r.reviewer_reports), lines)
=============================================================================
