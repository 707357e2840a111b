----------------------------- MODULE ReviewNodes -----------------------------
(***************************************************************************)
(* The nodes of the review graph: the thin functions of graphs/nodes and   *)
(* the methods of ReviewNodes (graphs/review_nodes.py) behind them.  Each  *)
(* is an operator from the channels a node finds and the answer it gets to *)
(* the channels it leaves.                                                 *)
(*                                                                         *)
(* Abstracted: every text.  An answer is the one word that is routed on or *)
(* published ("other" for any word nobody expects, "thin" for a review     *)
(* with too few comments) and whether it holds a letter to the authors;    *)
(* of a review it is also how many comments it has.                        *)
(* The registered node ae_final has no edges and is left out.              *)
(***************************************************************************)
EXTENDS ReviewArtifactRenderer

Reviewers == {"reviewer1", "reviewer2", "reviewer3", "devils_advocate"}

Node == Reviewers \cup
    {"doc_parse", "parse_fail_output", "content_check", "invalid_file",
     "journal_req_collector", "field_analyst", "se_check", "ae_check",
     "review_dispatch", "single_reviewer", "ae_decision", "ae_report",
     "ae_finalize", "desk_reject_output", "final_artifact_render"}

Unset == "unset"
Verdicts == {"ACCEPT", "MINOR_REVISION", "MAJOR_REVISION", "REJECT"}
FinalDecision == Verdicts \cup {"DESK_REJECT", "INVALID_SUBMISSION"}

Stages == (Node \ {"journal_req_collector", "field_analyst"})
    \cup {"venue_profile", "journal_requirements", "field_analysis"}

Letters == {"", "message", "fallback", "senior editor", "associate editor",
            "single reviewer", "report"}

Report == [reviewer_key : Reviewers \cup {"single_reviewer"},
           major_comments : 0..3, minor_comments : 0..2, questions_for_authors : 0..2]

\* A report to read: what a part is, and whose words it has.
Titles ==
    {"review_report", "internal_audit_report", "invalid_submission_report", "desk_reject_report",
     "target_venue", "decision_letter", "message", "next_steps", "editorial_assessment",
     "desk_reject_types", "concerns", "revision_advice", "ae_final", "revision_checklist",
     "consensus_disagreement", "consensus", "disagreement", "da_critical_flagged",
     "rr_traceability_matrix", "revision_roadmap", "must_fix", "should_fix", "nice_to_fix",
     "rebuttal_strategy", "reviewer_artifact_index", "reviewer", "summary", "overall_assessment",
     "scores", "strengths", "major_comments", "minor_comments", "questions_for_authors",
     "ethics_and_limitations", "format_check", "problem_roots", "revision_plan", "other advice",
     "missing_advice", "stage_outputs"}

Voices == Letters \cup FinalDecision \cup Reviewers \cup {"single_reviewer", "default"}

Parts == Seq([title : Titles, of : Voices])

\* What ae_finalize merges of the decision and the report: the keys that hold
\* something.
AEFinal == {"revision_checklist", "consensus", "disagreement", "da_critical_flagged",
            "rr_traceability_matrix", "revision_roadmap", "must_fix", "should_fix",
            "nice_to_fix", "rebuttal_strategy"}

\* The channels of a run: those that are routed on, read without a default or
\* published.
GlobalState ==
    [parsed_paper : {Unset, "manuscript", "junk"},
     parse_error : {"", "unreadable", "no LLM configuration"},
     intent : {Unset, "VALID_PAPER", "NOT_PAPER"},
     journal_requirements : {Unset, "requirements"},
     se_decision : {Unset, "PASS", "DESK_REJECT"}, se_rejection_letter : BOOLEAN,
     ae_decision : {Unset, "SEND_FOR_REVIEW", "DESK_REJECT"},
     ae_rejection_letter : BOOLEAN, ae_result : {Unset, "screened", "default"},
     reviewer_reports : Seq(Report),
     ae_decision_result : FinalDecision \cup {Unset}, ae_report : BOOLEAN,
     ae_final : SUBSET AEFinal,
     final_decision : FinalDecision \cup {Unset}, decision_letter : Letters,
     rendered_artifacts : [author_report : Parts, internal_audit : Parts], stage_outputs : SUBSET Stages]

initial_state ==
    [parsed_paper |-> Unset, parse_error |-> "", intent |-> Unset,
     journal_requirements |-> Unset, se_decision |-> Unset,
     se_rejection_letter |-> FALSE, ae_decision |-> Unset,
     ae_rejection_letter |-> FALSE, ae_result |-> Unset, reviewer_reports |-> << >>,
     ae_decision_result |-> Unset, ae_report |-> FALSE, ae_final |-> {},
     final_decision |-> Unset, decision_letter |-> "", stage_outputs |-> {},
     rendered_artifacts |-> [author_report |-> << >>, internal_audit |-> << >>]]

-----------------------------------------------------------------------------
(* Answers: what a node may obtain from the parser, the model or the disk. *)

Words == FinalDecision \cup
    {"ok", "other", "thin", "PASS", "SEND_FOR_REVIEW", "paper", "no paper",
     "manuscript", "junk", "unreadable", "no LLM configuration"}

Answer == [word : Words, letter : BOOLEAN]

\* The parser is built with all the other dependencies of the nodes, by whoever
\* asks first: reading configs/llm.yaml may fail there.
get_review_nodes == {"no LLM configuration"}

Answers(n) ==
    CASE n = "doc_parse" -> [word : {"manuscript", "junk", "unreadable"} \cup get_review_nodes,
                             letter : {FALSE}]
      [] n = "content_check" -> [word : {"paper", "no paper"}, letter : {FALSE}]
      [] n = "se_check" -> [word : {"PASS", "DESK_REJECT", "other"}, letter : BOOLEAN]
      [] n = "ae_check" -> [word : {"SEND_FOR_REVIEW", "DESK_REJECT", "other"},
                            letter : BOOLEAN]
      [] n \in Reviewers -> [word : {"ok", "thin"}, letter : {FALSE}]
      [] n = "single_reviewer" -> [word : FinalDecision \cup {"other", "thin"}, letter : BOOLEAN]
      [] n = "ae_decision" -> [word : FinalDecision \cup {"other"}, letter : {FALSE}]
      [] n = "ae_report" -> [word : {"ok", "thin"} \cup Verdicts, letter : BOOLEAN]
      [] n = "final_artifact_render" -> [word : {"ok", "thin", "other"}, letter : {FALSE}]
      [] OTHER -> [word : {"ok"}, letter : {FALSE}]

\* What the answers need not have is chosen when it is first looked at, by the
\* renderer: all of it was given, none, or none by the senior editor.
Gave(who, a) == a.word = "ok" \/ (a.word = "other" /\ who # "senior editor")

\* The comments of a review; a thin one has one too few.
CommentsOf(a) ==
    [major_comments |-> IF a.word = "thin" THEN 2 ELSE 3,
     minor_comments |-> 2, questions_for_authors |-> 2]

\* The validators of core/output_schemas.py.
ReviewerOutputOfTwo(a) == CommentsOf(a).major_comments >= 2    \* mutant: two are enough

ReviewerOutput(a) ==
    LET has == CommentsOf(a) IN
    /\ has.major_comments >= 3 /\ has.minor_comments >= 2
    /\ has.questions_for_authors >= 2
    /\ has.major_comments + has.minor_comments >= 5

validate_reviewer_output(a) == ReviewerOutput(a)
validate_single_reviewer_output(a) == ReviewerOutput(a) /\ a.word \in Verdicts
validate_ae_decision_output(a) == a.word \in Verdicts
\* A report that decides again, has no letter or too few items is refused.
validate_ae_report_output(a) == a.word = "ok" /\ a.letter

NoValidator(n, a) == TRUE    \* mutant: the prompts have no validators

\* An answer its validator refuses makes the node fail, once the router has
\* given up.
validator_for_prompt(n, a) ==
    CASE n \in Reviewers -> validate_reviewer_output(a)
      [] n = "single_reviewer" -> validate_single_reviewer_output(a)
      [] n = "ae_decision" -> validate_ae_decision_output(a)
      [] n = "ae_report" -> validate_ae_report_output(a)
      [] OTHER -> TRUE

\* Only nodes that call the parser, a model, the venue files or the renderer
\* can raise.
MayRaise(n) ==
    n \notin {"parse_fail_output", "invalid_file", "desk_reject_output",
              "review_dispatch", "ae_finalize"}

\* The channels a node reads as state[...]: without one of them it raises.
Mandatory(n) ==
    CASE n = "content_check" -> {"parsed_paper"}
      [] n \in Reviewers \cup {"field_analyst", "se_check", "ae_check",
                               "single_reviewer", "ae_decision"} ->
            {"parsed_paper", "journal_requirements"}
      [] n = "ae_report" ->
            {"parsed_paper", "journal_requirements", "ae_decision_result"}
      [] OTHER -> {}

MissingChannels(n, s) == {c \in Mandatory(n) : s[c] = Unset}

-----------------------------------------------------------------------------
(* The methods: what the answer is reduced to.                             *)

\* The text is looked at before the model is asked.
obvious_non_paper_reason(s) == s.parsed_paper = "junk"

content_check(s, a) ==
    IF obvious_non_paper_reason(s) \/ a.word = "no paper" THEN "NOT_PAPER" ELSE "VALID_PAPER"

\* Mutant: the model's word is routed on as it is.
EditorDecisionRaw(word, otherwise) == word

\* se_check and ae_check reduce the model's word to the two values the graph
\* routes on.
EditorDecision(word, otherwise) ==
    IF word = "DESK_REJECT" THEN "DESK_REJECT" ELSE otherwise

se_check(a) ==
    [se_decision |-> EditorDecision(a.word, "PASS"), se_rejection_letter |-> a.letter]

ae_check(a) ==
    [ae_decision |-> EditorDecision(a.word, "SEND_FOR_REVIEW"),
     ae_rejection_letter |-> a.letter]

\* A comment of any form becomes a comment; the other fields are text or a
\* number, with a default where the answer lacks them.
report_from_result(reviewer_key, a) ==
    LET has == CommentsOf(a) IN
    [reviewer_key |-> reviewer_key, major_comments |-> has.major_comments,
     minor_comments |-> has.minor_comments,
     questions_for_authors |-> has.questions_for_authors]

\* The prompts of the deciding editor quote the reports by the reviewer's key.
ae_review_context(s) == {s.reviewer_reports[i].reviewer_key : i \in DOMAIN s.reviewer_reports}

final_decision_of(word) == IF word \in FinalDecision THEN word ELSE "MAJOR_REVISION"

\* A solo review without a letter is published with its assessment or summary.
single_reviewer(a) ==
    [report |-> report_from_result("single_reviewer", a),
     final_decision |-> final_decision_of(a.word),
     decision_letter |-> IF a.letter \/ a.word # "thin" THEN "single reviewer" ELSE ""]

ae_decision(a) == final_decision_of(a.word)

ae_report(a) == a.letter

\* Mutant: "ae_result" in state is not tested.
DefaultContextAlways(s) == TRUE

\* review_dispatch stands in for the editors nobody asked.
NeedsDefaultContext(s) == s.ae_result = Unset

default_quick_review_ae_result ==
    [ae_decision |-> "SEND_FOR_REVIEW", ae_rejection_letter |-> FALSE]

-----------------------------------------------------------------------------
(* The nodes: the channels they write.                                     *)

\* Whatever is an OSError or a KeyError counts as an unreadable paper, a
\* missing configuration of the models too.
doc_parse_node(s, a) ==
    IF a.word \in {"manuscript", "junk"} THEN [s EXCEPT !.parsed_paper = a.word]
    ELSE [s EXCEPT !.parse_error = a.word]

parse_fail_output_node(s) ==
    [s EXCEPT !.final_decision = "REJECT", !.decision_letter = "message"]

content_check_node(s, a) == [s EXCEPT !.intent = content_check(s, a)]

invalid_file_node(s) ==
    [s EXCEPT !.final_decision = "INVALID_SUBMISSION", !.decision_letter = "message"]

\* Without a venue file the requirements are an empty text, but there.
journal_req_collector_node(s) == [s EXCEPT !.journal_requirements = "requirements"]

se_check_node(s, a) ==
    LET result == se_check(a) IN
    [s EXCEPT !.se_decision = result.se_decision,
              !.se_rejection_letter = result.se_rejection_letter]

ae_check_node(s, a) ==
    LET result == ae_check(a) IN
    [s EXCEPT !.ae_result = "screened", !.ae_decision = result.ae_decision,
              !.ae_rejection_letter = result.ae_rejection_letter]

review_dispatch_node(s) ==
    IF NeedsDefaultContext(s)
    THEN [s EXCEPT !.ae_result = "default",
                   !.ae_decision = default_quick_review_ae_result.ae_decision]
    ELSE s

\* Mutant: the channel has no "add" reducer.
ReportReplaced(s, report) == [s EXCEPT !.reviewer_reports = <<report>>]

ReportAdded(s, report) == [s EXCEPT !.reviewer_reports = Append(@, report)]

\* reviewer1 to reviewer3; the devil's advocate has a node of its own.
run_reviewer(s, n, a) == ReportAdded(s, report_from_result(n, a))

devils_advocate_node(s, a) == ReportAdded(s, report_from_result("devils_advocate", a))

single_reviewer_node(s, a) ==
    LET result == single_reviewer(a) IN
    [ReportAdded(s, result.report) EXCEPT !.final_decision = result.final_decision,
                                          !.decision_letter = result.decision_letter]

ae_decision_node(s, a) == [s EXCEPT !.ae_decision_result = ae_decision(a)]

ae_report_node(s, a) == [s EXCEPT !.ae_report = ae_report(a)]

\* consensus_disagreement and the lists of the roadmap are there, but may be empty.
ae_finalize_node(s) ==
    [s EXCEPT !.ae_final = AEFinal, !.final_decision = s.ae_decision_result,
              !.decision_letter = IF s.ae_report THEN "report" ELSE ""]

\* The senior editor's letter comes first, whoever rejected.
desk_reject_output_node(s) ==
    [s EXCEPT !.final_decision = "DESK_REJECT",
              !.decision_letter = IF s.se_rejection_letter THEN "senior editor"
                                  ELSE IF s.ae_rejection_letter THEN "associate editor"
                                  ELSE "fallback"]

\* author_report.md, which is final_report.md too, and internal_audit.md.
final_artifact_render_node(s, a) ==
    LET editor(who, asked) == IF asked /\ Gave(who, a)
                              THEN {"assessment", "desk_reject_types", "concerns"} ELSE {}
        filled == {"revision_checklist", "rr_traceability_matrix", "revision_roadmap"}
        r == [final_decision |-> s.final_decision, decision_letter |-> s.decision_letter,
              venue_profile |-> "venue_profile" \in s.stage_outputs /\ Gave("venue", a),
              se_result |-> editor("senior editor", s.se_decision # Unset),
              ae_result |-> editor("associate editor", s.ae_result # Unset),
              reviewer_reports |-> s.reviewer_reports,
              ae_final |-> IF Gave("panel", a) THEN s.ae_final ELSE s.ae_final \cap filled,
              extras |-> IF Gave("panel", a)
                         THEN {"overall_assessment", "ethics_and_limitations", "problem_roots",
                               "revision_plan", "weaknesses"} ELSE {},
              stage_outputs |-> s.stage_outputs]
    IN [s EXCEPT !.rendered_artifacts =
           [author_report |-> render_markdown(r),
            internal_audit |-> render_internal_audit_markdown(r)]]

Writes(n, a, s) ==
    CASE n = "doc_parse" -> doc_parse_node(s, a)
      [] n = "parse_fail_output" -> parse_fail_output_node(s)
      [] n = "content_check" -> content_check_node(s, a)
      [] n = "invalid_file" -> invalid_file_node(s)
      [] n = "journal_req_collector" -> journal_req_collector_node(s)
      [] n = "field_analyst" -> s
      [] n = "se_check" -> se_check_node(s, a)
      [] n = "ae_check" -> ae_check_node(s, a)
      [] n = "review_dispatch" -> review_dispatch_node(s)
      [] n \in Reviewers \ {"devils_advocate"} -> run_reviewer(s, n, a)
      [] n = "devils_advocate" -> devils_advocate_node(s, a)
      [] n = "single_reviewer" -> single_reviewer_node(s, a)
      [] n = "ae_decision" -> ae_decision_node(s, a)
      [] n = "ae_report" -> ae_report_node(s, a)
      [] n = "ae_finalize" -> ae_finalize_node(s)
      [] n = "desk_reject_output" -> desk_reject_output_node(s)
      [] n = "final_artifact_render" -> final_artifact_render_node(s, a)

StagesOf(n, s) ==
    CASE n = "journal_req_collector" -> {"venue_profile", "journal_requirements"}
      [] n = "field_analyst" -> {"field_analysis"}
      [] n = "review_dispatch" /\ NeedsDefaultContext(s) -> {"review_dispatch", "ae_check"}
      [] OTHER -> {n}
=============================================================================
