----------------------------- MODULE JobProgress -----------------------------
(***************************************************************************)
(* What the API computes from a job's record for the progress bar:         *)
(* _review_progress_path and _job_progress of api/app.py.  The path is a   *)
(* guess: the record holds the nodes that have reported, not the branch    *)
(* the run will take.                                                      *)
(***************************************************************************)
EXTENDS Naturals, Sequences, FiniteSets, SequencesExt

ReviewMode == {"FULL_REVIEW", "QUICK_REVIEW", "SINGLE_AGENT_REVIEW"}

\* _FULL_REVIEW_PROGRESS_PATH and its siblings, from their common pieces.
Opening == <<"doc_parse", "content_check", "journal_req_collector", "field_analyst">>
ExternalReview == <<"review_dispatch", "reviewer1", "reviewer2", "reviewer3",
                    "devils_advocate", "ae_decision", "ae_report", "ae_finalize",
                    "final_artifact_render">>
QuickPath == Opening \o ExternalReview
FullPath == Opening \o <<"se_check", "ae_check">> \o ExternalReview
SinglePath == Opening \o <<"single_reviewer", "final_artifact_render">>

\* nodes maps a node's name to NONE (not in the record), RUNNING, SUCCEEDED or
\* FAILED.
ReviewProgressPathForgetsAE(mode, nodes) ==     \* mutant: only SE rejects
    LET Seen(n) == nodes[n] # "NONE" IN
    CASE Seen("parse_fail_output") ->
            <<"doc_parse", "parse_fail_output", "final_artifact_render">>
      [] Seen("invalid_file") ->
            <<"doc_parse", "content_check", "invalid_file", "final_artifact_render">>
      [] Seen("desk_reject_output") -> Opening
            \o <<"se_check", "desk_reject_output", "final_artifact_render">>
      [] OTHER -> CASE mode = "SINGLE_AGENT_REVIEW" -> SinglePath
                    [] mode = "QUICK_REVIEW" -> QuickPath
                    [] mode = "FULL_REVIEW" -> FullPath

\* At most one of the three exits is ever seen, so their order is immaterial.
ReviewProgressPath(mode, nodes) ==
    LET Seen(n) == nodes[n] # "NONE" IN
    CASE Seen("parse_fail_output") ->
            <<"doc_parse", "parse_fail_output", "final_artifact_render">>
      [] Seen("invalid_file") ->
            <<"doc_parse", "content_check", "invalid_file", "final_artifact_render">>
      [] Seen("desk_reject_output") -> Opening
            \o (IF Seen("ae_check") THEN <<"se_check", "ae_check">> ELSE <<"se_check">>)
            \o <<"desk_reject_output", "final_artifact_render">>
      [] OTHER -> CASE mode = "SINGLE_AGENT_REVIEW" -> SinglePath
                    [] mode = "QUICK_REVIEW" -> QuickPath
                    [] mode = "FULL_REVIEW" -> FullPath

-----------------------------------------------------------------------------
\* Python's round: to the nearest integer, a half to the even one.
Rounded(n, d) ==
    LET floor == n \div d
        twice == 2 * (n % d)
    IN  IF twice > d \/ (twice = d /\ floor % 2 = 1) THEN floor + 1 ELSE floor

CompletedNodes(path, nodes) ==
    Cardinality({i \in DOMAIN path : nodes[path[i]] = "SUCCEEDED"})

\* Mutant: a failed run's bar is reset.
PercentResets(path, nodes, status) ==
    CASE status = "SUCCEEDED" -> 100
      [] status = "FAILED" -> 0
      [] OTHER -> Rounded(100 * CompletedNodes(path, nodes), Len(path))

Percent(path, nodes, status) ==
    IF status = "SUCCEEDED" THEN 100
    ELSE Rounded(100 * CompletedNodes(path, nodes), Len(path))

TerminalStatus == {"SUCCEEDED", "FAILED", "CANCELED"}

ActiveNodes(path, nodes, status) ==
    {n \in ToSet(path) : status \notin TerminalStatus /\ nodes[n] = "RUNNING"}

\* Mutant: a node that has started is not "next" any more.
NextNodesNotStarted(path, nodes, status) ==
    {path[i] : i \in {k \in DOMAIN path :
        /\ status \notin TerminalStatus
        /\ nodes[path[k]] = "NONE"
        /\ \A h \in 1..(k - 1) : nodes[path[h]] # "NONE"}}

\* next_node, as a set of at most one node: the first one on the path that has
\* not ended.
NextNodes(path, nodes, status) ==
    {path[i] : i \in {k \in DOMAIN path :
        /\ status \notin TerminalStatus
        /\ nodes[path[k]] \notin {"SUCCEEDED", "FAILED"}
        /\ \A h \in 1..(k - 1) : nodes[path[h]] \in {"SUCCEEDED", "FAILED"}}}
=============================================================================
