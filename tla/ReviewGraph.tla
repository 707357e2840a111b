----------------------------- MODULE ReviewGraph -----------------------------
(***************************************************************************)
(* One review run: the LangGraph of graphs/graph.py with its nodes, the    *)
(* diagnostics wrapper around each, and ReviewWorkflow.run around it.      *)
(*                                                                         *)
(* LangGraph runs in supersteps.  The nodes of a superstep run in threads  *)
(* of their own and see the channels as the superstep found them; their    *)
(* writes are merged, and the next superstep chosen, once all of them have *)
(* ended.  When one raises, the run is over as soon as none is running.    *)
(*                                                                         *)
(* What the nodes do is in ReviewNodes.                                    *)
(***************************************************************************)
EXTENDS JobProgress, ReviewNodes

VARIABLES
    mode,       \* review_mode of the request
    state,      \* the channels of GlobalState, and what the service returns
    frontier,   \* the nodes of the current superstep
    nodes,      \* what each node has reported, as the job's record shows it
    reply,      \* how far each node of the superstep is, and its answer
    outcome     \* "RUNNING", or how run() ended

vars == <<mode, state, frontier, nodes, reply, outcome>>

\* How far a node is: the word and the letter are of interest once it has ended.
Progress == [at : {"not started", "asking", "raised", "ended"}, word : Words, letter : BOOLEAN]
At(step) == [at |-> step, word |-> "ok", letter |-> FALSE]
Ended(answer) == [at |-> "ended", word |-> answer.word, letter |-> answer.letter]

TypeOK ==
    /\ mode \in ReviewMode
    /\ state \in GlobalState
    /\ frontier \subseteq Node
    /\ nodes \in [Node -> {"NONE", "RUNNING", "SUCCEEDED", "FAILED"}]
    /\ reply \in [Node -> Progress]
    /\ outcome \in {"RUNNING", "SUCCEEDED", "FAILED"}

Init ==
    /\ mode \in ReviewMode
    /\ state = initial_state
    /\ frontier = {"doc_parse"}
    /\ nodes = [n \in Node |-> "NONE"]
    /\ reply = [n \in Node |-> At("not started")]
    /\ outcome = "RUNNING"

\* merge_dict and the reducers, for one node of a superstep.
Merged(s, n) ==
    [Writes(n, reply[n], s) EXCEPT !.stage_outputs = @ \cup StagesOf(n, s)]

MergedInOrder(s, order) == FoldLeft(Merged, s, order)

-----------------------------------------------------------------------------
(* The edges.                                                              *)

ParseResultIgnored(s) == "content_check"    \* mutant: an empty paper is passed on

check_parse_result(s) ==
    IF s.parse_error # "" THEN "parse_fail_output" ELSE "content_check"

route_after_content_check(s) ==
    IF s.intent = "VALID_PAPER" THEN "journal_req_collector" ELSE "invalid_file"

RouteQuickToEditors ==              \* mutant: the quick review is screened, too
    CASE mode = "SINGLE_AGENT_REVIEW" -> "single_reviewer"
      [] mode = "QUICK_REVIEW" -> "se_check"
      [] OTHER -> "se_check"

route_after_field_analyst ==
    CASE mode = "SINGLE_AGENT_REVIEW" -> "single_reviewer"
      [] mode = "QUICK_REVIEW" -> "review_dispatch"
      [] OTHER -> "se_check"

RouteAfterSeIgnored(s) == "ae_check"    \* mutant: AE screens every submission

route_after_se(s) ==
    IF s.se_decision = "DESK_REJECT" THEN "desk_reject_output" ELSE "ae_check"

RouteAfterAeBack(s) ==              \* mutant: the senior editor looks again
    IF s.ae_decision = "DESK_REJECT" THEN "se_check" ELSE "review_dispatch"

route_after_ae(s) ==
    IF s.ae_decision = "DESK_REJECT" THEN "desk_reject_output" ELSE "review_dispatch"

Dispatched3 == Reviewers \ {"devils_advocate"}   \* mutant: an edge is missing

Dispatched == Reviewers

\* Where the graph goes from n, reading the merged state.  The edge out of the
\* four reviewers is taken when all of them have ended.
Edges(n, s) ==
    CASE n = "doc_parse" -> {check_parse_result(s)}
      [] n = "content_check" -> {route_after_content_check(s)}
      [] n = "journal_req_collector" -> {"field_analyst"}
      [] n = "field_analyst" -> {route_after_field_analyst}
      [] n = "se_check" -> {route_after_se(s)}
      [] n = "ae_check" -> {route_after_ae(s)}
      [] n = "review_dispatch" -> Dispatched
      [] n \in Reviewers ->
            IF \A r \in Reviewers : nodes[r] = "SUCCEEDED" THEN {"ae_decision"} ELSE {}
      [] n = "ae_decision" -> {"ae_report"}
      [] n = "ae_report" -> {"ae_finalize"}
      [] n = "final_artifact_render" -> {}
      [] OTHER -> {"final_artifact_render"}

-----------------------------------------------------------------------------
(* The steps of a run.                                                     *)

Running == outcome = "RUNNING"

\* with_node_diagnostics reports start, then calls the node, which calls the
\* parser, a model or nothing.
Start(n) ==
    /\ Running /\ n \in frontier /\ reply[n].at = "not started"
    /\ nodes' = [nodes EXCEPT ![n] = "RUNNING"]
    /\ reply' = [reply EXCEPT ![n] = At("asking")]
    /\ UNCHANGED <<mode, state, frontier, outcome>>

Finish(n) ==
    /\ Running /\ reply[n].at = "asking"
    /\ MissingChannels(n, state) = {}
    /\ \E answer \in Answers(n) :
          /\ validator_for_prompt(n, answer)
          /\ reply' = [reply EXCEPT ![n] = Ended(answer)]
    /\ nodes' = [nodes EXCEPT ![n] = "SUCCEEDED"]
    /\ UNCHANGED <<mode, state, frontier, outcome>>

\* The node raises, the model gives no answer the validator accepts, or a channel
\* the node needs was never written.
Fail(n) ==
    /\ Running /\ reply[n].at = "asking"
    /\ MayRaise(n) \/ MissingChannels(n, state) # {}
    /\ nodes' = [nodes EXCEPT ![n] = "FAILED"]
    /\ reply' = [reply EXCEPT ![n] = At("raised")]
    /\ UNCHANGED <<mode, state, frontier, outcome>>

\* All nodes of the superstep have ended: their writes are merged in an order
\* LangGraph chooses, and the edges lead to the next superstep.
EndSuperstep ==
    /\ Running /\ frontier # {}
    /\ \A n \in frontier : reply[n].at = "ended"
    /\ \E order \in SetToSeqs(frontier) : state' = MergedInOrder(state, order)
    /\ frontier' = UNION {Edges(n, state') : n \in frontier}
    /\ reply' = [n \in Node |-> At("not started")]
    /\ UNCHANGED <<mode, nodes, outcome>>

\* A node has raised and none is running: invoke raises, whether or not the
\* other nodes of the superstep were started.  The service writes the failure
\* artifacts and passes the error on.
RaiseError ==
    /\ Running
    /\ \E n \in frontier : reply[n].at = "raised"
    /\ \A n \in frontier : reply[n].at # "asking"
    /\ outcome' = "FAILED"
    /\ UNCHANGED <<mode, state, frontier, nodes, reply>>

\* _sort_reports: the service orders the reports once more.
SortedReports(reports) ==
    LET rank(r) == CASE r.reviewer_key = "reviewer1" -> 0 [] r.reviewer_key = "reviewer2" -> 1
                     [] r.reviewer_key = "reviewer3" -> 2
                     [] r.reviewer_key = "devils_advocate" -> 3 [] OTHER -> 99
    IN Sorted(reports, rank)

Keys(reports) == [i \in DOMAIN reports |-> reports[i].reviewer_key]

\* The graph is over.  run() sorts the reports, writes the artifacts and
\* returns; or writing them raises.
Deliver ==
    /\ Running /\ frontier = {}
    /\ \/ /\ outcome' = "SUCCEEDED"
          /\ state' = [state EXCEPT
                !.reviewer_reports = SortedReports(@),
                !.final_decision = IF @ = Unset THEN "REJECT" ELSE @]
       \/ /\ outcome' = "FAILED"
          /\ UNCHANGED state
    /\ UNCHANGED <<mode, frontier, nodes, reply>>

\* run() has returned or raised.
Over == ~Running /\ UNCHANGED vars

NodeStep(n) == Start(n) \/ Finish(n) \/ Fail(n)
GraphStep == EndSuperstep \/ RaiseError \/ Deliver

Next == (\E n \in Node : NodeStep(n)) \/ GraphStep \/ Over

\* Every model call has a timeout and the threads of a run keep running.
Fairness == (\A n \in Node : WF_vars(NodeStep(n))) /\ WF_vars(GraphStep)

Spec == Init /\ [][Next]_vars /\ Fairness

-----------------------------------------------------------------------------
(* Properties of the run.                                                  *)

\* The editor who decides has the report of each of the four reviewers, each
\* of them once, in whatever order their threads ended.
EditorHasWholePanel ==
    nodes["ae_decision"] # "NONE" =>
        /\ Len(state.reviewer_reports) = 4
        /\ ae_review_context(state) = Reviewers

\* Reviewers are given an editor's assessment if there was one, and otherwise,
\* in a quick review only, the default that review_dispatch makes up.
ReviewersHaveContext ==
    \A r \in Reviewers : nodes[r] # "NONE" =>
        state.ae_result = IF mode = "QUICK_REVIEW" THEN "default" ELSE "screened"

\* merge_dict lets a later stage output replace an earlier one of the same
\* name; no two nodes of a run use the same name.
StagesNeverReplaced ==
    [][frontier' # frontier =>
          \A n \in frontier : StagesOf(n, state) \cap state.stage_outputs = {}]_vars

\* What a delivered run publishes says which way it went: a desk rejection comes
\* from an editor and nobody reviewed, an invalid submission from the content
\* check, acceptance and revision from a full or single panel; a rejection nobody
\* reviewed is a paper that could not be read.  The reports are in the canonical
\* order.
DeliveredDecisionIsEarned ==
    outcome = "SUCCEEDED" =>
        LET d == state.final_decision
            reports == Keys(state.reviewer_reports)
        IN
        /\ d = "DESK_REJECT" <=> "DESK_REJECT" \in {state.se_decision, state.ae_decision}
        /\ d = "INVALID_SUBMISSION" <=> state.intent = "NOT_PAPER"
        /\ d \in Verdicts \ {"REJECT"} =>
              reports = IF mode = "SINGLE_AGENT_REVIEW" THEN <<"single_reviewer">>
                        ELSE <<"reviewer1", "reviewer2", "reviewer3", "devils_advocate">>
        /\ d \notin Verdicts => reports = << >>
        /\ d = "REJECT" /\ reports = << >> <=> state.parse_error # ""

\* Whichever branch a run takes, a node that reads a channel without a default
\* comes after the node that writes it: no run ends in a KeyError.
NoNodeMissesAChannel ==
    \A n \in Node : nodes[n] # "NONE" => MissingChannels(n, state) = {}

\* Whose parts of this title a report has.
Whose(report, title) ==
    FlattenSeq([i \in DOMAIN report |-> IF report[i].title = title THEN <<report[i].of>> ELSE << >>])

\* Whatever the models left out and whichever form the report has, the authors of
\* a delivered run get a letter and a report that states the published decision,
\* the letter, and, unless an editor or the content check returned the paper, every
\* review there is, in the order the service returns them.  They see no remark on
\* the form of a review and not the matrix of the internal audit, which has every
\* review, and the matrix whenever an editor decided.
DeliveredRunSpeaks ==
    outcome = "SUCCEEDED" =>
        LET author == state.rendered_artifacts.author_report
            audit  == state.rendered_artifacts.internal_audit
            returned == Keys(state.reviewer_reports)
            Internal == {"format_check", "rr_traceability_matrix", "consensus_disagreement"}
        IN
        /\ state.decision_letter # ""
        /\ author[1].of = state.final_decision /\ audit[1].of = state.final_decision
        /\ \E p \in ToSet(author) : p.title \in {"decision_letter", "message"}
                                       /\ p.of = state.decision_letter
        /\ Whose(author, "reviewer") = returned
        /\ Whose(audit, "reviewer_artifact_index") = returned
        /\ \A p \in ToSet(author) : p.title \notin Internal
        /\ nodes["ae_decision"] # "NONE" <=> Whose(audit, "rr_traceability_matrix") # << >>

\* Every run is delivered or fails.
RunEnds == <>(outcome # "RUNNING")

-----------------------------------------------------------------------------
(* Properties of the progress the API shows while and after the run runs.  *)

Path == ReviewProgressPath(mode, nodes)

\* Every node that has reported is on the path the API has guessed: no work is
\* missing from the bar and no running node from active_nodes.
PathShowsAllWork ==
    /\ \A n \in Node : nodes[n] # "NONE" => n \in ToSet(Path)
    /\ Running => ActiveNodes(Path, nodes, outcome) = {n \in Node : nodes[n] = "RUNNING"}

\* A run that was delivered has done exactly what its path says.
DeliveredRunDidItsPath ==
    outcome = "SUCCEEDED" => {n \in Node : nodes[n] = "SUCCEEDED"} = ToSet(Path)

\* The bar never moves back, although the path changes under it.
PercentNeverFalls ==
    [][LET before == Percent(Path, nodes, outcome)
           after  == Percent(Path, nodes, outcome)'
       IN after >= before]_vars

\* While a superstep is under way, next_node is one of its nodes.
NextNodeIsCurrent ==
    Running /\ (\E n \in frontier : nodes[n] = "RUNNING") =>
        /\ NextNodes(Path, nodes, outcome) # {}
        /\ NextNodes(Path, nodes, outcome) \subseteq frontier

-----------------------------------------------------------------------------
(* A run implements the editorial process.                                 *)

Process == INSTANCE EditorialProcess WITH
    Mode <- ReviewMode,
    NoDecision <- Unset,
    PanelOf <- [m \in ReviewMode |->
        IF m = "SINGLE_AGENT_REVIEW" THEN {"single_reviewer"} ELSE Reviewers],
    panel <- ToSet(Keys(state.reviewer_reports)),
    verdict <- IF mode = "SINGLE_AGENT_REVIEW" /\ state.reviewer_reports # << >>
               THEN state.final_decision ELSE state.ae_decision_result,
    decision <- state.final_decision,
    state <- CASE outcome = "RUNNING" -> "open"
               [] outcome = "SUCCEEDED" -> "delivered"
               [] outcome = "FAILED" -> "abandoned"

\* Whatever the threads and the model do, the run follows the process: nothing
\* is published before the whole panel has reported, what is published is the
\* verdict the editor froze, and it is published once.
ImplementsProcess == Process!Spec
=============================================================================
