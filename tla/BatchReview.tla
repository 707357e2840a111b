---------------------------- MODULE BatchReview ----------------------------
(***************************************************************************)
(* scripts/batch_review.py: run_batch reviews the papers of a manifest one *)
(* after the other or on a pool of threads, each with a parser of its own  *)
(* run (DocumentParser), and writes manifest.jsonl, failures.jsonl,        *)
(* final_decisions.csv and summary.json into the directory of its          *)
(* batch_id.  The process may be killed at any step and started again with *)
(* the same batch_id.                                                      *)
(*                                                                         *)
(* Abstracted: the review of a parsed paper is its decision or the way it  *)
(* fails (ReviewGraph models it); titles, times and progress messages are  *)
(* left out.                                                               *)
(***************************************************************************)
EXTENDS DocumentParser, DecisionAlignment

CONSTANTS Manifests,    \* the rows of the manifest file, None if there is none
          Configs,      \* the arguments of the command
          Decisions,    \* what the review of a paper that was read may decide
          MaxCrashes    \* bound on the times the process is killed

ManifestRows == UNION {{m[k] : k \in DOMAIN m} : m \in Manifests \ {None}}

\* The command takes any number for the offset and the limit; those below zero,
\* which count from the end of the list, are left out.
ASSUME BatchReviewAssumption ==
    /\ \A m \in Manifests \ {None} : m \in Seq(ManifestRows)
    /\ \A row \in ManifestRows : row.paper \in Papers \cup {None}
    /\ Configs \subseteq [concurrency : Nat, fail_fast : BOOLEAN, dry_run : BOOLEAN,
                         offset : Nat, limit : Nat \cup {None}]
    /\ MaxCrashes \in Nat

VARIABLES
    config, manifest,
    main,       \* run_batch: pc, position, and the row being recorded
    counts,     \* its counters and final_rows, which die with the process
    item,       \* per selected row: its call of run_one_item
    dir,        \* the batch directory
    crashes

batchVars == <<config, manifest, main, counts, item, dir, crashes>>
vars == <<batchVars, parserVars>>

-----------------------------------------------------------------------------
\* build_batch_items: the slice that is selected.
Selected ==
    IF manifest = None \/ config.offset >= Len(manifest) THEN << >>
    ELSE SubSeq(manifest, config.offset + 1,
                IF config.limit = None \/ config.offset + config.limit > Len(manifest)
                THEN Len(manifest) ELSE config.offset + config.limit)

Items == DOMAIN Selected
Paper(i) == Selected[i].paper

\* A row of manifest.jsonl.
BatchRow == [index : Nat, paper_id : {row.paper_id : row \in ManifestRows},
             status : {"planned", "succeeded", "failed"},
             final_decision : Decisions \cup {"REJECT", None}, run_id : BOOLEAN]

Indexes(rows) == {rows[k].index : k \in DOMAIN rows}

TypeOK ==
    /\ ParserTypeOK
    /\ config \in Configs /\ manifest \in Manifests
    /\ main \in [pc : {"start", "refused", "request", "loop", "record", "decisions",
                       "summary", "ended"},
                 position : Nat \ {0}, row : BatchRow \cup {None}]
    /\ counts \in [status : [{"planned", "succeeded", "failed"} -> Nat],
                   final_rows : Seq(BatchRow)]
    /\ item \in [Items -> [pc : {"none", "queued", "running", "finished", "recorded"},
                           row : BatchRow \cup {None}]]
    /\ DOMAIN dir = {"exists", "request", "rows", "failures", "decisions", "summary"}
    /\ dir.exists \in BOOLEAN /\ dir.request \in BOOLEAN
    /\ dir.rows \in Seq(BatchRow) /\ dir.failures \in Seq(BatchRow)
    /\ crashes \in 0..MaxCrashes

NoDir == [exists |-> FALSE, request |-> FALSE, rows |-> << >>, failures |-> << >>,
          decisions |-> None, summary |-> None]
NoCounts == [status |-> [s \in {"planned", "succeeded", "failed"} |-> 0], final_rows |-> << >>]

Init ==
    /\ ParserInit
    /\ config \in Configs /\ manifest \in Manifests
    /\ main = [pc |-> "start", position |-> 1, row |-> None]
    /\ counts = NoCounts
    /\ item = [i \in Items |-> [pc |-> "none", row |-> None]]
    /\ dir = NoDir
    /\ crashes = 0

To(pc) == main' = [main EXCEPT !.pc = pc]

-----------------------------------------------------------------------------
(* The arguments and the directory.                                        *)

\* Mutant: a batch that did not finish is continued in its directory.
OccupiedIfFinished == dir.summary # None

\* The directory holds something.
Occupied == dir.request

BadArguments ==
    \/ config.concurrency < 1
    \/ config.fail_fast /\ config.concurrency > 1
    \/ manifest = None
    \/ \E i \in Items : Selected[i].paper = None

Start ==
    /\ main.pc = "start"
    /\ \/ /\ BadArguments \/ (dir.exists /\ Occupied)
          /\ To("refused")
          /\ UNCHANGED dir
       \/ /\ ~BadArguments /\ ~(dir.exists /\ Occupied)
          /\ To("request")
          /\ dir' = [dir EXCEPT !.exists = TRUE]
    /\ UNCHANGED <<config, manifest, counts, item, crashes, parserVars>>

\* write_batch_request; the pool is given every item at once.
WriteRequest ==
    /\ main.pc = "request"
    /\ dir' = [dir EXCEPT !.request = TRUE]
    /\ To("loop")
    /\ item' = [i \in Items |->
          [pc |-> IF config.dry_run \/ config.concurrency = 1 THEN "none" ELSE "queued",
           row |-> None]]
    /\ UNCHANGED <<config, manifest, counts, crashes, parserVars>>

-----------------------------------------------------------------------------
(* run_one_item, in a thread of the pool or in the main one.               *)

Row(i, status) ==
    [index |-> config.offset + i, paper_id |-> Selected[i].paper_id, status |-> status,
     final_decision |-> None, run_id |-> FALSE]

\* failure_diagnostics_fields: the run and its diagnostics can be found from
\* the row if the error is one of the review's own, which name the run.
FailedRow(i, review_agent_error) ==
    [Row(i, "failed") EXCEPT !.run_id = review_agent_error]

SucceededRow(i, decision) ==
    [Row(i, "succeeded") EXCEPT !.final_decision = decision, !.run_id = TRUE]

Finished(i, row) == item' = [item EXCEPT ![i] = [pc |-> "finished", row |-> row]]

\* A worker takes the item that has waited longest; in sequence, the next one.
Take(i) ==
    /\ main.pc = "loop"
    /\ \/ /\ item[i].pc = "queued"
          /\ \A k \in Items : item[k].pc = "queued" => i <= k
          /\ Cardinality({k \in Items : item[k].pc = "running"}) < config.concurrency
       \/ /\ item[i].pc = "none"
          /\ ~config.dry_run /\ config.concurrency = 1 /\ i = main.position
    /\ item' = [item EXCEPT ![i].pc = "running"]
    /\ UNCHANGED <<config, manifest, main, counts, dir, crashes, parserVars>>

\* build_workflow, and _validate_submission: what is refused has no run yet.
Submit(i) ==
    /\ item[i].pc = "running" /\ parse[Paper(i)].pc = "idle"
    /\ \/ /\ Format[Paper(i)] # "unsupported"
          /\ StartParse(Paper(i))
          /\ UNCHANGED item
       \/ /\ Finished(i, FailedRow(i, FALSE))
          /\ UNCHANGED parserVars
    /\ UNCHANGED <<config, manifest, main, counts, dir, crashes>>

\* Mutant: the review goes on without a text.
DecisionOfAny(i) == Decisions

\* parse_fail_output_node rejects a paper that could not be read.
DecisionOf(i) == IF ParseError(Paper(i)) THEN {"REJECT"} ELSE Decisions

\* The rest of the review: it decides; or a node fails, and the error is given
\* the run's id; or the artifacts cannot be written, and it is not.
Review(i) ==
    /\ item[i].pc = "running" /\ ParseEnded(Paper(i))
    /\ \/ /\ parse[Paper(i)].pc # "raised"
          /\ \E decision \in DecisionOf(i) : Finished(i, SucceededRow(i, decision))
       \/ \E review_agent_error \in BOOLEAN : Finished(i, FailedRow(i, review_agent_error))
    /\ UNCHANGED <<config, manifest, main, counts, dir, crashes, parserVars>>

ParseItem(i) ==
    /\ item[i].pc = "running"
    /\ ParseStep(Paper(i))
    /\ UNCHANGED batchVars

WorkerStep(i) == Submit(i) \/ ParseItem(i) \/ Review(i)

\* No request has to fail: a parser that waits for that could wait forever.
WorkerGoesOn(i) ==
    \/ Submit(i) \/ Review(i)
    \/ item[i].pc = "running" /\ ParseGoesOn(Paper(i)) /\ UNCHANGED batchVars

-----------------------------------------------------------------------------
(* record_row.                                                             *)

\* The row goes to manifest.jsonl first.
Append1(row, next) ==
    /\ dir' = [dir EXCEPT !.rows = Append(@, row)]
    /\ main' = [next EXCEPT !.pc = "record", !.row = row]

\* The next planned item, the item that was run, or any that has finished.
RecordRow(i) ==
    /\ main.pc = "loop"
    /\ \/ /\ config.dry_run /\ i = main.position
          /\ Append1(Row(i, "planned"), [main EXCEPT !.position = @ + 1])
          /\ UNCHANGED item
       \/ /\ ~config.dry_run /\ item[i].pc = "finished"
          /\ Append1(item[i].row, [main EXCEPT !.position = @ + 1])
          /\ item' = [item EXCEPT ![i].pc = "recorded"]
    /\ UNCHANGED <<config, manifest, counts, crashes, parserVars>>

\* Then it is counted, and a failure is written once more; fail_fast stops.
CountRow ==
    LET row == main.row
        stops == config.fail_fast /\ ~config.dry_run /\ row.status = "failed"
    IN
    /\ main.pc = "record"
    /\ counts' = [counts EXCEPT !.status[row.status] = @ + 1,
          !.final_rows = IF row.status = "succeeded" THEN Append(@, row) ELSE @]
    /\ dir' = [dir EXCEPT !.failures = IF row.status = "failed" THEN Append(@, row) ELSE @]
    /\ To(IF stops THEN "decisions" ELSE "loop")
    /\ UNCHANGED <<config, manifest, item, crashes, parserVars>>

-----------------------------------------------------------------------------
(* The end.                                                                *)

\* sorted(final_rows, key=...): the n-th row has n - 1 smaller indexes before it.
SortedByIndex(rows) ==
    LET before(row) == {i \in Indexes(rows) : i < row.index}
    IN [n \in DOMAIN rows |->
           CHOOSE row \in {rows[k] : k \in DOMAIN rows} : Cardinality(before(row)) = n - 1]

WriteDecisions ==
    /\ main.pc = "decisions" \/ (main.pc = "loop" /\ main.position > Len(Selected))
    /\ dir' = [dir EXCEPT !.decisions = SortedByIndex(counts.final_rows)]
    /\ To("summary")
    /\ UNCHANGED <<config, manifest, counts, item, crashes, parserVars>>

\* _batch_status.
BatchStatus(total, completed, failed) ==
    CASE config.dry_run -> "DRY_RUN"
      [] ~config.dry_run /\ total = 0 -> "EMPTY"
      [] ~config.dry_run /\ total > 0 /\ failed > 0 ->
            IF completed < total THEN "STOPPED_AFTER_FAILURE" ELSE "COMPLETED_WITH_FAILURES"
      [] OTHER -> IF completed = total THEN "SUCCEEDED" ELSE "INCOMPLETE"

WriteSummary ==
    LET s == counts.status
        completed == s["succeeded"] + s["failed"]
    IN
    /\ main.pc = "summary"
    /\ dir' = [dir EXCEPT !.summary =
          [status |-> BatchStatus(Len(Selected), completed, s["failed"]),
           total_selected |-> Len(Selected), status_counts |-> s]]
    /\ To("ended")
    /\ UNCHANGED <<config, manifest, counts, item, crashes, parserVars>>

\* The process is killed; the command is given again.
Crash ==
    /\ crashes < MaxCrashes
    /\ main.pc \notin {"start", "refused", "ended"}
    /\ crashes' = crashes + 1
    /\ main' = [pc |-> "start", position |-> 1, row |-> None]
    /\ counts' = NoCounts
    /\ item' = [i \in Items |-> [pc |-> "none", row |-> None]]
    /\ parse' = [p \in Papers |-> [pc |-> "idle", polls |-> 0, by |-> "none", errors |-> {}]]
    /\ UNCHANGED <<config, manifest, dir, backend, is_configured, task>>

MainStep == Start \/ WriteRequest \/ CountRow \/ WriteDecisions \/ WriteSummary
            \/ \E i \in Items : Take(i) \/ RecordRow(i)

Service == \E p \in Papers : ServiceEnds(p) /\ UNCHANGED batchVars

Over == main.pc \in {"refused", "ended"} /\ UNCHANGED vars

Next == MainStep \/ (\E i \in Items : WorkerStep(i)) \/ Service \/ Crash \/ Over

\* The threads keep running and every request has a timeout; the MinerU service
\* promises nothing, not even to fail.
Spec == Init /\ [][Next]_vars
        /\ WF_vars(MainStep)
        /\ \A i \in 1..Cardinality(Papers) : WF_vars(i \in Items /\ WorkerGoesOn(i))

-----------------------------------------------------------------------------
(* Properties.                                                             *)

Failed(row) == row.status = "failed"

\* Which of the first n rows have a status, and how many.
WithStatus(rows, status, n) == {k \in 1..n : rows[k].status = status}
Counted(rows, status, n) == Cardinality(WithStatus(rows, status, n))

\* The failures again, in their order: failures.jsonl has the first failed rows
\* of manifest.jsonl.
FailuresFollowRows ==
    LET rows == dir.rows
        failures == dir.failures
    IN
    /\ Len(failures) <= Counted(rows, "failed", Len(rows))
    /\ \A k \in DOMAIN rows :
          Failed(rows[k]) /\ Counted(rows, "failed", k) <= Len(failures) =>
              failures[Counted(rows, "failed", k)] = rows[k]

NothingRecordedTwice ==
    \A k, l \in DOMAIN dir.rows : dir.rows[k].index = dir.rows[l].index => k = l

\* The decisions are those of the rows that succeeded, sorted by index.
DecisionsSorted ==
    LET rows == dir.rows
        decisions == dir.decisions
    IN
    /\ {decisions[k] : k \in DOMAIN decisions}
          = {rows[k] : k \in WithStatus(rows, "succeeded", Len(rows))}
    /\ \A a, b \in DOMAIN decisions : a < b => decisions[a].index < decisions[b].index

\* All selected papers are recorded, or all up to the first failure.
AllOrUpToFailure ==
    LET rows == dir.rows IN
    IF dir.summary.status = "STOPPED_AFTER_FAILURE"
    THEN /\ config.fail_fast /\ Len(rows) < Len(Selected)
         /\ \A k \in DOMAIN rows : Failed(rows[k]) <=> k = Len(rows)
         /\ Indexes(rows) = (config.offset + 1)..(config.offset + Len(rows))
    ELSE Indexes(rows) = (config.offset + 1)..(config.offset + Len(Selected))

\* The counts and the status of the summary are those of the rows.
SummaryCounts ==
    LET rows == dir.rows
        s == dir.summary
    IN
    /\ \A status \in DOMAIN s.status_counts :
          s.status_counts[status] = Counted(rows, status, Len(rows))
    /\ s.status = "SUCCEEDED" <=>
          Len(rows) > 0 /\ \A k \in DOMAIN rows : rows[k].status = "succeeded"
    /\ s.status # "INCOMPLETE"

\* No paper is recorded twice, also by a second run after the first was killed,
\* and what the summary says is what was recorded: each selected paper once, or
\* all of them up to the first failure when that was to stop the batch; the
\* failures again in their order, and the decisions sorted by index.
SummaryAccountsForAll ==
    /\ NothingRecordedTwice
    /\ FailuresFollowRows
    /\ dir.summary # None =>
          /\ Len(dir.failures) = Counted(dir.rows, "failed", Len(dir.rows))
          /\ DecisionsSorted
          /\ AllOrUpToFailure
          /\ SummaryCounts

\* Comparing the batch with its corpus gives each gold paper one verdict, and a
\* paper is counted as accepted only if a parser read it: by MinerU, or by
\* PyMuPDF when MinerU was not to be asked or had failed.
AcceptedPapersWereRead ==
    dir.summary # None =>
        LET a == evaluate_alignment(manifest, dir.rows)
            missing_gold == Cardinality({id \in DOMAIN a.details :
                                            a.details[id] = "missing_gold"})
        IN
        /\ a.total_gold = a.comparable_count + a.missing_prediction_count
                             + a.failed_prediction_count + missing_gold
        /\ a.extra_prediction_count = 0
        /\ \A id \in a.accept_like : \E i \in Items :
              /\ Selected[i].paper_id = id
              /\ parse[Paper(i)].pc = "parsed"
              /\ parse[Paper(i)].by = "pymupdf" /\ ShouldTryMinerU =>
                    "mineru" \in parse[Paper(i)].errors

\* A batch ends with a summary or refuses to start, whatever the papers and the
\* services do, unless it is killed for good.
BatchEnds == <>(main.pc \in {"refused", "ended"})
=============================================================================
