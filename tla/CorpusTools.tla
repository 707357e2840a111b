----------------------------- MODULE CorpusTools -----------------------------
(***************************************************************************)
(* The scripts that write the manifest a batch is run on:                  *)
(* import_openreview_mineru_corpus.py makes a corpus from a dataset of     *)
(* parsed papers and reviews, sample_manifest.py takes some rows of one.   *)
(*                                                                         *)
(* A paper of the dataset is a record: what its files hold ("missing",     *)
(* "damaged" or "good"), its parsers, and the decision in its gold file.   *)
(* Paths, hashes, lengths and the dry run are left out.                    *)
(***************************************************************************)
EXTENDS DecisionAlignment

LOCAL INSTANCE SequencesExt

\* Why collect_items skips a paper, in the order it looks.
SkipReason(paper) ==
    CASE paper.parsed_json = "missing" -> "broken_or_missing_parsed_files"
      [] paper.parsed_json = "damaged" -> "invalid_parsed_json"
      [] paper.parsed_json = "good" /\ "mineru_standard" \notin paper.raw_parser_keys ->
            "not_mineru_standard"
      [] OTHER ->
            CASE ~paper.review_dir -> "missing_review_dir"
              [] paper.review_dir /\ paper.gold = "missing" -> "missing_gold_files"
              [] paper.review_dir /\ paper.gold = "damaged" -> "invalid_gold_json"
              [] OTHER -> None

collect_items(dataset) == SelectSeq(dataset, LAMBDA paper : SkipReason(paper) = None)

skipped(dataset) ==
    [reason \in {SkipReason(paper) : paper \in ToSet(dataset)} \ {None} |->
        Cardinality({i \in DOMAIN dataset : SkipReason(dataset[i]) = reason})]

\* The paper of a record is the copy of its paper_parsed.md.
manifest_record(item) ==
    [paper_id |-> item.paper_id, paper |-> item.parsed_md,
     decision |-> item.decision, decision_bucket |-> item.decision_bucket]

\* main: the corpus manifest, of the first limit items if there is a limit.
Imported(dataset, limit) ==
    LET items == collect_items(dataset)
        kept == IF limit = None \/ limit > Len(items) THEN items
                ELSE SubSeq(items, 1, limit)
    IN [i \in DOMAIN kept |-> manifest_record(kept[i])]

\* What sample_rows may return: sample_size rows in their order, or nothing
\* when it refuses the size.
Samples(rows, sample_size) ==
    IF sample_size < 1 \/ sample_size > Len(rows) THEN {}
    ELSE {SetToSortSeq(chosen, <) : chosen \in
             {S \in SUBSET DOMAIN rows : Cardinality(S) = sample_size}}

sample_rows(rows, selected_indexes) ==
    [i \in DOMAIN selected_indexes |-> rows[selected_indexes[i]]]
=============================================================================
