---------------------------- MODULE MCBatchReview ----------------------------
(***************************************************************************)
(* Batches of up to three papers, in sequence, stopping at a failure, on   *)
(* two threads, and only planned.  One manifest has a PDF and a text, one  *)
(* a file of another type and two rows for one paper, one names no file;   *)
(* the others are the samples of two rows of a corpus imported from a      *)
(* dataset with a paper of every kind.                                     *)
(***************************************************************************)
EXTENDS BatchReview, CorpusTools, TLC

CONSTANTS f1, f2, f3, f4, id1, id2, id3

MCFormat == (f1 :> "pdf") @@ (f2 :> "text") @@ (f3 :> "text") @@ (f4 :> "unsupported")

MCRow(id, paper, bucket) ==
    [paper_id |-> id, paper |-> paper, decision |-> None, decision_bucket |-> bucket]

MCPaper(id, md, json, parser, reviews, gold, decision, bucket) ==
    [paper_id |-> id, parsed_md |-> md, parsed_json |-> json,
     raw_parser_keys |-> {parser}, review_dir |-> reviews, gold |-> gold,
     decision |-> decision, decision_bucket |-> bucket]

Standard == "mineru_standard"

MCDataset == <<
    MCPaper(id1, f2, "good", Standard, TRUE, "good", "ACCEPT", None),
    MCPaper(id1, f2, "missing", Standard, TRUE, "good", "ACCEPT", None),
    MCPaper(id1, f2, "damaged", Standard, TRUE, "good", "ACCEPT", None),
    MCPaper(id1, f2, "good", "pypdf", TRUE, "good", "ACCEPT", None),
    MCPaper(id1, f2, "good", Standard, FALSE, "good", "ACCEPT", None),
    MCPaper(id1, f2, "good", Standard, TRUE, "missing", "ACCEPT", None),
    MCPaper(id1, f2, "good", Standard, TRUE, "damaged", "ACCEPT", None),
    MCPaper(id2, f3, "good", Standard, TRUE, "good", "REJECT", "reject_like"),
    MCPaper(id3, f4, "good", Standard, TRUE, "good", None, None)>>

MCCorpus == Imported(MCDataset, None)

ASSUME MCCorpusAssumption ==
    /\ Len(MCCorpus) + Cardinality(DOMAIN skipped(MCDataset)) = Len(MCDataset)
    /\ Imported(MCDataset, 1) = SubSeq(MCCorpus, 1, 1)

MCManifests ==
    {None,
     <<MCRow(id1, f1, "accept_like"), MCRow(id2, f2, None)>>,
     <<MCRow(id1, f2, "accept_like"), MCRow(id2, f4, None), MCRow(id1, f3, "reject_like")>>,
     <<MCRow(id1, None, "accept_like")>>}
    \cup {sample_rows(MCCorpus, chosen) : chosen \in Samples(MCCorpus, 2)}

MCConfig(concurrency, fail_fast, dry_run, offset, limit) ==
    [concurrency |-> concurrency, fail_fast |-> fail_fast, dry_run |-> dry_run,
     offset |-> offset, limit |-> limit]

MCConfigs ==
    {MCConfig(0, FALSE, FALSE, 0, None), MCConfig(2, TRUE, FALSE, 0, None),
     MCConfig(1, FALSE, FALSE, 1, None), MCConfig(1, TRUE, FALSE, 0, None),
     MCConfig(2, FALSE, FALSE, 0, None), MCConfig(2, FALSE, FALSE, 3, None),
     MCConfig(1, FALSE, TRUE, 0, 2)}
=============================================================================
