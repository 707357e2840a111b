-------------------------- MODULE DecisionAlignment --------------------------
(***************************************************************************)
(* scripts/decision_alignment.py: the decisions of a batch compared with   *)
(* those of the corpus it was run on.                                      *)
(*                                                                         *)
(* A gold row has paper_id, decision and decision_bucket; a prediction is  *)
(* a row of a batch's manifest.jsonl.  An empty field is None.  Text that  *)
(* only contains "accept" or "reject" is left out.                         *)
(***************************************************************************)
EXTENDS Naturals, Sequences, FiniteSets

CONSTANT None

AcceptLike == {"ACCEPT", "MINOR_REVISION"}
RejectLike == {"MAJOR_REVISION", "REJECT", "DESK_REJECT", "INVALID_SUBMISSION"}

normalize_prediction_bucket(decision) ==
    CASE decision \in AcceptLike -> "accept_like"
      [] decision \in RejectLike -> "reject_like"
      [] OTHER -> None

normalize_gold_bucket(row) ==
    IF row.decision_bucket # None THEN row.decision_bucket
    ELSE normalize_prediction_bucket(row.decision)

\* rows keyed by paper_id: the last row of a paper is the one that counts.
LastRowOf(rows, id) ==
    CHOOSE k \in DOMAIN rows :
        /\ rows[k].paper_id = id
        /\ \A l \in DOMAIN rows : rows[l].paper_id = id => l <= k

ById(rows) ==
    [id \in {rows[k].paper_id : k \in DOMAIN rows} |-> rows[LastRowOf(rows, id)]]

alignment(gold, prediction) ==
    LET gold_bucket == normalize_gold_bucket(gold)
        predicted == normalize_prediction_bucket(prediction.final_decision)
    IN CASE prediction.status # "succeeded" \/ predicted = None -> "not_comparable"
         [] prediction.status = "succeeded" /\ predicted # None /\ gold_bucket = None ->
               "missing_gold"
         [] OTHER -> IF gold_bucket = predicted THEN "correct" ELSE "wrong"

evaluate_alignment(gold_rows, prediction_rows) ==
    LET gold_by_id == ById(gold_rows)
        prediction_by_id == ById(prediction_rows)
        verdict(id) == IF id \notin DOMAIN prediction_by_id THEN "missing_prediction"
                       ELSE alignment(gold_by_id[id], prediction_by_id[id])
        details == [id \in DOMAIN gold_by_id |-> verdict(id)]
        count(S) == Cardinality({id \in DOMAIN details : details[id] \in S})
        bucket(id) == normalize_prediction_bucket(prediction_by_id[id].final_decision)
    IN [details |-> details,
        total_gold |-> Cardinality(DOMAIN gold_by_id),
        total_predictions |-> Cardinality(DOMAIN prediction_by_id),
        comparable_count |-> count({"correct", "wrong"}),
        correct_count |-> count({"correct"}),
        missing_prediction_count |-> count({"missing_prediction"}),
        failed_prediction_count |-> count({"not_comparable"}),
        extra_prediction_count |->
            Cardinality(DOMAIN prediction_by_id \ DOMAIN gold_by_id),
        accept_like |-> {id \in DOMAIN details : details[id] \in {"correct", "wrong"}
                                                 /\ bucket(id) = "accept_like"}]
=============================================================================
