----------------------------- MODULE JobSnapshot -----------------------------
(***************************************************************************)
(* The record a review job is stored as (one JSON file per job) and the    *)
(* pure functions of services/review_jobs.py that compute the next record  *)
(* from the one that was read.                                             *)
(*                                                                         *)
(* Abstracted: timestamps, the request, elapsed times and error texts.     *)
(* "run" stands for the fields run_id, artifact_dir and final_decision:    *)
(* "none" (never assigned), "partial" (directory of a failed run, no       *)
(* decision) or "complete" (directory and decision).                       *)
(***************************************************************************)
EXTENDS Naturals, Sequences

CONSTANT Nodes      \* the graph nodes that report progress to the job

Status == {"QUEUED", "RUNNING", "SUCCEEDED", "FAILED", "CANCELED"}
Active == {"QUEUED", "RUNNING"}
Terminal == {"SUCCEEDED", "FAILED", "CANCELED"}

NodeEvent == [node : Nodes, event : {"start", "done", "error"}]
NodeStatus == {"NONE", "RUNNING", "SUCCEEDED", "FAILED"}

Snapshot == [status : Status,
             run : {"none", "partial", "complete"},
             error : {"none", "failure", "canceled"},
             nodes : [Nodes -> NodeStatus],
             node_events : Seq(NodeEvent)]

\* LocalReviewJobStore.create: the record of a job nobody has started.
NewSnapshot == [status |-> "QUEUED", run |-> "none", error |-> "none",
                nodes |-> [n \in Nodes |-> "NONE"], node_events |-> << >>]

NodeStatusUnknownError(event) ==    \* mutant: one event name is misspelt
    CASE event = "start" -> "RUNNING"
      [] event = "done"  -> "SUCCEEDED"
      [] event = "error" -> "UNKNOWN"

NodeStatusFromEvent(event) ==
    CASE event = "start" -> "RUNNING"
      [] event = "done"  -> "SUCCEEDED"
      [] event = "error" -> "FAILED"

-----------------------------------------------------------------------------
(* LocalReviewJobStore.update keeps every field it is not given.           *)

RunningKeepsStatus(cur) == cur      \* mutant: the status argument is dropped
Running(cur) == [cur EXCEPT !.status = "RUNNING"]

CanceledKeepsStatus(cur) == [cur EXCEPT !.error = "canceled"]     \* mutant
Canceled(cur) == [cur EXCEPT !.status = "CANCELED", !.error = "canceled"]

\* Mutants: the error, or the run, is not passed to update.
SucceededKeepsError(cur) == [cur EXCEPT !.status = "SUCCEEDED", !.run = "complete"]
SucceededWithoutRun(cur) == [cur EXCEPT !.status = "SUCCEEDED", !.error = "none"]

Succeeded(cur) ==
    [cur EXCEPT !.status = "SUCCEEDED", !.run = "complete", !.error = "none"]

\* Mutant: the failure is recorded, the status kept.
FailedKeepsStatus(cur, recorded) ==
    [cur EXCEPT !.error = "failure", !.run = IF recorded THEN "partial" ELSE @]

\* run_id and artifact_dir are taken from the error's details when it has them.
Failed(cur, recorded) ==
    [cur EXCEPT !.status = "FAILED", !.error = "failure",
                !.run = IF recorded THEN "partial" ELSE @]

\* append_node_event computes status, nodes and node_events from the first
\* record it reads, then calls update, which takes the other fields from a
\* second read.
AppendedToReread(first, cur, ev) == \* mutant: the log comes from the second read
    [cur EXCEPT
        !.status = first.status,
        !.nodes = [first.nodes EXCEPT ![ev.node] = NodeStatusFromEvent(ev.event)],
        !.node_events = Append(cur.node_events, ev)]

AppendedInFront(first, cur, ev) ==  \* mutant: newest event first
    [cur EXCEPT
        !.status = first.status,
        !.nodes = [first.nodes EXCEPT ![ev.node] = NodeStatusFromEvent(ev.event)],
        !.node_events = <<ev>> \o first.node_events]

Appended(first, cur, ev) ==
    [cur EXCEPT
        !.status = first.status,
        !.nodes = [first.nodes EXCEPT ![ev.node] = NodeStatusFromEvent(ev.event)],
        !.node_events = Append(first.node_events, ev)]
=============================================================================
