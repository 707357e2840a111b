---------------------------- MODULE JobLifecycle -----------------------------
(***************************************************************************)
(* What the job API promises its clients about a job nobody cancels.  A    *)
(* job is queued, then running, then finished for good; progress only      *)
(* grows; a success has seen every node report start and done; only a      *)
(* finished job can be removed.  No files, locks or threads.               *)
(***************************************************************************)
CONSTANTS Jobs, Nodes

VARIABLES status,   \* what a client reading the job is told
          seen      \* the <<node, event>> pairs it is shown

lifecycleVars == <<status, seen>>

TypeOK ==
    /\ status \in [Jobs -> {"NONE", "QUEUED", "RUNNING", "SUCCEEDED", "FAILED", "GONE"}]
    /\ seen \in [Jobs -> SUBSET (Nodes \X {"start", "done", "error"})]

Init ==
    /\ status = [j \in Jobs |-> "NONE"]
    /\ seen = [j \in Jobs |-> {}]

Become(j, from, to) ==
    /\ status[j] \in from
    /\ status' = [status EXCEPT ![j] = to]

Submit(j) == Become(j, {"NONE"}, "QUEUED") /\ UNCHANGED seen

Start(j) == Become(j, {"QUEUED"}, "RUNNING") /\ UNCHANGED seen

Report(j, n, event) ==
    /\ status[j] = "RUNNING"
    /\ \A e \in {"start", "done", "error"} :
          <<n, e>> \in seen[j] => e = "start" /\ event # "start"
    /\ event # "start" => <<n, "start">> \in seen[j]
    /\ seen' = [seen EXCEPT ![j] = @ \cup {<<n, event>>}]
    /\ UNCHANGED status

Succeed(j) ==
    /\ Become(j, {"RUNNING"}, "SUCCEEDED")
    /\ \A n \in Nodes : {<<n, "start">>, <<n, "done">>} \subseteq seen[j]
    /\ UNCHANGED seen

Fail(j) == Become(j, {"RUNNING"}, "FAILED") /\ UNCHANGED seen

Remove(j) ==
    /\ Become(j, {"SUCCEEDED", "FAILED"}, "GONE")
    /\ seen' = [seen EXCEPT ![j] = {}]

Next == \E j \in Jobs :
    \/ Submit(j) \/ Start(j) \/ Succeed(j) \/ Fail(j) \/ Remove(j)
    \/ \E n \in Nodes, event \in {"start", "done", "error"} : Report(j, n, event)

Spec == Init /\ [][Next]_lifecycleVars
=============================================================================
