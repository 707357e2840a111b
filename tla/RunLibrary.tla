----------------------------- MODULE RunLibrary -----------------------------
(***************************************************************************)
(* The artifacts of finished runs (data/runs/<run>) and the requests that  *)
(* list, read and delete them: ReviewJobRunner's library and artifact      *)
(* methods, the endpoints of api/app.py and the artifact writers of        *)
(* ReviewWorkflow.                                                         *)
(*                                                                         *)
(* Every request runs in a thread of its own, with a job store and a lock  *)
(* of its own, so that two requests meet at every read, unlink and rmdir.  *)
(* A record is read, opened and filled in steps, as in ReviewJobs; of its  *)
(* contents only the status and whether it names the directory are kept.   *)
(***************************************************************************)
EXTENDS Naturals, FiniteSets, Sequences, Submission

CONSTANTS
    Jobs,           \* ids of jobs; each is created at most once
    Clients,        \* requests served at the same time
    Threads,        \* nodes of a run that report at the same time
    MaxCrashes      \* how often the server process may die

ASSUME RunLibraryAssumption == Threads \in Nat /\ MaxCrashes \in Nat

VARIABLES
    record,     \* the file of each job in data/jobs
    writers,    \* those that have opened that file to write, and not filled it yet
    task,       \* the runner of each job
    dir,        \* whether the directory of each run exists
    files,      \* the files in it
    request,    \* what each client's request is doing
    reported,   \* history: how often each part of a job was reported deleted, up to 2
    removing,   \* history: the jobs whose directory a request began to remove
    canceled,   \* history: the jobs whose file a cancel has opened
    crashes

vars == <<record, writers, task, dir, files, request, reported, removing, canceled, crashes>>

-----------------------------------------------------------------------------
(* Records.                                                                *)

Active == {"QUEUED", "RUNNING"}
Finished == {"SUCCEEDED", "FAILED"}
Status == Active \cup Finished \cup {"CANCELED"}

\* A job without a file, a file that was opened and not filled, and the remains
\* of two writes.
Blank == {"NONE", "EMPTY", "TORN"}

Record(status, artifact_dir) == [status |-> status, artifact_dir |-> artifact_dir]

HasFile(j) == record[j].status # "NONE"

\* LocalReviewJobStore.get returns a record; otherwise it raises.
Readable(j) == record[j].status \in Status

\* open(path, "w") truncates; what is written goes to the file that was opened, even
\* when that was unlinked, and over another write may leave an undecodable mixture.
OpenFile(w, j) ==
    /\ record' = [record EXCEPT ![j] = Record("EMPTY", FALSE)]
    /\ writers' = [writers EXCEPT ![j] = @ \cup {w}]

FillFile(w, j, snapshot) ==
    /\ writers' = [writers EXCEPT ![j] = @ \ {w}]
    /\ \/ w \notin writers[j] /\ UNCHANGED record
       \/ w \in writers[j] /\ record' = [record EXCEPT ![j] = snapshot]
       \/ /\ w \in writers[j] /\ record[j].status # "EMPTY"
          /\ record' = [record EXCEPT ![j] = Record("TORN", FALSE)]

-----------------------------------------------------------------------------
(* Runs.                                                                   *)

\* In the order they are written.  "report" is final_report.md, or partial_report.md
\* if the run failed; the other files of a run are listed and deleted like these, and
\* diagnostics.json and usage_summary.json are read like the report.
write_artifacts == <<"report", "llm_calls.jsonl">>

Names == {write_artifacts[i] : i \in DOMAIN write_artifacts}

\* What can be deleted of a job: each artifact, and under the empty name the job.
Parts == Names \cup {""}

AllWritten(j) == files[j] = Names

\* A task writes the status goal, or the one it has read if it is a callback
\* (EVENT); names says that the record shall name the directory, and checked counts
\* the callbacks that found the job not canceled and have not written yet.
Task == [pc : {"waiting", "check", "read", "open", "fill", "workflow", "graph", "reread",
               "artifacts", "over"},
         goal : {"QUEUED", "RUNNING", "EVENT"} \cup Finished,
         cur : [status : Status, artifact_dir : BOOLEAN],
         names : BOOLEAN, checked : 0..Threads]

Waiting == [pc |-> "waiting", goal |-> "QUEUED", cur |-> Record("QUEUED", FALSE),
            names |-> FALSE, checked |-> 0]

\* A callback has ended; a task has returned, raised or died.
CallbackOver(t) == [t EXCEPT !.pc = "graph", !.goal = "RUNNING", !.checked = @ - 1]
Over(t) == [Waiting EXCEPT !.pc = "over", !.names = t.names]

-----------------------------------------------------------------------------
(* Requests.                                                               *)

Bulk == {"delete jobs", "delete artifacts"}
OneArtifact == {"delete artifact", "download"}
Reads == {"artifacts", "report", "llm-calls"}
Pages == {"library", "jobs"}

\* artifact_dir is that of the record a request has read, rest are the jobs still to
\* handle, found what a listing has collected.
Idle == [op |-> "", step |-> "idle", job |-> "", name |-> "", artifact_dir |-> FALSE,
         rest |-> {}, found |-> {}]

Steps == {"idle", "list", "read record", "next", "get", "artifact dir", "iterdir",
          "stat", "check file", "read file", "unlink file", "safe dir", "rmtree",
          "check record", "unlink record", "cancel read", "cancel open", "cancel fill"}

Operations == {"", "cancel"} \cup Bulk \cup OneArtifact \cup Reads \cup Pages

HttpRequest == [op : Operations, step : Steps, job : Jobs \cup {""}, name : Names \cup {""},
                artifact_dir : BOOLEAN, rest : SUBSET Jobs, found : SUBSET (Jobs \cup Names)]

\* A page has found jobs until it begins with the first; only a request that works
\* on a job has one, and only one that has found a file is sure to have its name.
TypeOK ==
    /\ record \in [Jobs -> [status : Status \cup Blank, artifact_dir : BOOLEAN]]
    /\ writers \in [Jobs -> SUBSET (Jobs \cup Clients)]
    /\ task \in [Jobs -> Task]
    /\ dir \in [Jobs -> BOOLEAN]
    /\ files \in [Jobs -> SUBSET Names]
    /\ request \in [Clients -> HttpRequest]
    /\ reported \in [Jobs -> [Parts -> 0..2]]
    /\ removing \subseteq Jobs /\ canceled \subseteq Jobs
    /\ crashes \in 0..MaxCrashes
    /\ \A c \in Clients :
          /\ request[c].step \in {"list", "read record"} => request[c].found \subseteq Jobs
          /\ request[c].step \notin {"idle", "list", "read record", "next"} =>
                request[c].job \in Jobs
          /\ request[c].step \in {"read file", "unlink file"} => request[c].name \in Names

Init ==
    /\ record = [j \in Jobs |-> Record("NONE", FALSE)]
    /\ writers = [j \in Jobs |-> {}]
    /\ task = [j \in Jobs |-> Waiting]
    /\ dir = [j \in Jobs |-> FALSE]
    /\ files = [j \in Jobs |-> {}]
    /\ request = [c \in Clients |-> Idle]
    /\ reported = [j \in Jobs |-> [n \in Parts |-> 0]]
    /\ removing = {} /\ canceled = {}
    /\ crashes = 0

-----------------------------------------------------------------------------
(* The runner.                                                             *)

OnlyTasks == UNCHANGED <<record, writers, dir, files, request, reported, removing,
                         canceled, crashes>>

OnlyRecords == UNCHANGED <<dir, files, request, reported, removing, canceled, crashes>>

\* POST /api/jobs creates the record, and the task follows the response.
CreateJob(j) ==
    /\ task[j].pc = "waiting"
    /\ OpenFile(j, j)
    /\ task' = [task EXCEPT ![j].pc = "fill"]
    /\ OnlyRecords

\* _raise_if_canceled, first and again when the run has succeeded.
TaskCheck(j) ==
    /\ task[j].pc = "check"
    /\ task' = [task EXCEPT ![j] =
          IF Readable(j) /\ record[j].status # "CANCELED" THEN [@ EXCEPT !.pc = "read"]
          ELSE Over(@)]
    /\ OnlyTasks

\* An update reads the record, opens the file and fills it, whatever the record says;
\* that nobody catches what the read raises ends the task.
TaskRead(j) ==
    /\ task[j].pc = "read"
    /\ task' = [task EXCEPT ![j] =
          IF Readable(j) THEN [@ EXCEPT !.pc = "open", !.cur = record[j]] ELSE Over(@)]
    /\ OnlyTasks

TaskOpen(j) ==
    /\ task[j].pc = "open"
    /\ OpenFile(j, j)
    /\ task' = [task EXCEPT ![j].pc = "fill"]
    /\ OnlyRecords

Snapshot(t) == Record(IF t.goal = "EVENT" THEN t.cur.status ELSE t.goal,
                      t.cur.artifact_dir \/ t.names)

AfterFill(t) ==
    CASE t.goal = "QUEUED"  -> [t EXCEPT !.pc = "check", !.goal = "RUNNING"]
      [] t.goal = "RUNNING" -> [t EXCEPT !.pc = "workflow"]
      [] t.goal = "EVENT"   -> CallbackOver(t)
      [] OTHER              -> Over(t)

TaskFill(j) ==
    /\ task[j].pc = "fill"
    /\ FillFile(j, j, Snapshot(task[j]))
    /\ task' = [task EXCEPT ![j] = AfterFill(@)]
    /\ OnlyRecords

\* What the service finds of the requests that reach it.
Validations == {validate_submission(r) : r \in review_request_from_json
                    \cup review_request_from_upload \cup review_request_from_arxiv}

\* Nothing is written of a request it refuses.
StartWorkflow(j) ==
    /\ task[j].pc = "workflow"
    /\ \E accepted \in Validations :
          task' = IF accepted THEN [task EXCEPT ![j].pc = "graph"]
                  ELSE [task EXCEPT ![j].pc = "read", ![j].goal = "FAILED"]
    /\ OnlyTasks

\* Callbacks of nodes: each looks for a cancel; append_node_event reads the record,
\* reads it again and writes, under the lock of the task's store, which the
\* looks of the others wait for.  An event that cannot be appended is lost.
CallbackCheck(j) ==
    /\ task[j].pc = "graph" /\ task[j].checked < Threads
    /\ Readable(j) /\ record[j].status # "CANCELED"
    /\ task' = [task EXCEPT ![j].checked = @ + 1]
    /\ OnlyTasks

AppendGet(j) ==
    /\ task[j].pc = "graph" /\ task[j].checked > 0
    /\ task' = [task EXCEPT ![j] =
          IF Readable(j) THEN [@ EXCEPT !.pc = "reread", !.goal = "EVENT", !.cur = record[j]]
          ELSE CallbackOver(@)]
    /\ OnlyTasks

\* The status stays that of the first read.
AppendReread(j) ==
    /\ task[j].pc = "reread"
    /\ task' = [task EXCEPT ![j] =
          IF Readable(j)
          THEN [@ EXCEPT !.pc = "open", !.cur.artifact_dir = record[j].artifact_dir]
          ELSE CallbackOver(@)]
    /\ OnlyTasks

\* The graph has returned or raised; on failure the directory is made first, to
\* be named in the error.
GraphEnds(j) ==
    /\ task[j].pc = "graph" /\ task[j].checked = 0
    /\ \E ending \in Finished :
          /\ task' = [task EXCEPT ![j].pc = "artifacts", ![j].goal = ending]
          /\ dir' = [dir EXCEPT ![j] = ending = "FAILED"]
    /\ UNCHANGED <<record, writers, files, request, reported, removing, canceled, crashes>>

WriteArtifact(j) ==
    /\ task[j].pc = "artifacts" /\ ~AllWritten(j)
    /\ dir' = [dir EXCEPT ![j] = TRUE]
    /\ files' = [files EXCEPT ![j] = @ \cup {write_artifacts[Cardinality(@) + 1]}]
    /\ UNCHANGED <<record, writers, task, request, reported, removing, canceled, crashes>>

\* A write raises: the error knows nothing of the run, and the record will name no
\* directory.  As after every failure nobody looks for a cancel.
WriteRaises(j) ==
    /\ task[j].pc = "artifacts" /\ ~AllWritten(j)
    /\ task' = [task EXCEPT ![j].pc = "read", ![j].goal = "FAILED"]
    /\ OnlyTasks

ArtifactsWritten(j) ==
    /\ task[j].pc = "artifacts" /\ AllWritten(j)
    /\ task' = [task EXCEPT ![j].names = TRUE,
                            ![j].pc = IF task[j].goal = "SUCCEEDED" THEN "check" ELSE "read"]
    /\ OnlyTasks

-----------------------------------------------------------------------------
(* Steps of requests.                                                      *)

At(c, step) == request[c].step = step

Goto(c, step) == request' = [request EXCEPT ![c].step = step]

Answer(c) == request' = [request EXCEPT ![c] = Idle]

\* A request that handles several jobs goes on with the next one.
GoOn(c) ==
    request' = [request EXCEPT ![c] =
        [@ EXCEPT !.step = "next", !.job = "", !.artifact_dir = FALSE, !.found = {}]]

\* What an error comes to: a bulk request records it and a page skips a run whose
\* artifacts are missing, and both go on; otherwise the endpoint answers.
Skipped(op, error) ==
    op \in Bulk \/ (op = "library" /\ error \in {"not available", "artifact not found"})

Raise(c, error) ==
    IF Skipped(request[c].op, error) THEN GoOn(c) ELSE Answer(c)

OnlyRequests == UNCHANGED <<record, writers, task, dir, files, reported, removing,
                            canceled, crashes>>

\* A request arrives.  A bulk deletion names jobs, or one artifact of each.
Receive(c) ==
    /\ At(c, "idle")
    /\ \/ \E op \in Bulk, jobs \in (SUBSET Jobs) \ {{}}, name \in Names :
             request' = [request EXCEPT ![c] = [Idle EXCEPT !.op = op, !.step = "next",
                !.rest = jobs, !.name = IF op = "delete jobs" THEN "" ELSE name]]
       \/ \E op \in OneArtifact, j \in Jobs, name \in Names :
             request' = [request EXCEPT ![c] =
                [Idle EXCEPT !.op = op, !.step = "get", !.job = j, !.name = name]]
       \/ \E op \in Reads \cup {"cancel"}, j \in Jobs :
             request' = [request EXCEPT ![c] =
                [Idle EXCEPT !.op = op, !.step = "get", !.job = j]]
       \/ \E op \in Pages :
             request' = [request EXCEPT ![c] = [Idle EXCEPT !.op = op, !.step = "list"]]
    /\ OnlyRequests

\* LocalReviewJobStore.list: the names of the records, and then each record.
List(c) ==
    /\ At(c, "list")
    /\ request' = [request EXCEPT ![c].step = "read record",
                                  ![c].rest = {j \in Jobs : HasFile(j)}]
    /\ OnlyRequests

\* A record that has gone is left out, unless it goes between is_file and the read.
\* Only a library page goes on, to the finished runs with a directory.
ReadRecord(c) ==
    /\ At(c, "read record")
    /\ \/ /\ request[c].rest = {}
          /\ IF request[c].op = "jobs" THEN Answer(c)
             ELSE request' = [request EXCEPT ![c].step = "next", ![c].found = {},
                                             ![c].rest = request[c].found]
       \/ \E j \in request[c].rest :
             \/ /\ Readable(j) \/ ~HasFile(j)
                /\ request' = [request EXCEPT
                    ![c].rest = @ \ {j},
                    ![c].found = @ \cup {k \in {j} : /\ record[k].status \in Finished
                                                     /\ record[k].artifact_dir}]
             \/ ~Readable(j) /\ Raise(c, IF HasFile(j) THEN "not json" ELSE "record gone")
    /\ OnlyRequests

NextJob(c) ==
    /\ At(c, "next")
    /\ \/ request[c].rest = {} /\ Answer(c)
       \/ \E j \in request[c].rest :
             request' = [request EXCEPT ![c].step = "get", ![c].job = j,
                                        ![c].rest = @ \ {j}]
    /\ OnlyRequests

\* A request goes on with the record it has read.
HoldRecord(c, step) ==
    request' = [request EXCEPT ![c].step = step,
                               ![c].artifact_dir = record[request[c].job].artifact_dir]

\* get_job, and what the method wants of the record.
GetJob(c) ==
    /\ At(c, "get")
    /\ LET j == request[c].job IN
       CASE ~HasFile(j) -> Raise(c, "job not found")
         [] HasFile(j) /\ ~Readable(j) -> Raise(c, "not json")
         [] Readable(j) /\ request[c].op = "cancel" ->
               IF record[j].status \in Active THEN Goto(c, "cancel read")
               ELSE Raise(c, "not cancelable")
         [] Readable(j) /\ request[c].op = "delete jobs" ->
               IF record[j].status \in Active THEN Raise(c, "not deletable")
               ELSE HoldRecord(c, IF record[j].artifact_dir THEN "safe dir" ELSE "check record")
         [] Readable(j) /\ request[c].op \notin {"cancel", "delete jobs"} ->
               IF record[j].status \in Finished /\ record[j].artifact_dir
               THEN HoldRecord(c, "artifact dir") ELSE Raise(c, "not available")
    /\ OnlyRequests

\* _artifact_dir_for.
ArtifactDir(c) ==
    /\ At(c, "artifact dir")
    /\ IF ~dir[request[c].job] THEN Raise(c, "artifact not found")
       ELSE Goto(c, IF request[c].op \in {"library", "artifacts"} THEN "iterdir" ELSE "check file")
    /\ OnlyRequests

\* list_artifacts: the names, then a look at each.
IterDir(c) ==
    /\ At(c, "iterdir")
    /\ IF ~dir[request[c].job] THEN Raise(c, "os error")
       ELSE request' = [request EXCEPT ![c].step = "stat", ![c].found = files[request[c].job]]
    /\ OnlyRequests

\* A file that has gone is left out, unless it goes between the two looks.
StatFiles(c) ==
    /\ At(c, "stat")
    /\ \/ IF request[c].op = "library" THEN GoOn(c) ELSE Answer(c)
       \/ ~(request[c].found \subseteq files[request[c].job]) /\ Raise(c, "os error")
    /\ OnlyRequests

\* _primary_report_path, _safe_artifact_path and the names the methods know.
PathsFor(c) ==
    CASE request[c].op = "report" -> {"report"}
      [] request[c].op = "llm-calls" -> {"llm_calls.jsonl"}
      [] OTHER -> {request[c].name}

CheckFile(c) ==
    /\ At(c, "check file")
    /\ LET there == PathsFor(c) \cap files[request[c].job] IN
       CASE there # {} ->
               \E name \in there :
                  request' = [request EXCEPT ![c].name = name,
                    ![c].step = IF request[c].op \in {"delete artifact", "delete artifacts"}
                                THEN "unlink file" ELSE "read file"]
         [] there = {} /\ request[c].op = "llm-calls" -> Answer(c)
         [] there = {} /\ request[c].op # "llm-calls" -> Raise(c, "artifact not found")
    /\ OnlyRequests

ReadFile(c) ==
    /\ At(c, "read file")
    /\ IF request[c].name \in files[request[c].job] THEN Answer(c)
       ELSE Raise(c, "os error")
    /\ OnlyRequests

\* Mutant: Path.unlink(missing_ok=True).
UnlinksAnyway(there) == TRUE

\* Path.unlink raises when the file has gone.
Unlinks(there) == there

Deleted(c, j, n) ==
    /\ reported' = [reported EXCEPT ![j][n] = IF @ < 2 THEN @ + 1 ELSE @]
    /\ IF request[c].op \in Bulk THEN GoOn(c) ELSE Answer(c)

UnlinkFile(c) ==
    /\ At(c, "unlink file")
    /\ LET j == request[c].job
           name == request[c].name
       IN IF Unlinks(name \in files[j])
          THEN /\ files' = [files EXCEPT ![j] = @ \ {name}]
               /\ Deleted(c, j, name)
          ELSE Raise(c, "os error") /\ UNCHANGED <<files, reported>>
    /\ UNCHANGED <<record, writers, task, dir, removing, canceled, crashes>>

\* delete_job: _safe_artifact_dir_for_delete, rmtree, and then the record.
SafeDir(c) ==
    /\ At(c, "safe dir")
    /\ Goto(c, IF dir[request[c].job] THEN "rmtree" ELSE "check record")
    /\ OnlyRequests

RmtreeGivesUp(c) == Goto(c, "check record")    \* mutant: ignore_errors=True

RmtreeRaises(c) == Raise(c, "os error")

\* One file at a time, and then the directory; what another request removed, or
\* the file system refuses, ends it.
Rmtree(c) ==
    /\ At(c, "rmtree")
    /\ LET j == request[c].job IN
       /\ removing' = removing \cup {j}
       /\ \/ \E name \in files[j] :
                files' = [files EXCEPT ![j] = @ \ {name}] /\ UNCHANGED <<dir, request>>
          \/ /\ dir[j] /\ files[j] = {}
             /\ dir' = [dir EXCEPT ![j] = FALSE]
             /\ Goto(c, "check record")
             /\ UNCHANGED files
          \/ RmtreeRaises(c) /\ UNCHANGED <<dir, files>>
    /\ UNCHANGED <<record, writers, task, reported, canceled, crashes>>

CheckRecord(c) ==
    /\ At(c, "check record")
    /\ IF HasFile(request[c].job) THEN Goto(c, "unlink record")
       ELSE Raise(c, "job not found")
    /\ OnlyRequests

UnlinkRecord(c) ==
    /\ At(c, "unlink record")
    /\ LET j == request[c].job IN
       IF Unlinks(HasFile(j))
       THEN /\ record' = [record EXCEPT ![j] = Record("NONE", FALSE)]
            /\ writers' = [writers EXCEPT ![j] = {}]
            /\ Deleted(c, j, "")
       ELSE Raise(c, "os error") /\ UNCHANGED <<record, writers, reported>>
    /\ UNCHANGED <<task, dir, files, removing, canceled, crashes>>

\* cancel_job has found the job active; update reads the record again and writes
\* CANCELED over whatever is there.
CancelRead(c) ==
    /\ At(c, "cancel read")
    /\ LET j == request[c].job IN
       CASE ~HasFile(j) -> Raise(c, "job not found")
         [] HasFile(j) /\ ~Readable(j) -> Raise(c, "not json")
         [] Readable(j) -> HoldRecord(c, "cancel open")
    /\ OnlyRequests

CancelOpen(c) ==
    /\ At(c, "cancel open")
    /\ OpenFile(c, request[c].job)
    /\ canceled' = canceled \cup {request[c].job}
    /\ Goto(c, "cancel fill")
    /\ UNCHANGED <<task, dir, files, reported, removing, crashes>>

CancelFill(c) ==
    /\ At(c, "cancel fill")
    /\ FillFile(c, request[c].job, Record("CANCELED", request[c].artifact_dir))
    /\ Answer(c)
    /\ UNCHANGED <<task, dir, files, reported, removing, canceled, crashes>>

\* The process dies with its requests and runners; the files stay as they are.
Crash ==
    /\ crashes < MaxCrashes
    /\ crashes' = crashes + 1
    /\ request' = [c \in Clients |-> Idle]
    /\ writers' = [j \in Jobs |-> {}]
    /\ task' = [j \in Jobs |-> IF task[j].pc = "waiting" THEN task[j]
                               ELSE Over(task[j])]
    /\ UNCHANGED <<record, dir, files, reported, removing, canceled>>

RunStep(j) ==
    \/ CreateJob(j) \/ TaskCheck(j) \/ TaskRead(j) \/ TaskOpen(j) \/ TaskFill(j)
    \/ StartWorkflow(j) \/ CallbackCheck(j) \/ AppendGet(j) \/ AppendReread(j)
    \/ GraphEnds(j) \/ WriteArtifact(j) \/ WriteRaises(j) \/ ArtifactsWritten(j)

RequestStep(c) ==
    \/ Receive(c) \/ List(c) \/ ReadRecord(c) \/ NextJob(c) \/ GetJob(c)
    \/ ArtifactDir(c) \/ IterDir(c) \/ StatFiles(c) \/ CheckFile(c) \/ ReadFile(c)
    \/ UnlinkFile(c) \/ SafeDir(c) \/ Rmtree(c) \/ CheckRecord(c) \/ UnlinkRecord(c)
    \/ CancelRead(c) \/ CancelOpen(c) \/ CancelFill(c)

Next == (\E j \in Jobs : RunStep(j)) \/ (\E c \in Clients : RequestStep(c)) \/ Crash

Spec == Init /\ [][Next]_vars

-----------------------------------------------------------------------------
(* Properties.                                                             *)

\* The record and the directory of a run agree, whatever requests meet and wherever
\* the process dies: a record that names the directory finds every artifact there
\* that nobody deleted, until a request begins to remove the run.  And the directory
\* of a job that was reported deleted is gone, unless the job was canceled, or its
\* artifacts were never all written: the record that delete_job reads then names no
\* directory, and the task may still write one that does.
RecordAgreesWithFiles ==
    \A j \in Jobs :
        /\ record[j].status \in Finished /\ record[j].artifact_dir /\ j \notin removing =>
              /\ dir[j]
              /\ files[j] = {n \in Names : reported[j][n] = 0}
        /\ reported[j][""] > 0 /\ dir[j] => j \in canceled \/ ~task[j].names

\* Of the requests that delete the same artifact at the same time, one reports it
\* deleted, and what was reported deleted is gone for good.  So it is with a job that
\* nobody canceled; the file of a canceled one may come back by a write of its
\* task, its callbacks or its cancel that was pending when it was unlinked.
ReportedDeletedOnce ==
    \A j \in Jobs :
        /\ j \notin canceled =>
              reported[j][""] <= 1 /\ (reported[j][""] = 1 => ~HasFile(j))
        /\ \A n \in Names :
              reported[j][n] <= 1 /\ (reported[j][n] = 1 => n \notin files[j])

\* The comment of list_library_runs and list_library_artifacts: a run whose
\* artifacts are missing is left out and the page is served all the same.
PageSurvivesLostArtifacts ==
    [][\A c \in Clients :
          request[c].op = "library" /\ request[c].step \in {"artifact dir", "iterdir", "stat"}
             => request'[c].step # "idle" \/ crashes' # crashes]_vars
=============================================================================
