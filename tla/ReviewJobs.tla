----------------------------- MODULE ReviewJobs ------------------------------
(***************************************************************************)
(* Review jobs: LocalReviewJobStore and ReviewJobRunner of                 *)
(* services/review_jobs.py, driven by the HTTP handlers of api/app.py and  *)
(* by the node callbacks of graphs/node_diagnostics.py.                    *)
(*                                                                         *)
(* Every HTTP request builds its own runner, hence its own store and lock, *)
(* so a lock only orders the calls of one job's background task: its main  *)
(* thread and the reviewer threads of its run.  Requests interleave with   *)
(* them at every file operation.  Path.write_text is two operations: open  *)
(* truncates the file, the write fills it.                                 *)
(***************************************************************************)
EXTENDS JobSnapshot

CONSTANTS Jobs,         \* identifiers uuid4 may return
          Requests,     \* concurrent HTTP requests that change jobs
          Ops,          \* which of cancel, delete and retry clients use
          MaxCrashes,   \* how often the server process may be killed
          None,         \* no file, no record held, no holder of a lock, no job
          Empty,        \* a file that was opened for writing and not filled
          Torn          \* a file holding the remains of two writes

ASSUME ReviewJobsAssumption ==
    /\ MaxCrashes \in Nat
    /\ Ops \subseteq {"cancel", "delete", "retry"}
    /\ None \notin Snapshot /\ Empty \notin Snapshot /\ Torn \notin Snapshot
    /\ None # Empty /\ None # Torn /\ Empty # Torn
    /\ None \notin Nodes \cup Jobs

VARIABLES
    file,       \* what is at the path of each job
    writers,    \* clients holding an open descriptor on that very file
    worker,     \* the background task of each job (run_job)
    thread,     \* the node callbacks of the run of each job
    lock,       \* the RLock of the background task's store
    request,    \* the HTTP requests in progress
    dir,        \* the artifact directory each job's run left on disk
    crashes

vars == <<file, writers, worker, thread, lock, request, dir, crashes>>

Clients == Jobs \cup (Jobs \X Nodes) \cup Requests

WorkerPc == {"unborn", "created", "check", "read", "open", "fill", "workflow",
             "recheck", "returned", "raised", "killed"}
ThreadPc == {"waiting", "append", "reread", "open", "fill", "body", "over"}
RequestPc == {"idle", "create", "create_fill", "respond",
              "cancel_read", "cancel_open", "cancel_fill", "rmtree", "unlink"}

Held == Snapshot \cup {None}

Contents == Snapshot \cup {None, Empty, Torn}
Task == [pc : WorkerPc, cur : Held, goal : {"RUNNING", "SUCCEEDED", "FAILED"},
         recorded : BOOLEAN]
Callback == [pc : ThreadPc, event : {"start", "done", "error"},
             first : Held, cur : Held]
HttpRequest == [pc : RequestPc, job : Jobs \cup {None}, cur : Held]

TypeOK ==
    /\ file \in [Jobs -> Contents]
    /\ writers \in [Jobs -> SUBSET Clients]
    /\ worker \in [Jobs -> Task]
    /\ thread \in [Jobs -> [Nodes -> Callback]]
    /\ lock \in [Jobs -> Nodes \cup {None}]
    /\ request \in [Requests -> HttpRequest]
    /\ dir \in [Jobs -> {"none", "present", "removed"}]
    /\ crashes \in Nat

IdleThread == [pc |-> "waiting", event |-> "start", first |-> None, cur |-> None]
UnbornWorker == [pc |-> "unborn", cur |-> None, goal |-> "RUNNING", recorded |-> FALSE]
IdleRequest == [pc |-> "idle", job |-> None, cur |-> None]

Init ==
    /\ file = [j \in Jobs |-> None]
    /\ writers = [j \in Jobs |-> {}]
    /\ worker = [j \in Jobs |-> UnbornWorker]
    /\ thread = [j \in Jobs |-> [n \in Nodes |-> IdleThread]]
    /\ lock = [j \in Jobs |-> None]
    /\ request = [r \in Requests |-> IdleRequest]
    /\ dir = [j \in Jobs |-> "none"]
    /\ crashes = 0

-----------------------------------------------------------------------------
(* File operations.                                                        *)

\* LocalReviewJobStore.get returns a record; otherwise it raises (not found,
\* or JSON that cannot be decoded).
Readable(j) == file[j] \notin {None, Empty, Torn}
HasStatus(j, statuses) == Readable(j) /\ file[j].status \in statuses

\* open(path, "w"): creates or truncates.
OpenFile(c, j) ==
    /\ file' = [file EXCEPT ![j] = Empty]
    /\ writers' = [writers EXCEPT ![j] = @ \cup {c}]

\* Writing from offset 0.  A descriptor whose file was unlinked writes to a
\* file nobody can see.  Over the content of another writer, a shorter record
\* leaves the other one's tail behind.
FillFile(c, j, snapshot) ==
    /\ writers' = [writers EXCEPT ![j] = @ \ {c}]
    /\ \/ /\ c \notin writers[j]
          /\ UNCHANGED file
       \/ /\ c \in writers[j]
          /\ file' = [file EXCEPT ![j] = snapshot]
       \/ /\ c \in writers[j]
          /\ file[j] # Empty
          /\ file' = [file EXCEPT ![j] = Torn]

-----------------------------------------------------------------------------
(* ReviewJobRunner.run_job, the background task of job j.  Its main thread *)
(* calls the store only while no callback of the run is active, so the lock *)
(* is free whenever it needs it.                                           *)

TaskGoto(j, pc, cur) == worker' = [worker EXCEPT ![j].pc = pc, ![j].cur = cur]

\* An update of the job's file: read the record, open the file, fill it.
\* The read fails when the file is gone or cannot be decoded, and run_job does
\* not catch that.
WorkerRead(j) ==
    /\ worker[j].pc = "read"
    /\ \/ Readable(j) /\ TaskGoto(j, "open", file[j])
       \/ ~Readable(j) /\ TaskGoto(j, "raised", None)
    /\ UNCHANGED <<file, writers, thread, lock, request, dir, crashes>>

WorkerOpen(j) ==
    /\ worker[j].pc = "open"
    /\ OpenFile(j, j)
    /\ TaskGoto(j, "fill", worker[j].cur)
    /\ UNCHANGED <<thread, lock, request, dir, crashes>>

WorkerSnapshot(j) ==
    CASE worker[j].goal = "RUNNING"   -> Running(worker[j].cur)
      [] worker[j].goal = "SUCCEEDED" -> Succeeded(worker[j].cur)
      [] worker[j].goal = "FAILED"    -> Failed(worker[j].cur, worker[j].recorded)

WorkerFill(j) ==
    /\ worker[j].pc = "fill"
    /\ FillFile(j, j, WorkerSnapshot(j))
    /\ \/ worker[j].goal = "RUNNING" /\ TaskGoto(j, "workflow", None)
       \/ worker[j].goal # "RUNNING" /\ TaskGoto(j, "returned", None)
    /\ UNCHANGED <<thread, lock, request, dir, crashes>>

\* _raise_if_canceled, before the workflow and after it: a canceled job ends
\* the task, any other record lets it go on to write its next status.
WorkerCheck(j) ==
    /\ worker[j].pc \in {"check", "recheck"}
    /\ \/ ~Readable(j) /\ TaskGoto(j, "raised", None)
       \/ HasStatus(j, {"CANCELED"}) /\ TaskGoto(j, "returned", None)
       \/ HasStatus(j, Status \ {"CANCELED"}) /\ TaskGoto(j, "read", None)
    /\ UNCHANGED <<file, writers, thread, lock, request, dir, crashes>>

\* The workflow is over: the status the task will write is known.
TaskEnds(j, pc, goal, recorded) == worker' = [worker EXCEPT
    ![j].pc = pc, ![j].goal = goal, ![j].recorded = recorded]

\* Every node reported done (or tried to) and the artifacts are on disk.
WorkflowSucceeds(j) ==
    /\ worker[j].pc = "workflow"
    /\ \A n \in Nodes : thread[j][n].pc = "over" /\ thread[j][n].event = "done"
    /\ TaskEnds(j, "recheck", "SUCCEEDED", FALSE)
    /\ dir' = [dir EXCEPT ![j] = "present"]
    /\ UNCHANGED <<file, writers, thread, lock, request, crashes>>

\* The workflow raises: the submission is refused before any node starts, a
\* node failed and the graph waited for the nodes already running, or the
\* artifacts of a complete run could not be written.  A node's error carries
\* the artifact directory, unless writing the partial report failed in turn.
WorkflowRaisesUnrecorded(j) ==  \* mutant: the exception is caught and dropped
    /\ worker[j].pc = "workflow"
    /\ \A n \in Nodes : thread[j][n].pc \in {"waiting", "over"}
    /\ TaskGoto(j, "returned", None)
    /\ UNCHANGED <<file, writers, thread, lock, request, dir, crashes>>

WorkflowRaises(j) ==
    LET refused == \A n \in Nodes : thread[j][n].pc = "waiting"
        failed  == \E n \in Nodes : thread[j][n].event = "error"
        ran     == \A n \in Nodes : thread[j][n].pc = "over"
    IN
    /\ worker[j].pc = "workflow"
    /\ \A n \in Nodes : thread[j][n].pc \in {"waiting", "over"}
    /\ refused \/ failed \/ ran
    /\ \E recorded \in BOOLEAN, left \in {"none", "present"} :
          /\ recorded => failed /\ left = "present"
          /\ refused => left = "none"
          /\ dir' = [dir EXCEPT ![j] = left]
          /\ TaskEnds(j, "read", "FAILED", recorded)
    /\ UNCHANGED <<file, writers, thread, lock, request, crashes>>

-----------------------------------------------------------------------------
(* A node of the run: it reports start, works, and reports done or error.  *)
(* with_node_diagnostics discards whatever the callback raises, so a       *)
(* callback that finds the job canceled, or its file missing or            *)
(* undecodable, only loses the event.                                      *)

CallbackGoto(j, n, pc, event, first, cur) ==
    thread' = [thread EXCEPT ![j][n] =
        [pc |-> pc, event |-> event, first |-> first, cur |-> cur]]

\* The callback ends, or is given up.
AfterEvent(event) == IF event = "start" THEN "body" ELSE "over"
CallbackOver(j, n, event) == CallbackGoto(j, n, AfterEvent(event), event, None, None)

\* The callback is called and makes its first _raise_if_canceled.
EmitNodeProgress(j, n, event) ==
    /\ worker[j].pc = "workflow"
    /\ thread[j][n].pc = IF event = "start" THEN "waiting" ELSE "body"
    /\ lock[j] = None
    /\ \/ HasStatus(j, Status \ {"CANCELED"}) /\ CallbackGoto(j, n, "append", event, None, None)
       \/ ~HasStatus(j, Status \ {"CANCELED"}) /\ CallbackOver(j, n, event)
    /\ UNCHANGED <<file, writers, worker, lock, request, dir, crashes>>

\* append_node_event takes the lock and reads the record it extends.
AppendGetUnlocked(j, n) ==      \* mutant: each thread uses a lock of its own
    /\ thread[j][n].pc = "append"
    /\ \/ /\ Readable(j)
          /\ lock' = [lock EXCEPT ![j] = n]
          /\ CallbackGoto(j, n, "reread", thread[j][n].event, file[j], None)
       \/ /\ ~Readable(j)
          /\ CallbackOver(j, n, thread[j][n].event)
          /\ UNCHANGED lock
    /\ UNCHANGED <<file, writers, worker, request, dir, crashes>>

AppendGet(j, n) ==
    /\ thread[j][n].pc = "append"
    /\ lock[j] = None
    /\ \/ /\ Readable(j)
          /\ lock' = [lock EXCEPT ![j] = n]
          /\ CallbackGoto(j, n, "reread", thread[j][n].event, file[j], None)
       \/ /\ ~Readable(j)
          /\ CallbackOver(j, n, thread[j][n].event)
          /\ UNCHANGED lock
    /\ UNCHANGED <<file, writers, worker, request, dir, crashes>>

\* update, called with the lock held, reads the record again.
AppendReread(j, n) ==
    /\ thread[j][n].pc = "reread"
    /\ \/ /\ Readable(j)
          /\ CallbackGoto(j, n, "open", thread[j][n].event, thread[j][n].first, file[j])
          /\ UNCHANGED lock
       \/ /\ ~Readable(j)
          /\ CallbackOver(j, n, thread[j][n].event)
          /\ lock' = [lock EXCEPT ![j] = None]
    /\ UNCHANGED <<file, writers, worker, request, dir, crashes>>

AppendOpen(j, n) ==
    /\ thread[j][n].pc = "open"
    /\ OpenFile(<<j, n>>, j)
    /\ CallbackGoto(j, n, "fill", thread[j][n].event, thread[j][n].first, thread[j][n].cur)
    /\ UNCHANGED <<worker, lock, request, dir, crashes>>

ThreadSnapshot(j, n) ==
    Appended(thread[j][n].first, thread[j][n].cur,
             [node |-> n, event |-> thread[j][n].event])

\* The record is written and the lock released.  The second
\* _raise_if_canceled that follows changes nothing.
AppendFill(j, n) ==
    /\ thread[j][n].pc = "fill"
    /\ FillFile(<<j, n>>, j, ThreadSnapshot(j, n))
    /\ lock' = [lock EXCEPT ![j] = None]
    /\ CallbackOver(j, n, thread[j][n].event)
    /\ UNCHANGED <<worker, request, dir, crashes>>

-----------------------------------------------------------------------------
(* HTTP requests.  Each has a store, hence a lock, of its own.  A request  *)
(* that is refused, or finds no record it can read, changes nothing: it is *)
(* answered 404, 409 or 500 and does not appear here.                      *)

Goto(r, pc, j, cur) ==
    request' = [request EXCEPT ![r] = [pc |-> pc, job |-> j, cur |-> cur]]
Answer(r) == request' = [request EXCEPT ![r] = IdleRequest]

\* retry_job: the source must not be active; its request is then created anew.
RetryGet(r, source) ==
    /\ "retry" \in Ops
    /\ request[r].pc = "idle"
    /\ HasStatus(source, Terminal)
    /\ Goto(r, "create", None, None)
    /\ UNCHANGED <<file, writers, worker, thread, lock, dir, crashes>>

\* create_job, called by POST /api/jobs or by a retry, writes a new file ...
CreateOpen(r, j) ==
    /\ request[r].pc \in {"idle", "create"}
    /\ worker[j].pc = "unborn"
    /\ OpenFile(r, j)
    /\ TaskGoto(j, "created", None)
    /\ Goto(r, "create_fill", j, None)
    /\ UNCHANGED <<thread, lock, dir, crashes>>

CreateFill(r) ==
    /\ request[r].pc = "create_fill"
    /\ FillFile(r, request[r].job, NewSnapshot)
    /\ Goto(r, "respond", request[r].job, None)
    /\ UNCHANGED <<worker, thread, lock, dir, crashes>>

\* ... and the background task starts once the response has been sent.
Respond(r) ==
    /\ request[r].pc = "respond"
    /\ TaskGoto(request[r].job, "check", None)
    /\ Answer(r)
    /\ UNCHANGED <<file, writers, thread, lock, dir, crashes>>

\* cancel_job: the job must be active when it is read; update then reads it
\* again, without looking at its status.
CancelGet(r, j) ==
    /\ "cancel" \in Ops
    /\ request[r].pc = "idle"
    /\ HasStatus(j, Active)
    /\ Goto(r, "cancel_read", j, None)
    /\ UNCHANGED <<file, writers, worker, thread, lock, dir, crashes>>

CancelRead(r) ==
    LET j == request[r].job IN
    /\ request[r].pc = "cancel_read"
    /\ \/ Readable(j) /\ Goto(r, "cancel_open", j, file[j])
       \/ ~Readable(j) /\ Answer(r)
    /\ UNCHANGED <<file, writers, worker, thread, lock, dir, crashes>>

CancelOpen(r) ==
    /\ request[r].pc = "cancel_open"
    /\ OpenFile(r, request[r].job)
    /\ Goto(r, "cancel_fill", request[r].job, request[r].cur)
    /\ UNCHANGED <<worker, thread, lock, dir, crashes>>

CancelFill(r) ==
    /\ request[r].pc = "cancel_fill"
    /\ FillFile(r, request[r].job, Canceled(request[r].cur))
    /\ Answer(r)
    /\ UNCHANGED <<worker, thread, lock, dir, crashes>>

\* delete_job: the job must not be active when it is read.
DeleteGet(r, j) ==
    /\ "delete" \in Ops
    /\ request[r].pc = "idle"
    /\ HasStatus(j, Terminal)
    /\ Goto(r, "rmtree", j, file[j])
    /\ UNCHANGED <<file, writers, worker, thread, lock, dir, crashes>>

\* The directory the record names, if it still exists ...
DeleteTree(r) ==
    LET j == request[r].job IN
    /\ request[r].pc = "rmtree"
    /\ dir' = [dir EXCEPT ![j] =
          IF request[r].cur.run # "none" /\ @ = "present" THEN "removed" ELSE @]
    /\ Goto(r, "unlink", j, None)
    /\ UNCHANGED <<file, writers, worker, thread, lock, crashes>>

\* ... then the file, whatever it holds by now.
DeleteUnlink(r) ==
    LET j == request[r].job IN
    /\ request[r].pc = "unlink"
    /\ file' = [file EXCEPT ![j] = None]
    /\ writers' = [writers EXCEPT ![j] = {}]
    /\ Answer(r)
    /\ UNCHANGED <<worker, thread, lock, dir, crashes>>

-----------------------------------------------------------------------------
\* The server process dies and is started again.  Nothing resumes the jobs
\* whose files say QUEUED or RUNNING: a task only starts from a response.
Crash ==
    /\ crashes < MaxCrashes
    /\ crashes' = crashes + 1
    /\ writers' = [j \in Jobs |-> {}]
    /\ worker' = [j \in Jobs |->
          IF worker[j].pc \in {"unborn", "returned", "raised"} THEN worker[j]
          ELSE [worker[j] EXCEPT !.pc = "killed", !.cur = None]]
    /\ thread' = [j \in Jobs |-> [n \in Nodes |-> IdleThread]]
    /\ lock' = [j \in Jobs |-> None]
    /\ request' = [r \in Requests |-> IdleRequest]
    /\ UNCHANGED <<file, dir>>

WorkerStep(j) == \/ WorkerCheck(j) \/ WorkerRead(j) \/ WorkerOpen(j)
                 \/ WorkerFill(j) \/ WorkflowSucceeds(j) \/ WorkflowRaises(j)

ThreadStep(j, n) == \/ \E event \in {"start", "done", "error"} : EmitNodeProgress(j, n, event)
                    \/ AppendGet(j, n) \/ AppendReread(j, n)
                    \/ AppendOpen(j, n) \/ AppendFill(j, n)

\* What a request does once it has begun; whether it begins is up to clients.
RequestStep(r) == \/ \E j \in Jobs : request[r].pc = "create" /\ CreateOpen(r, j)
                  \/ CreateFill(r) \/ Respond(r)
                  \/ CancelRead(r) \/ CancelOpen(r) \/ CancelFill(r)
                  \/ DeleteTree(r) \/ DeleteUnlink(r)

Next ==
    \/ \E j \in Jobs : WorkerStep(j)
    \/ \E j \in Jobs, n \in Nodes : ThreadStep(j, n)
    \/ \E r \in Requests, j \in Jobs :
          RetryGet(r, j) \/ CreateOpen(r, j) \/ CancelGet(r, j) \/ DeleteGet(r, j)
    \/ \E r \in Requests : RequestStep(r)
    \/ Crash

Spec == Init /\ [][Next]_vars

\* Threads keep running: the task, its callbacks and a request that has begun
\* never stop by themselves (model calls have timeouts).
Fairness ==
    /\ \A j \in Jobs : WF_vars(WorkerStep(j))
    /\ \A j \in Jobs, n \in Nodes : WF_vars(ThreadStep(j, n))
    /\ \A r \in Requests : WF_vars(RequestStep(r))

FairSpec == Spec /\ Fairness

-----------------------------------------------------------------------------
(* Properties.                                                             *)

\* Whatever interleaving of task, callbacks and requests wrote it, a record
\* carries the error that belongs to its status: a success hides no earlier
\* cancellation, a cancellation and a failure always say why.  The update of a
\* cancel does not look at the status it overwrites, and a callback mixes the
\* fields of two reads.
ErrorMatches(snapshot) ==
    /\ snapshot.status \in {"QUEUED", "SUCCEEDED"} => snapshot.error = "none"
    /\ snapshot.status = "FAILED" => snapshot.error = "failure"
    /\ snapshot.status = "CANCELED" => snapshot.error = "canceled"

ErrorMatchesStatus == \A j \in Jobs : Readable(j) => ErrorMatches(file[j])

\* A client that sees QUEUED may trust that no node of the run has started: no
\* stale write brings a started job back to QUEUED.
QueuedMeansNotStarted ==
    \A j \in Jobs : HasStatus(j, {"QUEUED"}) =>
        /\ worker[j].pc \notin {"workflow", "recheck", "returned"}
        /\ \A n \in Nodes : thread[j][n] = IdleThread

\* Once the background task has returned, the job is never shown as active, so
\* a client that polls until the job ends does not poll for ever.
ReturnedJobIsNotActive ==
    \A j \in Jobs : worker[j].pc = "returned" => ~HasStatus(j, Active)

\* The two views of progress in a record agree: "nodes" is what a replay of
\* "node_events" gives, although cancels and callbacks overwrite each other's
\* records with older ones.
NodesAgree(nodes, events) ==
    LET Last(i, n) == /\ events[i].node = n
                      /\ \A k \in DOMAIN events : events[k].node = n => k <= i
    IN \A n \in Nodes :
        /\ (\A i \in DOMAIN events : events[i].node # n) => nodes[n] = "NONE"
        /\ \A i \in DOMAIN events :
              Last(i, n) => nodes[n] = NodeStatusFromEvent(events[i].event)

NodesAgreeWithEvents ==
    \A j \in Jobs : Readable(j) => NodesAgree(file[j].nodes, file[j].node_events)

\* No event is recorded twice, and no node is recorded as having reported start
\* after it reported its end.
EventsInOrder ==
    \A j \in Jobs : Readable(j) =>
        LET log == file[j].node_events IN
        \A i, k \in DOMAIN log : i < k /\ log[i].node = log[k].node =>
            log[i].event = "start" /\ log[k].event # "start"

\* A job shown as succeeded ran to its end, names its artifact directory, and
\* the directory is there unless somebody is deleting the job, or was when the
\* server died.
SuccessHasArtifacts ==
    \A j \in Jobs : HasStatus(j, {"SUCCEEDED"}) =>
        /\ file[j].run = "complete"
        /\ \A n \in Nodes : crashes = 0 => thread[j][n].event = "done"
        /\ \/ dir[j] = "present"
           \/ \E r \in Requests : request[r].pc = "unlink" /\ request[r].job = j
           \/ crashes > 0

\* A job's file needs no more writes: it says how the job ended, or is gone, or
\* two writers have left it undecodable.
Settled(j) == file[j] \in {None, Torn} \/ HasStatus(j, Terminal)

\* Every accepted job settles and stays settled, also when a cancel makes the
\* task fail on a file it cannot decode: nothing is left RUNNING with nobody
\* working on it, as long as the server keeps running.
JobsSettle == \A j \in Jobs : worker[j].pc # "unborn" ~> crashes > 0 \/ []Settled(j)

\* Nobody resumes a job the server died on, but it is not shown as active for
\* ever: once a cancel has found it active, it settles for good.
AbandonedJobCanBeCanceled == \A j \in Jobs, r \in Requests :
    worker[j].pc = "killed" /\ request[r].pc = "cancel_read" /\ request[r].job = j
        ~> []Settled(j)

-----------------------------------------------------------------------------
(* The inductive invariant behind ErrorMatchesStatus,                      *)
(* NodesAgreeWithEvents, QueuedMeansNotStarted and ReturnedJobIsNotActive. *)

\* What holds of every record that was ever stored.
Sound(snapshot) ==
    ErrorMatches(snapshot) /\ NodesAgree(snapshot.nodes, snapshot.node_events)

\* The update to RUNNING has completed, and a later one may have.
Started(j) ==
    \/ worker[j].pc \in {"workflow", "recheck", "returned"}
    \/ worker[j].goal # "RUNNING"

\* Every record in a file or in a client's hands is sound.
RecordsSound ==
    /\ \A j \in Jobs :
          /\ Readable(j) => Sound(file[j])
          /\ worker[j].pc \in {"open", "fill"} => Sound(worker[j].cur)
    /\ \A r \in Requests :
          request[r].pc \in {"cancel_open", "cancel_fill"} => Sound(request[r].cur)

\* Whoever is about to write a record has read one, and a request past its
\* first step knows its job.
WritersHoldRecords ==
    /\ \A j \in Jobs : worker[j].pc \in {"open", "fill"} => worker[j].cur # None
    /\ \A j \in Jobs, n \in Nodes :
          /\ thread[j][n].pc \in {"reread", "open", "fill"} => thread[j][n].first # None
          /\ thread[j][n].pc \in {"open", "fill"} => thread[j][n].cur # None
    /\ \A r \in Requests :
          /\ request[r].pc \in {"cancel_open", "cancel_fill"} => request[r].cur # None
          /\ request[r].pc \notin {"idle", "create"} => request[r].job \in Jobs

\* A job being created has nobody but its creator.
OneCreator == \A r, q \in Requests :
    request[r].pc \in {"create_fill", "respond"} =>
        /\ worker[request[r].job].pc = "created"
        /\ request[q].pc \in {"create_fill", "respond"} /\ request[q].job = request[r].job
              => q = r

\* A task that has not read its job yet is to write RUNNING, and one whose
\* workflow is over will not write it again.
TaskAims == \A j \in Jobs :
    /\ worker[j].pc \in {"unborn", "created", "check"} => worker[j].goal = "RUNNING"
    /\ worker[j].pc = "recheck" => worker[j].goal # "RUNNING"

\* What the file of a job may say, given how far its task is.
FileFollowsTask == \A j \in Jobs : Readable(j) =>
    /\ Started(j) => file[j].status # "QUEUED"
    /\ worker[j].pc = "workflow" => file[j].status \in {"RUNNING", "CANCELED"}
    /\ worker[j].pc = "returned" => file[j].status \in Terminal
    /\ worker[j].pc = "fill" /\ j \notin writers[j] => file[j].status = "CANCELED"

\* Callbacks run inside the workflow only, one at a time from the moment they
\* have read the record they extend; and a record read as CANCELED stays so
\* while its reader holds the lock.
CallbackLocked(j, n) ==
    LET t == thread[j][n] IN
    /\ t # IdleThread => Started(j)
    /\ t.pc \in {"append", "reread", "open", "fill", "body"} => worker[j].pc = "workflow"
    /\ t.pc \in {"reread", "open", "fill"} =>
          /\ lock[j] = n
          /\ Sound(t.first)
          /\ t.first.status \in {"RUNNING", "CANCELED"}
    /\ t.pc = "reread" /\ t.first.status = "CANCELED" /\ Readable(j) =>
          file[j].status = "CANCELED"
    /\ t.pc \in {"open", "fill"} =>
          /\ Sound(t.cur)
          /\ t.first.status = "CANCELED" => t.cur.status = "CANCELED"

CallbacksLocked == \A j \in Jobs, n \in Nodes : CallbackLocked(j, n)

IInv == /\ WritersHoldRecords /\ RecordsSound /\ OneCreator
        /\ TaskAims /\ FileFollowsTask /\ CallbacksLocked

-----------------------------------------------------------------------------
(* What comments and error messages of the code say, and the code breaks.  *)

\* cancel_job refuses a job that "is already finished": what a cancel completes to
\* CANCELED is the record of a job that was active when update read it.
FinishedJobIsNotCanceled ==
    [][\A r \in Requests :
          LET cur == request[r].cur IN
          request[r].pc = "cancel_fill" /\ request'[r].pc = "idle"
          /\ file'[request[r].job] = Canceled(cur) => cur.status \in Active]_vars

\* run_job "only writes status and does not raise to the HTTP layer".
TaskNeverRaises == \A j \in Jobs : worker[j].pc # "raised"

\* Each node callback "checks the cancel state": a node whose start callback
\* finds the job canceled does not run.
CanceledJobStartsNoNode ==
    [][\A j \in Jobs, n \in Nodes :
          HasStatus(j, {"CANCELED"}) /\ thread[j][n].pc = "waiting"
             => thread'[j][n].pc # "body"]_vars
=============================================================================
