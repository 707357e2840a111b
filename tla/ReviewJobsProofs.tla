--------------------------- MODULE ReviewJobsProofs ---------------------------
(***************************************************************************)
(* The inductive invariant of ReviewJobs, and what follows from it: types, *)
(* and ErrorMatchesStatus, NodesAgreeWithEvents, QueuedMeansNotStarted and *)
(* ReturnedJobIsNotActive for any number of jobs, nodes, requests and      *)
(* crashes.                                                                *)
(***************************************************************************)
EXTENDS ReviewJobs, TLAPS

\* Every update of a typed record gives a typed record (store.update).
LEMMA SnapshotsTyped ==
    ASSUME NEW cur \in Snapshot
    PROVE  /\ Running(cur) \in Snapshot
           /\ Canceled(cur) \in Snapshot
           /\ Succeeded(cur) \in Snapshot
           /\ \A recorded \in BOOLEAN : Failed(cur, recorded) \in Snapshot
           /\ \A first \in Snapshot, ev \in NodeEvent : Appended(first, cur, ev) \in Snapshot
<1>1. \A ev \in NodeEvent : NodeStatusFromEvent(ev.event) \in NodeStatus
  BY DEF NodeEvent, NodeStatus, NodeStatusFromEvent
<1>2. ASSUME NEW first \in Snapshot, NEW ev \in NodeEvent
      PROVE  Appended(first, cur, ev) \in Snapshot
  <2>1. Append(first.node_events, ev) \in Seq(NodeEvent)
    BY DEF Snapshot
  <2>2. [first.nodes EXCEPT ![ev.node] = NodeStatusFromEvent(ev.event)] \in [Nodes -> NodeStatus]
    BY <1>1 DEF Snapshot
  <2>3. QED
    BY <2>1, <2>2 DEF Snapshot, Appended
<1>3. QED
  BY <1>2 DEF Snapshot, Status, Running, Canceled, Succeeded, Failed

\* create writes a typed record.
LEMMA NewSnapshotTyped == NewSnapshot \in Snapshot
  BY DEF NewSnapshot, Snapshot, Status, NodeStatus

\* The initial state is typed.
LEMMA TypeInit == Init => TypeOK
  BY DEF Init, TypeOK, Contents, Task, Callback, HttpRequest, Held, IdleThread,
     UnbornWorker, IdleRequest, WorkerPc, ThreadPc, RequestPc

-----------------------------------------------------------------------------
(* What a step does to the variables, point by point.                      *)

TaskIs(j, pc, cur, goal) ==
    /\ worker' \in [Jobs -> Task]
    /\ worker'[j].pc = pc /\ worker'[j].cur = cur /\ worker'[j].goal = goal
    /\ \A i \in Jobs \ {j} : worker'[i] = worker[i]

CallbackIs(j, n, pc, first, cur) ==
    /\ thread' \in [Jobs -> [Nodes -> Callback]]
    /\ thread'[j][n].pc = pc
    /\ thread'[j][n].first = first /\ thread'[j][n].cur = cur
    /\ \A i \in Jobs, m \in Nodes : <<i, m>> # <<j, n>> => thread'[i][m] = thread[i][m]

RequestIs(r, pc, j, cur) ==
    /\ request' \in [Requests -> HttpRequest]
    /\ request'[r].pc = pc /\ request'[r].job = j /\ request'[r].cur = cur
    /\ \A q \in Requests \ {r} : request'[q] = request[q]

Opened(c, j) ==
    /\ file' \in [Jobs -> Contents] /\ writers' \in [Jobs -> SUBSET Clients]
    /\ file'[j] = Empty /\ writers'[j] = writers[j] \cup {c}
    /\ \A i \in Jobs \ {j} : file'[i] = file[i] /\ writers'[i] = writers[i]

Filled(c, j, snapshot) ==
    /\ file' \in [Jobs -> Contents] /\ writers' \in [Jobs -> SUBSET Clients]
    /\ \/ c \notin writers[j] /\ file'[j] = file[j]
       \/ c \in writers[j] /\ file'[j] \in {snapshot, Torn}
    /\ writers'[j] = writers[j] \ {c}
    /\ \A i \in Jobs \ {j} : file'[i] = file[i] /\ writers'[i] = writers[i]

\* TaskGoto moves the task of one job and keeps what it aims at.
LEMMA TaskGotoIs ==
    ASSUME worker \in [Jobs -> Task], NEW j \in Jobs, NEW pc \in WorkerPc, NEW cur \in Held,
           TaskGoto(j, pc, cur)
    PROVE  TaskIs(j, pc, cur, worker[j].goal)
  BY DEF TaskGoto, TaskIs, Task

\* TaskEnds moves the task of one job and sets what it will write.
LEMMA TaskEndsIs ==
    ASSUME worker \in [Jobs -> Task], NEW j \in Jobs, NEW pc \in WorkerPc,
           NEW goal \in {"RUNNING", "SUCCEEDED", "FAILED"}, NEW recorded \in BOOLEAN,
           TaskEnds(j, pc, goal, recorded)
    PROVE  TaskIs(j, pc, worker[j].cur, goal)
  BY ZenonT(60) DEF TaskEnds, TaskIs, Task

\* CallbackGoto changes the callback of one node of one job.
LEMMA CallbackGotoIs ==
    ASSUME thread \in [Jobs -> [Nodes -> Callback]], NEW j \in Jobs, NEW n \in Nodes,
           NEW pc \in ThreadPc, NEW event \in {"start", "done", "error"},
           NEW first \in Held, NEW cur \in Held,
           CallbackGoto(j, n, pc, event, first, cur)
    PROVE  CallbackIs(j, n, pc, first, cur)
<1> DEFINE c == [pc |-> pc, event |-> event, first |-> first, cur |-> cur]
<1>1. c \in Callback
  BY DEF Callback
<1>2. thread' = [thread EXCEPT ![j][n] = c]
  BY DEF CallbackGoto
<1> HIDE DEF c
<1>3. /\ thread' \in [Jobs -> [Nodes -> Callback]]
      /\ thread'[j][n] = c
      /\ \A i \in Jobs, m \in Nodes : <<i, m>> # <<j, n>> => thread'[i][m] = thread[i][m]
  BY <1>1, <1>2
<1> QED
  BY <1>3 DEF c, CallbackIs

\* Goto changes one request.
LEMMA GotoIs ==
    ASSUME request \in [Requests -> HttpRequest], NEW r \in Requests, NEW pc \in RequestPc,
           NEW j \in Jobs \cup {None}, NEW cur \in Held,
           Goto(r, pc, j, cur)
    PROVE  RequestIs(r, pc, j, cur)
  BY DEF Goto, RequestIs, HttpRequest

\* Answer makes one request idle.
LEMMA AnswerIs ==
    ASSUME request \in [Requests -> HttpRequest], NEW r \in Requests, Answer(r)
    PROVE  RequestIs(r, "idle", None, None)
  BY DEF Answer, IdleRequest, RequestIs, HttpRequest, RequestPc, Held

\* OpenFile empties one file and adds one writer to it.
LEMMA OpenFileIs ==
    ASSUME file \in [Jobs -> Contents], writers \in [Jobs -> SUBSET Clients],
           NEW j \in Jobs, NEW c \in Clients, OpenFile(c, j)
    PROVE  Opened(c, j)
  BY DEF OpenFile, Opened, Contents

\* FillFile leaves the file alone, fills it or tears it, and removes its
\* writer.
LEMMA FillFileIs ==
    ASSUME file \in [Jobs -> Contents], writers \in [Jobs -> SUBSET Clients],
           NEW j \in Jobs, NEW c, NEW snapshot \in Snapshot, FillFile(c, j, snapshot)
    PROVE  Filled(c, j, snapshot)
  BY DEF FillFile, Filled, Contents

-----------------------------------------------------------------------------
(* Every update of a sound record gives a sound record.                    *)

\* The status updates of a sound record give sound records (run_job,
\* cancel_job).
LEMMA UpdatesSound ==
    ASSUME NEW cur \in Snapshot, Sound(cur)
    PROVE  /\ Sound(Running(cur)) /\ Sound(Canceled(cur)) /\ Sound(Succeeded(cur))
           /\ \A recorded \in BOOLEAN : Sound(Failed(cur, recorded))
<1>1. /\ ErrorMatches(Running(cur)) /\ ErrorMatches(Canceled(cur))
      /\ ErrorMatches(Succeeded(cur))
      /\ \A recorded \in BOOLEAN : ErrorMatches(Failed(cur, recorded))
  BY DEF ErrorMatches, Running, Canceled, Succeeded, Failed
<1>2. /\ Running(cur).nodes = cur.nodes /\ Running(cur).node_events = cur.node_events
      /\ Canceled(cur).nodes = cur.nodes /\ Canceled(cur).node_events = cur.node_events
      /\ Succeeded(cur).nodes = cur.nodes /\ Succeeded(cur).node_events = cur.node_events
      /\ \A recorded \in BOOLEAN : /\ Failed(cur, recorded).nodes = cur.nodes
                                   /\ Failed(cur, recorded).node_events = cur.node_events
  BY DEF Running, Canceled, Succeeded, Failed
<1> QED
  BY <1>1, <1>2 DEF Sound

\* create writes a sound record.
LEMMA NewSnapshotSound == Sound(NewSnapshot)
  BY DEF NewSnapshot, Sound, ErrorMatches, NodesAgree

\* Appending an event keeps "nodes" a replay of "node_events"; the error read
\* second belongs to the status read first if a cancel cannot fall before the
\* first read only.
LEMMA AppendedSound ==
    ASSUME NEW first \in Snapshot, NEW cur \in Snapshot, NEW ev \in NodeEvent,
           Sound(first), Sound(cur), first.status \in {"RUNNING", "CANCELED"},
           first.status = "CANCELED" => cur.status = "CANCELED"
    PROVE  Sound(Appended(first, cur, ev))
<1> DEFINE s == Appended(first, cur, ev)
           old == first.node_events
           new == s.node_events
<1>1. /\ s.status = first.status /\ s.error = cur.error
      /\ s.nodes = [first.nodes EXCEPT ![ev.node] = NodeStatusFromEvent(ev.event)]
      /\ s.node_events = Append(first.node_events, ev)
  BY DEF Appended
<1>2. ErrorMatches(s)
  BY <1>1 DEF Sound, ErrorMatches
<1>3. old \in Seq(NodeEvent) /\ first.nodes \in [Nodes -> NodeStatus] /\ ev.node \in Nodes
  BY DEF Snapshot, NodeEvent
<1>4. /\ DOMAIN old = 1 .. Len(old) /\ Len(old) \in Nat
      /\ DOMAIN new = 1 .. Len(old) + 1 /\ new[Len(old) + 1] = ev
      /\ \A i \in DOMAIN old : i \in DOMAIN new /\ new[i] = old[i]
  BY <1>1
<1> HIDE DEF s, old, new
<1>5. ASSUME NEW n \in Nodes, \A i \in DOMAIN new : new[i].node # n
      PROVE  s.nodes[n] = "NONE"
  <2>1. ev.node # n /\ \A i \in DOMAIN old : old[i].node # n
    BY <1>4, <1>5
  <2>2. first.nodes[n] = "NONE"
    BY <2>1 DEF Sound, NodesAgree, old
  <2> QED
    BY <2>1, <2>2, <1>1
<1>6. ASSUME NEW n \in Nodes, NEW i \in DOMAIN new, new[i].node = n,
             \A k \in DOMAIN new : new[k].node = n => k <= i
      PROVE  s.nodes[n] = NodeStatusFromEvent(new[i].event)
  <2>1. CASE i = Len(old) + 1
    BY <2>1, <1>1, <1>3, <1>4, <1>6
  <2>2. CASE i # Len(old) + 1
    <3>1. i \in DOMAIN old /\ new[i] = old[i] /\ ev.node # n
      BY <2>2, <1>4, <1>6
    <3>2. \A k \in DOMAIN old : old[k].node = n => k <= i
      BY <1>4, <1>6
    <3>3. first.nodes[n] = NodeStatusFromEvent(old[i].event)
      BY <3>1, <3>2, <1>6 DEF Sound, NodesAgree, old
    <3> QED
      BY <3>1, <3>3, <1>1
  <2> QED
    BY <2>1, <2>2
<1>7. NodesAgree(s.nodes, new)
  BY <1>5, <1>6 DEF NodesAgree
<1> QED
  BY <1>2, <1>7 DEF Sound, s, new

-----------------------------------------------------------------------------
(* The inductive invariant, one lemma per action.                          *)

Inductive == TypeOK /\ IInv

\* What a client may hold, and that holding nothing is not holding a record.
LEMMA HeldFacts == None \in Held /\ Snapshot \subseteq Held /\ None \notin Snapshot
  BY ReviewJobsAssumption DEF Held

\* The status each update of run_job and cancel_job writes.
LEMMA UpdatesStatus ==
    ASSUME NEW cur \in Snapshot
    PROVE  /\ Running(cur).status = "RUNNING" /\ Canceled(cur).status = "CANCELED"
           /\ Succeeded(cur).status = "SUCCEEDED"
           /\ \A recorded \in BOOLEAN : Failed(cur, recorded).status = "FAILED"
  BY DEF Running, Canceled, Succeeded, Failed

\* append_node_event writes back the status of its first read.
LEMMA AppendedStatus ==
    ASSUME NEW first \in Snapshot, NEW cur \in Snapshot, NEW ev
    PROVE  Appended(first, cur, ev).status = first.status
  BY DEF Appended

\* _raise_if_canceled in run_job preserves the inductive invariant.
LEMMA WorkerCheckPreserves ==
    ASSUME Inductive, NEW j \in Jobs, WorkerCheck(j)
    PROVE  Inductive'
<1>1. worker[j].pc \in {"check", "recheck"}
  BY DEF WorkerCheck
<1>2. PICK pc \in {"raised", "returned", "read"} :
       /\ TaskIs(j, pc, None, worker[j].goal)
       /\ pc = "returned" => HasStatus(j, {"CANCELED"})
  BY HeldFacts, TaskGotoIs DEF WorkerCheck, WorkerPc, Inductive, TypeOK
<1>3. UNCHANGED <<file, writers, thread, lock, request, dir, crashes>>
  BY DEF WorkerCheck
<1>4. TypeOK'
  BY <1>2, <1>3 DEF Inductive, TypeOK, TaskIs
<1>5. WritersHoldRecords'
  BY <1>2, <1>3 DEF Inductive, IInv, WritersHoldRecords, TaskIs
<1>6. RecordsSound'
  BY <1>2, <1>3 DEF Inductive, IInv, RecordsSound, Readable, TaskIs
<1>7. OneCreator'
  BY <1>1, <1>2, <1>3 DEF Inductive, IInv, OneCreator, WritersHoldRecords,
     TaskIs
<1>8. TaskAims'
  BY <1>2 DEF Inductive, IInv, TaskAims, TaskIs
<1>9. FileFollowsTask'
  BY <1>2, <1>3 DEF Inductive, IInv, FileFollowsTask, Started, Readable, TaskIs,
     HasStatus, Terminal
<1>10. CallbacksLocked'
  BY <1>1, <1>2, <1>3 DEF Inductive, IInv, CallbacksLocked, CallbackLocked,
     Started, Readable, TaskIs, TaskAims
<1> QED
  BY <1>4, <1>5, <1>6, <1>7, <1>8, <1>9, <1>10 DEF Inductive, IInv

\* The read of an update by run_job preserves the inductive invariant.
LEMMA WorkerReadPreserves ==
    ASSUME Inductive, NEW j \in Jobs, WorkerRead(j)
    PROVE  Inductive'
<1>1. worker[j].pc = "read"
  BY DEF WorkerRead
<1>2. \/ Readable(j) /\ file[j] \in Snapshot /\ TaskIs(j, "open", file[j], worker[j].goal)
      \/ TaskIs(j, "raised", None, worker[j].goal)
  BY HeldFacts, TaskGotoIs DEF WorkerRead, Readable, Contents, WorkerPc,
     Inductive, TypeOK
<1>3. UNCHANGED <<file, writers, thread, lock, request, dir, crashes>>
  BY DEF WorkerRead
<1>4. TypeOK'
  BY <1>2, <1>3 DEF Inductive, TypeOK, TaskIs
<1>5. WritersHoldRecords'
  BY <1>2, <1>3, HeldFacts DEF Inductive, IInv, WritersHoldRecords, TaskIs
<1>6. RecordsSound'
  BY <1>2, <1>3 DEF Inductive, IInv, RecordsSound, Readable, TaskIs
<1>7. OneCreator'
  BY <1>1, <1>2, <1>3 DEF Inductive, IInv, OneCreator, WritersHoldRecords,
     TaskIs
<1>8. TaskAims'
  BY <1>2 DEF Inductive, IInv, TaskAims, TaskIs
<1>9. FileFollowsTask'
  BY <1>2, <1>3 DEF Inductive, IInv, FileFollowsTask, Started, Readable, TaskIs
<1>10. CallbacksLocked'
  BY <1>1, <1>2, <1>3 DEF Inductive, IInv, CallbacksLocked, CallbackLocked,
     Started, Readable, TaskIs
<1> QED
  BY <1>4, <1>5, <1>6, <1>7, <1>8, <1>9, <1>10 DEF Inductive, IInv

\* The opening of the file by run_job preserves the inductive invariant.
LEMMA WorkerOpenPreserves ==
    ASSUME Inductive, NEW j \in Jobs, WorkerOpen(j)
    PROVE  Inductive'
<1>1. worker[j].pc = "open"
  BY DEF WorkerOpen
<1>2. TaskIs(j, "fill", worker[j].cur, worker[j].goal)
  BY TaskGotoIs DEF WorkerOpen, WorkerPc, Task, Inductive, TypeOK
<1>3. Opened(j, j)
  BY OpenFileIs DEF WorkerOpen, Clients, Inductive, TypeOK
<1>4. UNCHANGED <<thread, lock, request, dir, crashes>>
  BY DEF WorkerOpen
<1>5. TypeOK'
  BY <1>2, <1>3, <1>4 DEF Inductive, TypeOK, TaskIs, Opened
<1>6. WritersHoldRecords'
  BY <1>1, <1>2, <1>4 DEF Inductive, IInv, WritersHoldRecords, TaskIs
<1>7. RecordsSound'
  BY <1>1, <1>2, <1>3, <1>4 DEF Inductive, IInv, RecordsSound, Readable, TaskIs,
     Opened
<1>8. OneCreator'
  BY <1>1, <1>2, <1>4 DEF Inductive, IInv, OneCreator, WritersHoldRecords,
     TaskIs
<1>9. TaskAims'
  BY <1>2 DEF Inductive, IInv, TaskAims, TaskIs
<1>10. FileFollowsTask'
  BY <1>2, <1>3 DEF Inductive, IInv, FileFollowsTask, Started, Readable, TaskIs,
     Opened
<1>11. CallbacksLocked'
  BY <1>1, <1>2, <1>3, <1>4 DEF Inductive, IInv, CallbacksLocked,
     CallbackLocked, Started, Readable, TaskIs, Opened
<1> QED
  BY <1>5, <1>6, <1>7, <1>8, <1>9, <1>10, <1>11 DEF Inductive, IInv

\* The write of a status by run_job preserves the inductive invariant.
LEMMA WorkerFillPreserves ==
    ASSUME Inductive, NEW j \in Jobs, WorkerFill(j)
    PROVE  Inductive'
<1>1. worker[j].pc = "fill"
  BY DEF WorkerFill
<1>2. /\ worker[j].cur \in Snapshot /\ Sound(worker[j].cur)
      /\ worker[j].goal \in {"RUNNING", "SUCCEEDED", "FAILED"}
      /\ worker[j].recorded \in BOOLEAN
  BY <1>1 DEF Task, Held, IInv, WritersHoldRecords, RecordsSound, Inductive,
     TypeOK
<1>3. /\ WorkerSnapshot(j) \in Snapshot /\ Sound(WorkerSnapshot(j))
  BY <1>2, SnapshotsTyped, UpdatesSound DEF WorkerSnapshot
<1>4. WorkerSnapshot(j).status = worker[j].goal
  BY <1>2, UpdatesStatus DEF WorkerSnapshot
<1>5. Filled(j, j, WorkerSnapshot(j))
  BY <1>3, FillFileIs DEF WorkerFill, Inductive, TypeOK
<1>6. PICK pc \in {"workflow", "returned"} :
       TaskGoto(j, pc, None) /\ (pc = "workflow" <=> worker[j].goal = "RUNNING")
  BY DEF WorkerFill
<1>7. TaskIs(j, pc, None, worker[j].goal)
  BY <1>6, HeldFacts, TaskGotoIs DEF WorkerPc, Inductive, TypeOK
<1>8. UNCHANGED <<thread, lock, request, dir, crashes>>
  BY DEF WorkerFill
<1>9. TypeOK'
  BY <1>5, <1>7, <1>8 DEF Inductive, TypeOK, TaskIs, Filled
<1>10. WritersHoldRecords'
  BY <1>7, <1>8 DEF Inductive, IInv, WritersHoldRecords, TaskIs
<1>11. RecordsSound'
  BY <1>3, <1>5, <1>7, <1>8 DEF Inductive, IInv, RecordsSound, Readable, TaskIs,
     Filled
<1>12. OneCreator'
  BY <1>1, <1>7, <1>8 DEF Inductive, IInv, OneCreator, WritersHoldRecords,
     TaskIs
<1>13. TaskAims'
  BY <1>7 DEF Inductive, IInv, TaskAims, TaskIs
<1>14. FileFollowsTask'
  BY <1>1, <1>2, <1>4, <1>5, <1>6, <1>7 DEF Inductive, IInv, FileFollowsTask,
     Started, Readable, TaskIs, Filled, Terminal
<1>15. CallbacksLocked'
  BY <1>1, <1>5, <1>7, <1>8 DEF Inductive, IInv, CallbacksLocked,
     CallbackLocked, Started, Readable, TaskIs, Filled
<1> QED
  BY <1>9, <1>10, <1>11, <1>12, <1>13, <1>14, <1>15 DEF Inductive, IInv

\* The return of the workflow preserves the inductive invariant.
LEMMA WorkflowSucceedsPreserves ==
    ASSUME Inductive, NEW j \in Jobs, WorkflowSucceeds(j)
    PROVE  Inductive'
<1>1. worker[j].pc = "workflow" /\ \A n \in Nodes : thread[j][n].pc = "over"
  BY DEF WorkflowSucceeds
<1>2. TaskIs(j, "recheck", worker[j].cur, "SUCCEEDED")
  BY TaskEndsIs DEF WorkflowSucceeds, WorkerPc, Inductive, TypeOK
<1>3. dir' \in [Jobs -> {"none", "present", "removed"}]
  BY DEF WorkflowSucceeds, Inductive, TypeOK
<1>4. UNCHANGED <<file, writers, thread, lock, request, crashes>>
  BY DEF WorkflowSucceeds
<1>5. TypeOK'
  BY <1>2, <1>3, <1>4 DEF Inductive, TypeOK, TaskIs
<1>6. WritersHoldRecords'
  BY <1>2, <1>4 DEF Inductive, IInv, WritersHoldRecords, TaskIs
<1>7. RecordsSound'
  BY <1>2, <1>4 DEF Inductive, IInv, RecordsSound, Readable, TaskIs
<1>8. OneCreator'
  BY <1>1, <1>2, <1>4 DEF Inductive, IInv, OneCreator, WritersHoldRecords,
     TaskIs
<1>9. TaskAims'
  BY <1>2 DEF Inductive, IInv, TaskAims, TaskIs
<1>10. FileFollowsTask'
  BY <1>1, <1>2, <1>4 DEF Inductive, IInv, FileFollowsTask, Started, Readable,
     TaskIs
<1>11. CallbacksLocked'
  BY <1>1, <1>2, <1>4 DEF Inductive, IInv, CallbacksLocked, CallbackLocked,
     Started, Readable, TaskIs
<1> QED
  BY <1>5, <1>6, <1>7, <1>8, <1>9, <1>10, <1>11 DEF Inductive, IInv

\* The failure of the workflow preserves the inductive invariant.
LEMMA WorkflowRaisesPreserves ==
    ASSUME Inductive, NEW j \in Jobs, WorkflowRaises(j)
    PROVE  Inductive'
<1>1. worker[j].pc = "workflow" /\ \A n \in Nodes : thread[j][n].pc \in {"waiting", "over"}
  BY DEF WorkflowRaises
<1>2. PICK recorded \in BOOLEAN, left \in {"none", "present"} :
       TaskEnds(j, "read", "FAILED", recorded) /\ dir' = [dir EXCEPT ![j] = left]
  BY DEF WorkflowRaises
<1>3. TaskIs(j, "read", worker[j].cur, "FAILED")
  BY <1>2, TaskEndsIs DEF WorkerPc, Inductive, TypeOK
<1>4. UNCHANGED <<file, writers, thread, lock, request, crashes>>
  BY DEF WorkflowRaises
<1>5. TypeOK'
  BY <1>2, <1>3, <1>4 DEF Inductive, TypeOK, TaskIs
<1>6. WritersHoldRecords'
  BY <1>3, <1>4 DEF Inductive, IInv, WritersHoldRecords, TaskIs
<1>7. RecordsSound'
  BY <1>3, <1>4 DEF Inductive, IInv, RecordsSound, Readable, TaskIs
<1>8. OneCreator'
  BY <1>1, <1>3, <1>4 DEF Inductive, IInv, OneCreator, WritersHoldRecords,
     TaskIs
<1>9. TaskAims'
  BY <1>3 DEF Inductive, IInv, TaskAims, TaskIs
<1>10. FileFollowsTask'
  BY <1>1, <1>3, <1>4 DEF Inductive, IInv, FileFollowsTask, Started, Readable,
     TaskIs
<1>11. CallbacksLocked'
  BY <1>1, <1>3, <1>4 DEF Inductive, IInv, CallbacksLocked, CallbackLocked,
     Started, Readable, TaskIs
<1> QED
  BY <1>5, <1>6, <1>7, <1>8, <1>9, <1>10, <1>11 DEF Inductive, IInv

\* The cancel check of a node callback preserves the inductive invariant.
LEMMA EmitNodeProgressPreserves ==
    ASSUME Inductive, NEW j \in Jobs, NEW n \in Nodes, NEW event \in {"start", "done", "error"}, EmitNodeProgress(j, n, event)
    PROVE  Inductive'
<1>1. worker[j].pc = "workflow" /\ lock[j] = None
  BY DEF EmitNodeProgress
<1>2. PICK pc \in {"append", "body", "over"} : CallbackIs(j, n, pc, None, None)
  BY HeldFacts, CallbackGotoIs DEF EmitNodeProgress, CallbackOver, AfterEvent,
     ThreadPc, Inductive, TypeOK
<1>3. UNCHANGED <<file, writers, worker, lock, request, dir, crashes>>
  BY DEF EmitNodeProgress
<1>4. TypeOK'
  BY <1>2, <1>3 DEF Inductive, TypeOK, CallbackIs
<1>5. WritersHoldRecords'
  BY <1>2, <1>3 DEF Inductive, IInv, WritersHoldRecords, CallbackIs
<1>6. RecordsSound'
  BY <1>3 DEF Inductive, IInv, RecordsSound, Readable
<1>7. OneCreator'
  BY <1>3 DEF Inductive, IInv, OneCreator
<1>8. TaskAims'
  BY <1>3 DEF Inductive, IInv, TaskAims
<1>9. FileFollowsTask'
  BY <1>3 DEF Inductive, IInv, FileFollowsTask, Started, Readable
<1>10. CallbacksLocked'
  BY <1>1, <1>2, <1>3 DEF Inductive, IInv, CallbacksLocked, CallbackLocked,
     Started, Readable, CallbackIs
<1> QED
  BY <1>4, <1>5, <1>6, <1>7, <1>8, <1>9, <1>10 DEF Inductive, IInv

\* The first read of append_node_event preserves the inductive invariant.
LEMMA AppendGetPreserves ==
    ASSUME Inductive, NEW j \in Jobs, NEW n \in Nodes, AppendGet(j, n)
    PROVE  Inductive'
<1>1. thread[j][n].pc = "append" /\ lock[j] = None
  BY DEF AppendGet
<1>2. thread[j][n].event \in {"start", "done", "error"} /\ thread[j][n].first \in Held /\ thread[j][n].cur \in Held
  BY DEF Callback, Inductive, TypeOK
<1>3. \/ /\ Readable(j) /\ file[j] \in Snapshot
         /\ CallbackIs(j, n, "reread", file[j], None)
         /\ lock' = [lock EXCEPT ![j] = n]
      \/ /\ \E pc \in {"body", "over"} : CallbackIs(j, n, pc, None, None)
         /\ lock' = lock
  BY <1>2, HeldFacts, CallbackGotoIs DEF AppendGet, CallbackOver, AfterEvent,
     Readable, Contents, ThreadPc, Inductive, TypeOK
<1>4. UNCHANGED <<file, writers, worker, request, dir, crashes>>
  BY DEF AppendGet
<1>5. TypeOK'
  BY <1>3, <1>4 DEF Inductive, TypeOK, CallbackIs
<1>6. WritersHoldRecords'
  BY <1>3, <1>4, HeldFacts DEF Inductive, IInv, WritersHoldRecords, CallbackIs
<1>7. RecordsSound'
  BY <1>4 DEF Inductive, IInv, RecordsSound, Readable
<1>8. OneCreator'
  BY <1>4 DEF Inductive, IInv, OneCreator
<1>9. TaskAims'
  BY <1>4 DEF Inductive, IInv, TaskAims
<1>10. FileFollowsTask'
  BY <1>4 DEF Inductive, IInv, FileFollowsTask, Started, Readable
<1>11. CallbacksLocked'
  <2> SUFFICES ASSUME NEW i \in Jobs, NEW m \in Nodes
               PROVE  CallbackLocked(i, m)'
    BY DEF CallbacksLocked
  <2>1. CallbackLocked(i, m) /\ CallbackLocked(j, n)
    BY DEF Inductive, IInv, CallbacksLocked
  <2>2. CASE i = j /\ m = n
    BY <2>1, <2>2, <1>1, <1>3, <1>4 DEF CallbackIs, CallbackLocked, Started,
       RecordsSound, FileFollowsTask, Inductive, IInv, TypeOK
  <2>3. CASE i = j /\ m # n
    <3>1. thread'[i][m] = thread[i][m]
      BY <2>3, <1>3 DEF CallbackIs
    <3>2. thread[i][m].pc \notin {"reread", "open", "fill"}
      BY <2>1, <2>3, <1>1, ReviewJobsAssumption DEF CallbackLocked
    <3> QED
      BY <2>1, <3>1, <3>2, <1>4 DEF CallbackLocked, Started
  <2>4. CASE i # j
    <3>1. thread'[i][m] = thread[i][m] /\ lock'[i] = lock[i] /\ file'[i] = file[i]
      BY <2>4, <1>3, <1>4 DEF CallbackIs, Inductive, TypeOK
    <3> QED
      BY <2>1, <3>1, <1>4 DEF CallbackLocked, Started, Readable
  <2> QED
    BY <2>2, <2>3, <2>4
<1> QED
  BY <1>5, <1>6, <1>7, <1>8, <1>9, <1>10, <1>11 DEF Inductive, IInv

\* The second read of append_node_event preserves the inductive invariant.
LEMMA AppendRereadPreserves ==
    ASSUME Inductive, NEW j \in Jobs, NEW n \in Nodes, AppendReread(j, n)
    PROVE  Inductive'
<1>1. thread[j][n].pc = "reread"
  BY DEF AppendReread
<1>2. thread[j][n].event \in {"start", "done", "error"} /\ thread[j][n].first \in Held /\ thread[j][n].cur \in Held
  BY DEF Callback, Inductive, TypeOK
<1>3. \/ /\ Readable(j) /\ file[j] \in Snapshot
         /\ CallbackIs(j, n, "open", thread[j][n].first, file[j])
         /\ lock' = lock
      \/ /\ \E pc \in {"body", "over"} : CallbackIs(j, n, pc, None, None)
         /\ lock' = [lock EXCEPT ![j] = None]
  BY <1>2, HeldFacts, CallbackGotoIs DEF AppendReread, CallbackOver, AfterEvent,
     Readable, Contents, ThreadPc, Inductive, TypeOK
<1>4. UNCHANGED <<file, writers, worker, request, dir, crashes>>
  BY DEF AppendReread
<1>5. TypeOK'
  BY <1>3, <1>4 DEF Inductive, TypeOK, CallbackIs
<1>6. WritersHoldRecords'
  BY <1>1, <1>3, <1>4, HeldFacts DEF Inductive, IInv, WritersHoldRecords,
     CallbackIs
<1>7. RecordsSound'
  BY <1>4 DEF Inductive, IInv, RecordsSound, Readable
<1>8. OneCreator'
  BY <1>4 DEF Inductive, IInv, OneCreator
<1>9. TaskAims'
  BY <1>4 DEF Inductive, IInv, TaskAims
<1>10. FileFollowsTask'
  BY <1>4 DEF Inductive, IInv, FileFollowsTask, Started, Readable
<1>11. CallbacksLocked'
  <2> SUFFICES ASSUME NEW i \in Jobs, NEW m \in Nodes
               PROVE  CallbackLocked(i, m)'
    BY DEF CallbacksLocked
  <2>1. CallbackLocked(i, m) /\ CallbackLocked(j, n)
    BY DEF Inductive, IInv, CallbacksLocked
  <2>2. CASE i = j /\ m = n
    BY <2>1, <2>2, <1>1, <1>3, <1>4 DEF CallbackIs, CallbackLocked, Started,
       RecordsSound, Inductive, IInv
  <2>3. CASE i = j /\ m # n
    <3>1. thread'[i][m] = thread[i][m]
      BY <2>3, <1>3 DEF CallbackIs
    <3>2. thread[i][m].pc \notin {"reread", "open", "fill"}
      BY <2>1, <2>3, <1>1 DEF CallbackLocked
    <3> QED
      BY <2>1, <3>1, <3>2, <1>4 DEF CallbackLocked, Started
  <2>4. CASE i # j
    <3>1. thread'[i][m] = thread[i][m] /\ lock'[i] = lock[i] /\ file'[i] = file[i]
      BY <2>4, <1>3, <1>4 DEF CallbackIs, Inductive, TypeOK
    <3> QED
      BY <2>1, <3>1, <1>4 DEF CallbackLocked, Started, Readable
  <2> QED
    BY <2>2, <2>3, <2>4
<1> QED
  BY <1>5, <1>6, <1>7, <1>8, <1>9, <1>10, <1>11 DEF Inductive, IInv

\* The opening of the file by append_node_event preserves the inductive
\* invariant.
LEMMA AppendOpenPreserves ==
    ASSUME Inductive, NEW j \in Jobs, NEW n \in Nodes, AppendOpen(j, n)
    PROVE  Inductive'
<1>1. thread[j][n].pc = "open"
  BY DEF AppendOpen
<1>2. thread[j][n].event \in {"start", "done", "error"} /\ thread[j][n].first \in Held /\ thread[j][n].cur \in Held
  BY DEF Callback, Inductive, TypeOK
<1>3. CallbackIs(j, n, "fill", thread[j][n].first, thread[j][n].cur)
  BY <1>2, CallbackGotoIs DEF AppendOpen, ThreadPc, Inductive, TypeOK
<1>4. Opened(<<j, n>>, j)
  BY OpenFileIs DEF AppendOpen, Clients, Inductive, TypeOK
<1>5. UNCHANGED <<worker, lock, request, dir, crashes>>
  BY DEF AppendOpen
<1>6. TypeOK'
  BY <1>3, <1>4, <1>5 DEF Inductive, TypeOK, CallbackIs, Opened
<1>7. WritersHoldRecords'
  BY <1>1, <1>3, <1>5 DEF Inductive, IInv, WritersHoldRecords, CallbackIs
<1>8. RecordsSound'
  BY <1>4, <1>5 DEF Inductive, IInv, RecordsSound, Readable, Opened
<1>9. OneCreator'
  BY <1>5 DEF Inductive, IInv, OneCreator
<1>10. TaskAims'
  BY <1>5 DEF Inductive, IInv, TaskAims
<1>11. FileFollowsTask'
  BY <1>4, <1>5 DEF Inductive, IInv, FileFollowsTask, Started, Readable, Opened
<1>12. CallbacksLocked'
  BY <1>1, <1>3, <1>4, <1>5 DEF Inductive, IInv, CallbacksLocked,
     CallbackLocked, Started, Readable, CallbackIs, Opened
<1> QED
  BY <1>6, <1>7, <1>8, <1>9, <1>10, <1>11, <1>12 DEF Inductive, IInv

\* The write of append_node_event preserves the inductive invariant.
LEMMA AppendFillPreserves ==
    ASSUME Inductive, NEW j \in Jobs, NEW n \in Nodes, AppendFill(j, n)
    PROVE  Inductive'
<1>1. thread[j][n].pc = "fill" /\ lock[j] = n /\ worker[j].pc = "workflow"
  BY DEF AppendFill, Inductive, IInv, CallbacksLocked, CallbackLocked
<1>2. thread[j][n].event \in {"start", "done", "error"} /\ thread[j][n].first \in Held /\ thread[j][n].cur \in Held
  BY DEF Callback, Inductive, TypeOK
<1>3. PICK first \in Snapshot, cur \in Snapshot, event \in {"start", "done", "error"} :
       /\ first = thread[j][n].first /\ cur = thread[j][n].cur /\ event = thread[j][n].event
       /\ Sound(first) /\ Sound(cur) /\ first.status \in {"RUNNING", "CANCELED"}
       /\ first.status = "CANCELED" => cur.status = "CANCELED"
  BY <1>1, <1>2 DEF Held, Inductive, IInv, WritersHoldRecords, CallbacksLocked,
     CallbackLocked
<1>4. [node |-> n, event |-> event] \in NodeEvent
  BY DEF NodeEvent
<1>5. PICK ev \in NodeEvent : ev = [node |-> n, event |-> event]
  BY <1>4
<1>6. ThreadSnapshot(j, n) = Appended(first, cur, ev)
  BY <1>3, <1>5 DEF ThreadSnapshot
<1>7. /\ Appended(first, cur, ev) \in Snapshot /\ Sound(Appended(first, cur, ev))
      /\ Appended(first, cur, ev).status \in {"RUNNING", "CANCELED"}
  BY <1>3, SnapshotsTyped, AppendedSound, AppendedStatus
<1>8. /\ ThreadSnapshot(j, n) \in Snapshot /\ Sound(ThreadSnapshot(j, n))
      /\ ThreadSnapshot(j, n).status \in {"RUNNING", "CANCELED"}
  BY <1>6, <1>7
<1>9. Filled(<<j, n>>, j, ThreadSnapshot(j, n))
  BY <1>8, FillFileIs DEF AppendFill, Inductive, TypeOK
<1>10. PICK pc \in {"body", "over"} : CallbackIs(j, n, pc, None, None)
  BY <1>2, HeldFacts, CallbackGotoIs DEF AppendFill, CallbackOver, AfterEvent,
     ThreadPc, Inductive, TypeOK
<1>11. /\ lock' \in [Jobs -> Nodes \cup {None}] /\ lock'[j] = None
       /\ \A i \in Jobs \ {j} : lock'[i] = lock[i]
  BY DEF AppendFill, Inductive, TypeOK
<1>12. UNCHANGED <<worker, request, dir, crashes>>
  BY DEF AppendFill
<1>13. TypeOK'
  BY <1>9, <1>10, <1>11, <1>12 DEF Inductive, TypeOK, CallbackIs, Filled
<1>14. WritersHoldRecords'
  BY <1>10, <1>12 DEF Inductive, IInv, WritersHoldRecords, CallbackIs
<1>15. RecordsSound'
  BY <1>3, <1>5, <1>7, <1>8, <1>9, <1>10, <1>11, <1>12 DEF Inductive, IInv,
     RecordsSound, Readable, CallbackIs, Filled
<1>16. OneCreator'
  BY <1>12 DEF Inductive, IInv, OneCreator
<1>17. TaskAims'
  BY <1>12 DEF Inductive, IInv, TaskAims
<1>18. FileFollowsTask'
  BY <1>1, <1>8, <1>9, <1>12 DEF Inductive, IInv, FileFollowsTask, Started,
     Readable, Filled
<1>19. CallbacksLocked'
  <2> SUFFICES ASSUME NEW i \in Jobs, NEW m \in Nodes
               PROVE  CallbackLocked(i, m)'
    BY DEF CallbacksLocked
  <2>1. CallbackLocked(i, m) /\ CallbackLocked(j, n)
    BY DEF Inductive, IInv, CallbacksLocked
  <2>2. CASE i = j /\ m = n
    BY <2>2, <1>1, <1>10, <1>12 DEF CallbackIs, CallbackLocked, Started
  <2>3. CASE i = j /\ m # n
    <3>1. thread'[i][m] = thread[i][m]
      BY <2>3, <1>10 DEF CallbackIs
    <3>2. thread[i][m].pc \notin {"reread", "open", "fill"}
      BY <2>1, <2>3, <1>1 DEF CallbackLocked
    <3> QED
      BY <2>1, <3>1, <3>2, <1>12 DEF CallbackLocked, Started
  <2>4. CASE i # j
    <3>1. thread'[i][m] = thread[i][m] /\ lock'[i] = lock[i] /\ file'[i] = file[i]
      BY <2>4, <1>10, <1>9, <1>11 DEF CallbackIs, Filled
    <3> QED
      BY <2>1, <3>1, <1>12 DEF CallbackLocked, Started, Readable
  <2> QED
    BY <2>2, <2>3, <2>4
<1> QED
  BY <1>13, <1>14, <1>15, <1>16, <1>17, <1>18, <1>19 DEF Inductive, IInv

\* The status check of retry_job preserves the inductive invariant.
LEMMA RetryGetPreserves ==
    ASSUME Inductive, NEW r \in Requests, NEW j \in Jobs, RetryGet(r, j)
    PROVE  Inductive'
<1>1. RequestIs(r, "create", None, None)
  BY HeldFacts, GotoIs DEF RetryGet, RequestPc, Inductive, TypeOK
<1>2. UNCHANGED <<file, writers, worker, thread, lock, dir, crashes>>
  BY DEF RetryGet
<1>3. TypeOK'
  BY <1>1, <1>2 DEF Inductive, TypeOK, RequestIs
<1>4. WritersHoldRecords'
  BY <1>1, <1>2 DEF Inductive, IInv, WritersHoldRecords, RequestIs
<1>5. RecordsSound'
  BY <1>1, <1>2 DEF Inductive, IInv, RecordsSound, Readable, RequestIs
<1>6. OneCreator'
  BY <1>1, <1>2 DEF Inductive, IInv, OneCreator, RequestIs
<1>7. TaskAims'
  BY <1>2 DEF Inductive, IInv, TaskAims
<1>8. FileFollowsTask'
  BY <1>2 DEF Inductive, IInv, FileFollowsTask, Started, Readable
<1>9. CallbacksLocked'
  BY <1>2 DEF Inductive, IInv, CallbacksLocked, CallbackLocked, Started,
     Readable
<1> QED
  BY <1>3, <1>4, <1>5, <1>6, <1>7, <1>8, <1>9 DEF Inductive, IInv

\* The opening of the file of a new job preserves the inductive invariant.
LEMMA CreateOpenPreserves ==
    ASSUME Inductive, NEW r \in Requests, NEW j \in Jobs, CreateOpen(r, j)
    PROVE  Inductive'
<1>1. worker[j].pc = "unborn" /\ request[r].pc \in {"idle", "create"}
  BY DEF CreateOpen
<1>2. RequestIs(r, "create_fill", j, None)
  BY HeldFacts, GotoIs DEF CreateOpen, RequestPc, Inductive, TypeOK
<1>3. TaskIs(j, "created", None, worker[j].goal)
  BY HeldFacts, TaskGotoIs DEF CreateOpen, WorkerPc, Inductive, TypeOK
<1>4. Opened(r, j)
  BY OpenFileIs DEF CreateOpen, Clients, Inductive, TypeOK
<1>5. UNCHANGED <<thread, lock, dir, crashes>>
  BY DEF CreateOpen
<1>6. TypeOK'
  BY <1>2, <1>3, <1>4, <1>5 DEF Inductive, TypeOK, RequestIs, TaskIs, Opened
<1>7. WritersHoldRecords'
  BY <1>2, <1>3, <1>5 DEF Inductive, IInv, WritersHoldRecords, RequestIs, TaskIs
<1>8. RecordsSound'
  BY <1>2, <1>3, <1>4 DEF Inductive, IInv, RecordsSound, Readable, RequestIs,
     TaskIs, Opened
<1>9. OneCreator'
  BY <1>1, <1>2, <1>3 DEF Inductive, IInv, OneCreator, WritersHoldRecords,
     RequestIs, TaskIs
<1>10. TaskAims'
  BY <1>1, <1>3 DEF Inductive, IInv, TaskAims, TaskIs
<1>11. FileFollowsTask'
  BY <1>3, <1>4 DEF Inductive, IInv, FileFollowsTask, Started, Readable, TaskIs,
     Opened
<1>12. CallbacksLocked'
  BY <1>1, <1>3, <1>4, <1>5 DEF Inductive, IInv, CallbacksLocked,
     CallbackLocked, Started, Readable, TaskIs, Opened
<1> QED
  BY <1>6, <1>7, <1>8, <1>9, <1>10, <1>11, <1>12 DEF Inductive, IInv

\* The status check of cancel_job preserves the inductive invariant.
LEMMA CancelGetPreserves ==
    ASSUME Inductive, NEW r \in Requests, NEW j \in Jobs, CancelGet(r, j)
    PROVE  Inductive'
<1>1. RequestIs(r, "cancel_read", j, None)
  BY HeldFacts, GotoIs DEF CancelGet, RequestPc, Inductive, TypeOK
<1>2. UNCHANGED <<file, writers, worker, thread, lock, dir, crashes>>
  BY DEF CancelGet
<1>3. TypeOK'
  BY <1>1, <1>2 DEF Inductive, TypeOK, RequestIs
<1>4. WritersHoldRecords'
  BY <1>1, <1>2 DEF Inductive, IInv, WritersHoldRecords, RequestIs
<1>5. RecordsSound'
  BY <1>1, <1>2 DEF Inductive, IInv, RecordsSound, Readable, RequestIs
<1>6. OneCreator'
  BY <1>1, <1>2 DEF Inductive, IInv, OneCreator, RequestIs
<1>7. TaskAims'
  BY <1>2 DEF Inductive, IInv, TaskAims
<1>8. FileFollowsTask'
  BY <1>2 DEF Inductive, IInv, FileFollowsTask, Started, Readable
<1>9. CallbacksLocked'
  BY <1>2 DEF Inductive, IInv, CallbacksLocked, CallbackLocked, Started,
     Readable
<1> QED
  BY <1>3, <1>4, <1>5, <1>6, <1>7, <1>8, <1>9 DEF Inductive, IInv

\* The status check of delete_job preserves the inductive invariant.
LEMMA DeleteGetPreserves ==
    ASSUME Inductive, NEW r \in Requests, NEW j \in Jobs, DeleteGet(r, j)
    PROVE  Inductive'
<1>1. file[j] \in Held
  BY HeldFacts DEF DeleteGet, HasStatus, Readable, Contents, Inductive, TypeOK
<1>2. RequestIs(r, "rmtree", j, file[j])
  BY <1>1, GotoIs DEF DeleteGet, RequestPc, Inductive, TypeOK
<1>3. UNCHANGED <<file, writers, worker, thread, lock, dir, crashes>>
  BY DEF DeleteGet
<1>4. TypeOK'
  BY <1>2, <1>3 DEF Inductive, TypeOK, RequestIs
<1>5. WritersHoldRecords'
  BY <1>2, <1>3 DEF Inductive, IInv, WritersHoldRecords, RequestIs
<1>6. RecordsSound'
  BY <1>2, <1>3 DEF Inductive, IInv, RecordsSound, Readable, RequestIs
<1>7. OneCreator'
  BY <1>2, <1>3 DEF Inductive, IInv, OneCreator, RequestIs
<1>8. TaskAims'
  BY <1>3 DEF Inductive, IInv, TaskAims
<1>9. FileFollowsTask'
  BY <1>3 DEF Inductive, IInv, FileFollowsTask, Started, Readable
<1>10. CallbacksLocked'
  BY <1>3 DEF Inductive, IInv, CallbacksLocked, CallbackLocked, Started,
     Readable
<1> QED
  BY <1>4, <1>5, <1>6, <1>7, <1>8, <1>9, <1>10 DEF Inductive, IInv

\* The write of the record of a new job preserves the inductive invariant.
LEMMA CreateFillPreserves ==
    ASSUME Inductive, NEW r \in Requests, CreateFill(r)
    PROVE  Inductive'
<1>1. request[r].job \in Jobs
  BY DEF CreateFill, Inductive, IInv, WritersHoldRecords
<1>2. request[r].pc = "create_fill" /\ worker[request[r].job].pc = "created"
  BY DEF CreateFill, Inductive, IInv, OneCreator
<1>3. RequestIs(r, "respond", request[r].job, None)
  BY <1>1, HeldFacts, GotoIs DEF CreateFill, RequestPc, Inductive, TypeOK
<1>4. Filled(r, request[r].job, NewSnapshot)
  BY <1>1, NewSnapshotTyped, FillFileIs DEF CreateFill, Inductive, TypeOK
<1>5. UNCHANGED <<worker, thread, lock, dir, crashes>>
  BY DEF CreateFill
<1>6. TypeOK'
  BY <1>3, <1>4, <1>5 DEF Inductive, TypeOK, RequestIs, Filled
<1>7. WritersHoldRecords'
  BY <1>1, <1>3, <1>5 DEF Inductive, IInv, WritersHoldRecords, RequestIs
<1>8. RecordsSound'
  BY <1>3, <1>4, <1>5, NewSnapshotSound DEF Inductive, IInv, RecordsSound,
     Readable, RequestIs, Filled
<1>9. OneCreator'
  BY <1>2, <1>3, <1>5 DEF Inductive, IInv, OneCreator, RequestIs
<1>10. TaskAims'
  BY <1>5 DEF Inductive, IInv, TaskAims
<1>11. FileFollowsTask'
  BY <1>2, <1>4, <1>5 DEF Inductive, IInv, FileFollowsTask, Started, Readable,
     Filled, TaskAims
<1>12. CallbacksLocked'
  BY <1>2, <1>4, <1>5 DEF Inductive, IInv, CallbacksLocked, CallbackLocked,
     Started, Readable, Filled
<1> QED
  BY <1>6, <1>7, <1>8, <1>9, <1>10, <1>11, <1>12 DEF Inductive, IInv

\* The start of the background task preserves the inductive invariant.
LEMMA RespondPreserves ==
    ASSUME Inductive, NEW r \in Requests, Respond(r)
    PROVE  Inductive'
<1>1. request[r].job \in Jobs
  BY DEF Respond, Inductive, IInv, WritersHoldRecords
<1>2. request[r].pc = "respond" /\ worker[request[r].job].pc = "created"
  BY DEF Respond, Inductive, IInv, OneCreator
<1>3. RequestIs(r, "idle", None, None)
  BY AnswerIs DEF Respond, Inductive, TypeOK
<1>4. TaskIs(request[r].job, "check", None, worker[request[r].job].goal)
  BY <1>1, HeldFacts, TaskGotoIs DEF Respond, WorkerPc, Inductive, TypeOK
<1>5. UNCHANGED <<file, writers, thread, lock, dir, crashes>>
  BY DEF Respond
<1>6. TypeOK'
  BY <1>3, <1>4, <1>5 DEF Inductive, TypeOK, RequestIs, TaskIs
<1>7. WritersHoldRecords'
  BY <1>3, <1>4, <1>5 DEF Inductive, IInv, WritersHoldRecords, RequestIs, TaskIs
<1>8. RecordsSound'
  BY <1>3, <1>4, <1>5 DEF Inductive, IInv, RecordsSound, Readable, RequestIs,
     TaskIs
<1>9. OneCreator'
  BY <1>2, <1>3, <1>4 DEF Inductive, IInv, OneCreator, WritersHoldRecords,
     RequestIs, TaskIs
<1>10. TaskAims'
  BY <1>2, <1>4 DEF Inductive, IInv, TaskAims, TaskIs
<1>11. FileFollowsTask'
  BY <1>4, <1>5 DEF Inductive, IInv, FileFollowsTask, Started, Readable, TaskIs
<1>12. CallbacksLocked'
  BY <1>2, <1>4, <1>5 DEF Inductive, IInv, CallbacksLocked, CallbackLocked,
     Started, Readable, TaskIs
<1> QED
  BY <1>6, <1>7, <1>8, <1>9, <1>10, <1>11, <1>12 DEF Inductive, IInv

\* The second read of cancel_job preserves the inductive invariant.
LEMMA CancelReadPreserves ==
    ASSUME Inductive, NEW r \in Requests, CancelRead(r)
    PROVE  Inductive'
<1>1. request[r].job \in Jobs
  BY DEF CancelRead, Inductive, IInv, WritersHoldRecords
<1>2. \/ /\ Readable(request[r].job) /\ file[request[r].job] \in Snapshot
         /\ RequestIs(r, "cancel_open", request[r].job, file[request[r].job])
      \/ RequestIs(r, "idle", None, None)
  BY <1>1, HeldFacts, GotoIs, AnswerIs DEF CancelRead, Readable, Contents,
     RequestPc, Inductive, TypeOK
<1>3. UNCHANGED <<file, writers, worker, thread, lock, dir, crashes>>
  BY DEF CancelRead
<1>4. TypeOK'
  BY <1>2, <1>3 DEF Inductive, TypeOK, RequestIs
<1>5. WritersHoldRecords'
  BY <1>1, <1>2, <1>3, HeldFacts DEF Inductive, IInv, WritersHoldRecords,
     RequestIs
<1>6. RecordsSound'
  BY <1>1, <1>2, <1>3 DEF Inductive, IInv, RecordsSound, Readable, RequestIs
<1>7. OneCreator'
  BY <1>2, <1>3 DEF Inductive, IInv, OneCreator, RequestIs
<1>8. TaskAims'
  BY <1>3 DEF Inductive, IInv, TaskAims
<1>9. FileFollowsTask'
  BY <1>3 DEF Inductive, IInv, FileFollowsTask, Started, Readable
<1>10. CallbacksLocked'
  BY <1>3 DEF Inductive, IInv, CallbacksLocked, CallbackLocked, Started,
     Readable
<1> QED
  BY <1>4, <1>5, <1>6, <1>7, <1>8, <1>9, <1>10 DEF Inductive, IInv

\* The opening of the file by cancel_job preserves the inductive invariant.
LEMMA CancelOpenPreserves ==
    ASSUME Inductive, NEW r \in Requests, CancelOpen(r)
    PROVE  Inductive'
<1>1. request[r].job \in Jobs
  BY DEF CancelOpen, Inductive, IInv, WritersHoldRecords
<1>2. request[r].pc = "cancel_open"
  BY DEF CancelOpen
<1>3. RequestIs(r, "cancel_fill", request[r].job, request[r].cur)
  BY GotoIs DEF CancelOpen, RequestPc, HttpRequest, Inductive, TypeOK
<1>4. Opened(r, request[r].job)
  BY <1>1, OpenFileIs DEF CancelOpen, Clients, Inductive, TypeOK
<1>5. UNCHANGED <<worker, thread, lock, dir, crashes>>
  BY DEF CancelOpen
<1>6. TypeOK'
  BY <1>3, <1>4, <1>5 DEF Inductive, TypeOK, RequestIs, Opened
<1>7. WritersHoldRecords'
  BY <1>2, <1>3, <1>5 DEF Inductive, IInv, WritersHoldRecords, RequestIs
<1>8. RecordsSound'
  BY <1>2, <1>3, <1>4, <1>5 DEF Inductive, IInv, RecordsSound, Readable,
     RequestIs, Opened
<1>9. OneCreator'
  BY <1>3, <1>5 DEF Inductive, IInv, OneCreator, RequestIs
<1>10. TaskAims'
  BY <1>5 DEF Inductive, IInv, TaskAims
<1>11. FileFollowsTask'
  BY <1>4, <1>5 DEF Inductive, IInv, FileFollowsTask, Started, Readable, Opened
<1>12. CallbacksLocked'
  BY <1>4, <1>5 DEF Inductive, IInv, CallbacksLocked, CallbackLocked, Started,
     Readable, Opened
<1> QED
  BY <1>6, <1>7, <1>8, <1>9, <1>10, <1>11, <1>12 DEF Inductive, IInv

\* The write of CANCELED preserves the inductive invariant.
LEMMA CancelFillPreserves ==
    ASSUME Inductive, NEW r \in Requests, CancelFill(r)
    PROVE  Inductive'
<1>1. request[r].job \in Jobs
  BY DEF CancelFill, Inductive, IInv, WritersHoldRecords
<1>2. request[r].cur \in Snapshot /\ Sound(request[r].cur)
  BY DEF CancelFill, HttpRequest, Held, IInv, WritersHoldRecords, RecordsSound,
     Inductive, TypeOK
<1>3. /\ Canceled(request[r].cur) \in Snapshot /\ Sound(Canceled(request[r].cur))
      /\ Canceled(request[r].cur).status = "CANCELED"
  BY <1>2, SnapshotsTyped, UpdatesSound, UpdatesStatus
<1>4. RequestIs(r, "idle", None, None)
  BY AnswerIs DEF CancelFill, Inductive, TypeOK
<1>5. Filled(r, request[r].job, Canceled(request[r].cur))
  BY <1>1, <1>3, FillFileIs DEF CancelFill, Inductive, TypeOK
<1>6. UNCHANGED <<worker, thread, lock, dir, crashes>>
  BY DEF CancelFill
<1>7. TypeOK'
  BY <1>4, <1>5, <1>6 DEF Inductive, TypeOK, RequestIs, Filled
<1>8. WritersHoldRecords'
  BY <1>4, <1>6 DEF Inductive, IInv, WritersHoldRecords, RequestIs
<1>9. RecordsSound'
  BY <1>3, <1>4, <1>5, <1>6 DEF Inductive, IInv, RecordsSound, Readable,
     RequestIs, Filled
<1>10. OneCreator'
  BY <1>4, <1>6 DEF Inductive, IInv, OneCreator, RequestIs
<1>11. TaskAims'
  BY <1>6 DEF Inductive, IInv, TaskAims
<1>12. FileFollowsTask'
  BY <1>3, <1>5, <1>6 DEF Inductive, IInv, FileFollowsTask, Started, Readable,
     Filled, Terminal
<1>13. CallbacksLocked'
  BY <1>3, <1>5, <1>6 DEF Inductive, IInv, CallbacksLocked, CallbackLocked,
     Started, Readable, Filled
<1> QED
  BY <1>7, <1>8, <1>9, <1>10, <1>11, <1>12, <1>13 DEF Inductive, IInv

\* The removal of the artifact directory preserves the inductive invariant.
LEMMA DeleteTreePreserves ==
    ASSUME Inductive, NEW r \in Requests, DeleteTree(r)
    PROVE  Inductive'
<1>1. request[r].job \in Jobs
  BY DEF DeleteTree, Inductive, IInv, WritersHoldRecords
<1>2. RequestIs(r, "unlink", request[r].job, None)
  BY <1>1, HeldFacts, GotoIs DEF DeleteTree, RequestPc, Inductive, TypeOK
<1>3. dir' \in [Jobs -> {"none", "present", "removed"}]
  BY DEF DeleteTree, Inductive, TypeOK
<1>4. UNCHANGED <<file, writers, worker, thread, lock, crashes>>
  BY DEF DeleteTree
<1>5. TypeOK'
  BY <1>2, <1>3, <1>4 DEF Inductive, TypeOK, RequestIs
<1>6. WritersHoldRecords'
  BY <1>1, <1>2, <1>4 DEF Inductive, IInv, WritersHoldRecords, RequestIs
<1>7. RecordsSound'
  BY <1>2, <1>4 DEF Inductive, IInv, RecordsSound, Readable, RequestIs
<1>8. OneCreator'
  BY <1>2, <1>4 DEF Inductive, IInv, OneCreator, RequestIs
<1>9. TaskAims'
  BY <1>4 DEF Inductive, IInv, TaskAims
<1>10. FileFollowsTask'
  BY <1>4 DEF Inductive, IInv, FileFollowsTask, Started, Readable
<1>11. CallbacksLocked'
  BY <1>4 DEF Inductive, IInv, CallbacksLocked, CallbackLocked, Started,
     Readable
<1> QED
  BY <1>5, <1>6, <1>7, <1>8, <1>9, <1>10, <1>11 DEF Inductive, IInv

\* The removal of the job file preserves the inductive invariant.
LEMMA DeleteUnlinkPreserves ==
    ASSUME Inductive, NEW r \in Requests, DeleteUnlink(r)
    PROVE  Inductive'
<1>1. request[r].job \in Jobs
  BY DEF DeleteUnlink, Inductive, IInv, WritersHoldRecords
<1>2. RequestIs(r, "idle", None, None)
  BY AnswerIs DEF DeleteUnlink, Inductive, TypeOK
<1>3. /\ file' \in [Jobs -> Contents] /\ writers' \in [Jobs -> SUBSET Clients]
      /\ file'[request[r].job] = None
      /\ \A i \in Jobs \ {request[r].job} : file'[i] = file[i] /\ writers'[i] = writers[i]
  BY <1>1 DEF DeleteUnlink, Contents, Inductive, TypeOK
<1>4. UNCHANGED <<worker, thread, lock, dir, crashes>>
  BY DEF DeleteUnlink
<1>5. TypeOK'
  BY <1>2, <1>3, <1>4 DEF Inductive, TypeOK, RequestIs
<1>6. WritersHoldRecords'
  BY <1>2, <1>4 DEF Inductive, IInv, WritersHoldRecords, RequestIs
<1>7. RecordsSound'
  BY <1>2, <1>3, <1>4 DEF Inductive, IInv, RecordsSound, Readable, RequestIs
<1>8. OneCreator'
  BY <1>2, <1>4 DEF Inductive, IInv, OneCreator, RequestIs
<1>9. TaskAims'
  BY <1>4 DEF Inductive, IInv, TaskAims
<1>10. FileFollowsTask'
  BY <1>3, <1>4 DEF Inductive, IInv, FileFollowsTask, Started, Readable
<1>11. CallbacksLocked'
  BY <1>3, <1>4 DEF Inductive, IInv, CallbacksLocked, CallbackLocked, Started,
     Readable
<1> QED
  BY <1>5, <1>6, <1>7, <1>8, <1>9, <1>10, <1>11 DEF Inductive, IInv

\* A crash of the server preserves the inductive invariant.
LEMMA CrashPreserves ==
    ASSUME Inductive, Crash
    PROVE  Inductive'
<1>1. \A j \in Jobs : worker'[j] \in Task
  BY HeldFacts, ZenonT(60) DEF Crash, Task, WorkerPc, Inductive, TypeOK
<1>2. worker' \in [Jobs -> Task]
  BY <1>1 DEF Crash
<1>3. \A j \in Jobs : /\ worker'[j].pc \in {"unborn", "returned", "raised", "killed"}
                     /\ worker'[j].pc \in {worker[j].pc, "killed"}
                     /\ worker'[j].goal = worker[j].goal
  <2> SUFFICES ASSUME NEW j \in Jobs
               PROVE  /\ worker'[j].pc \in {"unborn", "returned", "raised", "killed"}
                      /\ worker'[j].pc \in {worker[j].pc, "killed"}
                      /\ worker'[j].goal = worker[j].goal
    OBVIOUS
  <2>1. worker[j] \in Task
    BY DEF Inductive, TypeOK
  <2>2. worker'[j] = IF worker[j].pc \in {"unborn", "returned", "raised"} THEN worker[j]
                    ELSE [worker[j] EXCEPT !.pc = "killed", !.cur = None]
    BY DEF Crash
  <2> QED
    BY <2>1, <2>2 DEF Task
<1>4. IdleThread \in Callback /\ IdleRequest \in HttpRequest
  BY HeldFacts DEF IdleThread, IdleRequest, Callback, HttpRequest, ThreadPc,
     RequestPc
<1>5. thread' \in [Jobs -> [Nodes -> Callback]] /\ request' \in [Requests -> HttpRequest]
  BY <1>4 DEF Crash
<1>6. \A j \in Jobs, n \in Nodes : thread'[j][n] = IdleThread
  BY DEF Crash
<1>7. \A j \in Jobs, n \in Nodes : thread'[j][n].pc = "waiting"
  BY <1>6 DEF IdleThread
<1>8. \A r \in Requests : request'[r].pc = "idle"
  BY DEF Crash, IdleRequest
<1>9. writers' \in [Jobs -> SUBSET Clients] /\ lock' \in [Jobs -> Nodes \cup {None}]
  BY DEF Crash
<1>10. crashes \in Nat /\ crashes' = crashes + 1
  BY DEF Crash, Inductive, TypeOK
<1>11. crashes' \in Nat
  BY <1>10
<1>12. UNCHANGED <<file, dir>>
  BY DEF Crash
<1>13. TypeOK'
  BY <1>2, <1>5, <1>9, <1>10, <1>12 DEF Inductive, TypeOK
<1>14. WritersHoldRecords'
  BY <1>3, <1>7, <1>8 DEF WritersHoldRecords
<1>15. RecordsSound'
  BY <1>3, <1>8, <1>12 DEF Inductive, IInv, RecordsSound, Readable
<1>16. OneCreator'
  BY <1>8 DEF OneCreator
<1>17. TaskAims'
  BY <1>3 DEF Inductive, IInv, TaskAims
<1>18. FileFollowsTask'
  BY <1>3, <1>12 DEF Inductive, IInv, FileFollowsTask, Started, Readable
<1>19. CallbacksLocked'
  BY <1>6, <1>7 DEF CallbacksLocked, CallbackLocked
<1> QED
  BY <1>13, <1>14, <1>15, <1>16, <1>17, <1>18, <1>19 DEF Inductive, IInv

\* The inductive invariant holds before any request.
LEMMA InductiveInit == Init => Inductive
<1> SUFFICES ASSUME Init
             PROVE  Inductive
  OBVIOUS
<1>1. TypeOK
  BY TypeInit
<1>2. /\ \A j \in Jobs : /\ file[j] = None /\ worker[j] = UnbornWorker
                         /\ \A n \in Nodes : thread[j][n] = IdleThread
      /\ \A r \in Requests : request[r] = IdleRequest
  BY DEF Init
<1>3. WritersHoldRecords /\ RecordsSound /\ OneCreator /\ TaskAims
  BY <1>2 DEF WritersHoldRecords, RecordsSound, Readable, OneCreator, TaskAims,
     UnbornWorker, IdleThread, IdleRequest
<1>4. FileFollowsTask /\ CallbacksLocked
  BY <1>2 DEF FileFollowsTask, Readable, CallbacksLocked, CallbackLocked,
     IdleThread
<1> QED
  BY <1>1, <1>3, <1>4 DEF Inductive, IInv

\* No step of task, callback, request or crash breaks the inductive invariant.
LEMMA InductiveStep == Inductive /\ [Next]_vars => Inductive'
<1> SUFFICES ASSUME Inductive, [Next]_vars
             PROVE  Inductive'
  OBVIOUS
<1>1. ASSUME NEW j \in Jobs, WorkerCheck(j)
      PROVE  Inductive'
  BY <1>1, WorkerCheckPreserves
<1>2. ASSUME NEW j \in Jobs, WorkerRead(j)
      PROVE  Inductive'
  BY <1>2, WorkerReadPreserves
<1>3. ASSUME NEW j \in Jobs, WorkerOpen(j)
      PROVE  Inductive'
  BY <1>3, WorkerOpenPreserves
<1>4. ASSUME NEW j \in Jobs, WorkerFill(j)
      PROVE  Inductive'
  BY <1>4, WorkerFillPreserves
<1>5. ASSUME NEW j \in Jobs, WorkflowSucceeds(j)
      PROVE  Inductive'
  BY <1>5, WorkflowSucceedsPreserves
<1>6. ASSUME NEW j \in Jobs, WorkflowRaises(j)
      PROVE  Inductive'
  BY <1>6, WorkflowRaisesPreserves
<1>7. ASSUME NEW j \in Jobs, NEW n \in Nodes, NEW event \in {"start", "done", "error"}, EmitNodeProgress(j, n, event)
      PROVE  Inductive'
  BY <1>7, EmitNodeProgressPreserves
<1>8. ASSUME NEW j \in Jobs, NEW n \in Nodes, AppendGet(j, n)
      PROVE  Inductive'
  BY <1>8, AppendGetPreserves
<1>9. ASSUME NEW j \in Jobs, NEW n \in Nodes, AppendReread(j, n)
      PROVE  Inductive'
  BY <1>9, AppendRereadPreserves
<1>10. ASSUME NEW j \in Jobs, NEW n \in Nodes, AppendOpen(j, n)
      PROVE  Inductive'
  BY <1>10, AppendOpenPreserves
<1>11. ASSUME NEW j \in Jobs, NEW n \in Nodes, AppendFill(j, n)
      PROVE  Inductive'
  BY <1>11, AppendFillPreserves
<1>12. ASSUME NEW r \in Requests, NEW j \in Jobs, RetryGet(r, j)
      PROVE  Inductive'
  BY <1>12, RetryGetPreserves
<1>13. ASSUME NEW r \in Requests, NEW j \in Jobs, CreateOpen(r, j)
      PROVE  Inductive'
  BY <1>13, CreateOpenPreserves
<1>14. ASSUME NEW r \in Requests, NEW j \in Jobs, CancelGet(r, j)
      PROVE  Inductive'
  BY <1>14, CancelGetPreserves
<1>15. ASSUME NEW r \in Requests, NEW j \in Jobs, DeleteGet(r, j)
      PROVE  Inductive'
  BY <1>15, DeleteGetPreserves
<1>16. ASSUME NEW r \in Requests, CreateFill(r)
      PROVE  Inductive'
  BY <1>16, CreateFillPreserves
<1>17. ASSUME NEW r \in Requests, Respond(r)
      PROVE  Inductive'
  BY <1>17, RespondPreserves
<1>18. ASSUME NEW r \in Requests, CancelRead(r)
      PROVE  Inductive'
  BY <1>18, CancelReadPreserves
<1>19. ASSUME NEW r \in Requests, CancelOpen(r)
      PROVE  Inductive'
  BY <1>19, CancelOpenPreserves
<1>20. ASSUME NEW r \in Requests, CancelFill(r)
      PROVE  Inductive'
  BY <1>20, CancelFillPreserves
<1>21. ASSUME NEW r \in Requests, DeleteTree(r)
      PROVE  Inductive'
  BY <1>21, DeleteTreePreserves
<1>22. ASSUME NEW r \in Requests, DeleteUnlink(r)
      PROVE  Inductive'
  BY <1>22, DeleteUnlinkPreserves
<1>23. ASSUME Crash
      PROVE  Inductive'
  BY <1>23, CrashPreserves
<1>24. CASE UNCHANGED vars
  BY <1>24 DEF vars, Inductive, TypeOK, IInv, WritersHoldRecords, RecordsSound,
     OneCreator, TaskAims, FileFollowsTask, CallbacksLocked, CallbackLocked,
     Readable, Started
<1> QED
  BY <1>1, <1>2, <1>3, <1>4, <1>5, <1>6, <1>7, <1>8, <1>9, <1>10, <1>11, <1>12,
     <1>13, <1>14, <1>15, <1>16, <1>17, <1>18, <1>19, <1>20, <1>21, <1>22,
     <1>23, <1>24 DEF Next, WorkerStep, ThreadStep, RequestStep

-----------------------------------------------------------------------------
(* Theorems.                                                               *)

\* In every reachable state the types and the inductive invariant hold, for any
\* number of jobs, nodes, requests and crashes: however the task (run_job), its
\* callbacks (append_node_event) and the requests (cancel_job, delete_job,
\* retry_job) interleave on the file of a job.
THEOREM InductiveInvariant == Spec => []Inductive
  BY InductiveInit, InductiveStep, PTL DEF Spec

\* What may be in a file or in a writer's hands, given how far the task, its
\* callbacks and the requests of the job are, is so in every interleaving
\* (update, append_node_event).
THEOREM RecordsStaySound == Spec => []IInv
<1>1. Inductive => IInv
  BY DEF Inductive
<1> QED
  BY <1>1, InductiveInvariant, PTL

\* Every variable keeps its type; in particular a file holds a record of the
\* job, or one of the two contents that cannot be decoded.
THEOREM TypeCorrect == Spec => []TypeOK
<1>1. Inductive => TypeOK
  BY DEF Inductive
<1> QED
  BY <1>1, InductiveInvariant, PTL

\* The error of a stored record is the one that belongs to its status, whatever
\* mixture of reads it was computed from (update, append_node_event).
THEOREM ErrorAlwaysMatchesStatus == Spec => []ErrorMatchesStatus
<1>1. Inductive => ErrorMatchesStatus
  BY DEF Inductive, IInv, RecordsSound, Sound, ErrorMatchesStatus
<1> QED
  BY <1>1, InductiveInvariant, PTL

\* "nodes" is always what replaying "node_events" gives (append_node_event).
THEOREM NodesAlwaysAgreeWithEvents == Spec => []NodesAgreeWithEvents
<1>1. Inductive => NodesAgreeWithEvents
  BY DEF Inductive, IInv, RecordsSound, Sound, NodesAgreeWithEvents
<1> QED
  BY <1>1, InductiveInvariant, PTL

\* A job shown as QUEUED has not started, in any interleaving (run_job).
THEOREM QueuedAlwaysMeansNotStarted == Spec => []QueuedMeansNotStarted
<1>1. Inductive => QueuedMeansNotStarted
  BY DEF Inductive, IInv, FileFollowsTask, CallbacksLocked, CallbackLocked,
     Started, HasStatus, QueuedMeansNotStarted
<1> QED
  BY <1>1, InductiveInvariant, PTL

\* A job whose task has returned is never shown as active (run_job).
THEOREM ReturnedJobIsNeverActive == Spec => []ReturnedJobIsNotActive
<1>1. Inductive => ReturnedJobIsNotActive
  BY DEF Inductive, IInv, FileFollowsTask, HasStatus, Active, Terminal,
     ReturnedJobIsNotActive
<1> QED
  BY <1>1, InductiveInvariant, PTL
==============================================================================
