--------------------- MODULE ReviewJobsRefinementProofs ----------------------
(***************************************************************************)
(* More proofs about ReviewJobs, on top of its inductive invariant: what   *)
(* records tell of the past (EventsInOrder, SuccessHasArtifacts), and that *)
(* without cancels and crashes the jobs implement JobLifecycle.            *)
(***************************************************************************)
EXTENDS ReviewJobsRefinement, ReviewJobsProofs

-----------------------------------------------------------------------------
(* The steps of ReviewJobs, point by point.                                *)

CallbackBecomes(j, n, pc, event, first, cur) ==
    /\ thread' \in [Jobs -> [Nodes -> Callback]]
    /\ thread'[j][n].pc = pc /\ thread'[j][n].event = event
    /\ thread'[j][n].first = first /\ thread'[j][n].cur = cur
    /\ \A i \in Jobs, m \in Nodes : <<i, m>> # <<j, n>> => thread'[i][m] = thread[i][m]

LockIs(j, holder) ==
    /\ lock' \in [Jobs -> Nodes \cup {None}] /\ lock'[j] = holder
    /\ \A i \in Jobs \ {j} : lock'[i] = lock[i]

DirIs(j, left) ==
    /\ dir' \in [Jobs -> {"none", "present", "removed"}] /\ dir'[j] = left
    /\ \A i \in Jobs \ {j} : dir'[i] = dir[i]

\* A record can be torn only by another writer's.
Written(c, j, snapshot) ==
    /\ Filled(c, j, snapshot)
    /\ c \in writers[j] /\ file[j] = Empty => file'[j] = snapshot

Checks(j) ==
    /\ worker[j].pc \in {"check", "recheck"}
    /\ \/ ~Readable(j) /\ TaskIs(j, "raised", None, worker[j].goal)
       \/ HasStatus(j, {"CANCELED"}) /\ TaskIs(j, "returned", None, worker[j].goal)
       \/ Readable(j) /\ TaskIs(j, "read", None, worker[j].goal)
    /\ UNCHANGED <<file, writers, thread, lock, request, dir, crashes>>

Reads(j) ==
    /\ worker[j].pc = "read"
    /\ \/ Readable(j) /\ TaskIs(j, "open", file[j], worker[j].goal)
       \/ ~Readable(j) /\ TaskIs(j, "raised", None, worker[j].goal)
    /\ UNCHANGED <<file, writers, thread, lock, request, dir, crashes>>

Opens(j) ==
    /\ worker[j].pc = "open"
    /\ Opened(j, j) /\ TaskIs(j, "fill", worker[j].cur, worker[j].goal)
    /\ UNCHANGED <<thread, lock, request, dir, crashes>>

\* What the task writes depends on what it aims at.
TaskWrites(goal, cur, s) ==
    /\ s \in Snapshot /\ s.status = goal /\ s.node_events = cur.node_events
    /\ goal = "RUNNING" => s.run = cur.run
    /\ goal = "SUCCEEDED" => s.run = "complete"

Fills(j) ==
    /\ worker[j].pc = "fill"
    /\ \E s : TaskWrites(worker[j].goal, worker[j].cur, s) /\ Written(j, j, s)
    /\ TaskIs(j, IF worker[j].goal = "RUNNING" THEN "workflow" ELSE "returned", None, worker[j].goal)
    /\ UNCHANGED <<thread, lock, request, dir, crashes>>

Succeeds(j) ==
    /\ worker[j].pc = "workflow"
    /\ \A n \in Nodes : thread[j][n].pc = "over" /\ thread[j][n].event = "done"
    /\ TaskIs(j, "recheck", worker[j].cur, "SUCCEEDED") /\ DirIs(j, "present")
    /\ UNCHANGED <<file, writers, thread, lock, request, crashes>>

RaisesError(j) ==
    /\ worker[j].pc = "workflow"
    /\ \A n \in Nodes : thread[j][n].pc \in {"waiting", "over"}
    /\ TaskIs(j, "read", worker[j].cur, "FAILED")
    /\ \E left \in {"none", "present"} : DirIs(j, left)
    /\ UNCHANGED <<file, writers, thread, lock, request, crashes>>

Emits(j, n, event) ==
    /\ worker[j].pc = "workflow" /\ lock[j] = None
    /\ thread[j][n].pc = IF event = "start" THEN "waiting" ELSE "body"
    /\ \/ Readable(j) /\ CallbackBecomes(j, n, "append", event, None, None)
       \/ /\ ~HasStatus(j, Status \ {"CANCELED"})
          /\ CallbackBecomes(j, n, AfterEvent(event), event, None, None)
    /\ UNCHANGED <<file, writers, worker, lock, request, dir, crashes>>

Gets(j, n) ==
    /\ thread[j][n].pc = "append" /\ lock[j] = None
    /\ \/ /\ Readable(j) /\ LockIs(j, n)
          /\ CallbackBecomes(j, n, "reread", thread[j][n].event, file[j], None)
       \/ /\ ~Readable(j) /\ lock' = lock
          /\ CallbackBecomes(j, n, AfterEvent(thread[j][n].event), thread[j][n].event, None, None)
    /\ UNCHANGED <<file, writers, worker, request, dir, crashes>>

Rereads(j, n) ==
    /\ thread[j][n].pc = "reread"
    /\ \/ /\ Readable(j) /\ lock' = lock
          /\ CallbackBecomes(j, n, "open", thread[j][n].event, thread[j][n].first, file[j])
       \/ /\ ~Readable(j) /\ LockIs(j, None)
          /\ CallbackBecomes(j, n, AfterEvent(thread[j][n].event), thread[j][n].event, None, None)
    /\ UNCHANGED <<file, writers, worker, request, dir, crashes>>

AppendOpens(j, n) ==
    /\ thread[j][n].pc = "open"
    /\ Opened(<<j, n>>, j)
    /\ CallbackBecomes(j, n, "fill", thread[j][n].event, thread[j][n].first, thread[j][n].cur)
    /\ UNCHANGED <<worker, lock, request, dir, crashes>>

\* The record a callback writes.
CallbackWrites(n, t, s) ==
    /\ s \in Snapshot /\ s.status = t.first.status /\ s.run = t.cur.run
    /\ s.node_events = Append(t.first.node_events, [node |-> n, event |-> t.event])

AppendFills(j, n) ==
    /\ thread[j][n].pc = "fill"
    /\ \E s : CallbackWrites(n, thread[j][n], s) /\ Written(<<j, n>>, j, s)
    /\ LockIs(j, None)
    /\ CallbackBecomes(j, n, AfterEvent(thread[j][n].event), thread[j][n].event, None, None)
    /\ UNCHANGED <<worker, request, dir, crashes>>

Retries(r) ==
    /\ request[r].pc = "idle" /\ RequestIs(r, "create", None, None)
    /\ UNCHANGED <<file, writers, worker, thread, lock, dir, crashes>>

Creates(r, j) ==
    /\ request[r].pc \in {"idle", "create"} /\ worker[j].pc = "unborn"
    /\ Opened(r, j) /\ TaskIs(j, "created", None, worker[j].goal)
    /\ RequestIs(r, "create_fill", j, None)
    /\ UNCHANGED <<thread, lock, dir, crashes>>

CreateFills(r, j) ==
    /\ request[r].pc = "create_fill" /\ request[r].job = j /\ worker[j].pc = "created"
    /\ Written(r, j, NewSnapshot) /\ RequestIs(r, "respond", j, None)
    /\ UNCHANGED <<worker, thread, lock, dir, crashes>>

Responds(r, j) ==
    /\ request[r].pc = "respond" /\ request[r].job = j /\ worker[j].pc = "created"
    /\ TaskIs(j, "check", None, worker[j].goal) /\ RequestIs(r, "idle", None, None)
    /\ UNCHANGED <<file, writers, thread, lock, dir, crashes>>

CancelGets(r, j) ==
    /\ "cancel" \in Ops
    /\ request[r].pc = "idle" /\ RequestIs(r, "cancel_read", j, None)
    /\ UNCHANGED <<file, writers, worker, thread, lock, dir, crashes>>

CancelReads(r, j) ==
    /\ request[r].pc = "cancel_read" /\ request[r].job = j
    /\ \/ Readable(j) /\ RequestIs(r, "cancel_open", j, file[j])
       \/ RequestIs(r, "idle", None, None)
    /\ UNCHANGED <<file, writers, worker, thread, lock, dir, crashes>>

CancelOpens(r, j) ==
    /\ request[r].pc = "cancel_open" /\ request[r].job = j
    /\ Opened(r, j) /\ RequestIs(r, "cancel_fill", j, request[r].cur)
    /\ UNCHANGED <<worker, thread, lock, dir, crashes>>

CancelFills(r, j) ==
    /\ request[r].pc = "cancel_fill" /\ request[r].job = j
    /\ \E s : /\ s \in Snapshot /\ s.status = "CANCELED" /\ s.run = request[r].cur.run
              /\ s.node_events = request[r].cur.node_events
              /\ Written(r, j, s)
    /\ RequestIs(r, "idle", None, None)
    /\ UNCHANGED <<worker, thread, lock, dir, crashes>>

DeleteGets(r, j) ==
    /\ request[r].pc = "idle" /\ HasStatus(j, Terminal)
    /\ RequestIs(r, "rmtree", j, file[j])
    /\ UNCHANGED <<file, writers, worker, thread, lock, dir, crashes>>

DeletesTree(r, j) ==
    /\ request[r].pc = "rmtree" /\ request[r].job = j
    /\ \/ request[r].cur.run # "none" /\ DirIs(j, "removed")
       \/ dir' = dir
    /\ RequestIs(r, "unlink", j, None)
    /\ UNCHANGED <<file, writers, worker, thread, lock, crashes>>

Unlinks(r, j) ==
    /\ request[r].pc = "unlink" /\ request[r].job = j
    /\ file' \in [Jobs -> Contents] /\ writers' \in [Jobs -> SUBSET Clients]
    /\ file'[j] = None /\ \A i \in Jobs \ {j} : file'[i] = file[i] /\ writers'[i] = writers[i]
    /\ RequestIs(r, "idle", None, None)
    /\ UNCHANGED <<worker, thread, lock, dir, crashes>>

Dies ==
    /\ crashes < MaxCrashes /\ crashes' = crashes + 1
    /\ worker' \in [Jobs -> Task]
    /\ \A j \in Jobs :
          IF worker[j].pc \in {"unborn", "returned", "raised"} THEN worker'[j] = worker[j]
          ELSE worker'[j].pc = "killed" /\ worker'[j].goal = worker[j].goal
    /\ thread' \in [Jobs -> [Nodes -> Callback]]
    /\ \A j \in Jobs, n \in Nodes : thread'[j][n] = IdleThread
    /\ \A r \in Requests : request'[r] = IdleRequest
    /\ UNCHANGED <<file, dir>>

TaskEffect(j) ==
    Checks(j) \/ Reads(j) \/ Opens(j) \/ Fills(j) \/ Succeeds(j) \/ RaisesError(j)

CallbackEffect(j, n) ==
    \/ \E event \in {"start", "done", "error"} : Emits(j, n, event)
    \/ Gets(j, n) \/ Rereads(j, n) \/ AppendOpens(j, n) \/ AppendFills(j, n)

RequestEffect(r, j) ==
    \/ Retries(r) \/ Creates(r, j) \/ CreateFills(r, j) \/ Responds(r, j)
    \/ CancelGets(r, j) \/ CancelReads(r, j) \/ CancelOpens(r, j) \/ CancelFills(r, j)
    \/ DeleteGets(r, j) \/ DeletesTree(r, j) \/ Unlinks(r, j)

Effect ==
    \/ \E j \in Jobs : TaskEffect(j)
    \/ \E j \in Jobs, n \in Nodes : CallbackEffect(j, n)
    \/ \E r \in Requests, j \in Jobs : RequestEffect(r, j)
    \/ Dies

LEMMA CallbackGotoBecomes ==
    ASSUME thread \in [Jobs -> [Nodes -> Callback]], NEW j \in Jobs, NEW n \in Nodes,
           NEW pc \in ThreadPc, NEW event \in {"start", "done", "error"},
           NEW first \in Held, NEW cur \in Held,
           CallbackGoto(j, n, pc, event, first, cur)
    PROVE  CallbackBecomes(j, n, pc, event, first, cur)
<1> DEFINE c == [pc |-> pc, event |-> event, first |-> first, cur |-> cur]
<1>1. c \in Callback /\ c.event = event
  BY DEF Callback
<1>2. thread' = [thread EXCEPT ![j][n] = c]
  BY DEF CallbackGoto
<1>3. CallbackIs(j, n, pc, first, cur)
  BY CallbackGotoIs
<1> HIDE DEF c
<1>4. thread'[j][n] = c
  BY <1>1, <1>2
<1> QED
  BY <1>1, <1>3, <1>4 DEF CallbackIs, CallbackBecomes

LEMMA FillWrites ==
    ASSUME file \in [Jobs -> Contents], writers \in [Jobs -> SUBSET Clients],
           NEW j \in Jobs, NEW c, NEW snapshot \in Snapshot, FillFile(c, j, snapshot)
    PROVE  Written(c, j, snapshot)
  BY FillFileIs DEF FillFile, Written

LEMMA UpdatesKeep ==
    ASSUME NEW cur \in Snapshot
    PROVE  /\ TaskWrites("RUNNING", cur, Running(cur))
           /\ TaskWrites("SUCCEEDED", cur, Succeeded(cur))
           /\ \A recorded \in BOOLEAN : TaskWrites("FAILED", cur, Failed(cur, recorded))
           /\ Canceled(cur) \in Snapshot /\ Canceled(cur).status = "CANCELED"
           /\ Canceled(cur).run = cur.run /\ Canceled(cur).node_events = cur.node_events
<1>1. /\ Running(cur).node_events = cur.node_events /\ Running(cur).run = cur.run
      /\ Succeeded(cur).node_events = cur.node_events /\ Succeeded(cur).run = "complete"
      /\ \A recorded \in BOOLEAN : Failed(cur, recorded).node_events = cur.node_events
      /\ Canceled(cur).run = cur.run /\ Canceled(cur).node_events = cur.node_events
  BY DEF Snapshot, Running, Succeeded, Failed, Canceled
<1> QED
  BY <1>1, SnapshotsTyped, UpdatesStatus DEF TaskWrites

LEMMA CallbackUpdateKeeps ==
    ASSUME NEW n \in Nodes, NEW t \in Callback, t.first \in Snapshot, t.cur \in Snapshot
    PROVE  CallbackWrites(n, t, Appended(t.first, t.cur, [node |-> n, event |-> t.event]))
<1> DEFINE ev == [node |-> n, event |-> t.event]
<1>1. ev \in NodeEvent
  BY DEF NodeEvent, Callback
<1> HIDE DEF ev
<1>2. PICK first \in Snapshot, cur \in Snapshot : first = t.first /\ cur = t.cur
  OBVIOUS
<1>3. Appended(first, cur, ev) \in Snapshot
  BY <1>1, SnapshotsTyped
<1>4. /\ Appended(first, cur, ev).status = first.status
      /\ Appended(first, cur, ev).run = cur.run
      /\ Appended(first, cur, ev).node_events = Append(first.node_events, ev)
  BY DEF Appended, Snapshot
<1> QED
  BY <1>2, <1>3, <1>4 DEF CallbackWrites, ev

LEMMA TaskStepEffect ==
    ASSUME Inductive, NEW j \in Jobs, WorkerStep(j)
    PROVE  TaskEffect(j)
<1>1. /\ TypeOK /\ worker[j].goal \in {"RUNNING", "SUCCEEDED", "FAILED"}
      /\ worker[j].cur \in Held /\ worker[j].recorded \in BOOLEAN
      /\ \A pc \in {"raised", "returned", "read", "open", "fill", "workflow", "recheck"} :
            pc \in WorkerPc
      /\ Readable(j) => file[j] \in Snapshot /\ file[j] \in Held
      /\ None \in Held
  BY HeldFacts DEF Inductive, TypeOK, Task, WorkerPc, Readable, Contents
<1>2. CASE WorkerCheck(j)
  BY <1>1, <1>2, TaskGotoIs DEF WorkerCheck, Checks, HasStatus, TypeOK, TaskEffect
<1>3. CASE WorkerRead(j)
  BY <1>1, <1>3, TaskGotoIs DEF WorkerRead, Reads, TypeOK, TaskEffect
<1>4. CASE WorkerOpen(j)
  <2>1. j \in Clients
    BY DEF Clients
  <2> QED
    BY <1>1, <1>4, <2>1, TaskGotoIs, OpenFileIs DEF WorkerOpen, Opens, TypeOK, TaskEffect
<1>5. CASE WorkerFill(j)
  <2>1. worker[j].cur \in Snapshot
    BY <1>1, <1>5 DEF WorkerFill, Inductive, IInv, WritersHoldRecords, Held
  <2>2. TaskWrites(worker[j].goal, worker[j].cur, WorkerSnapshot(j))
    BY <1>1, <2>1, UpdatesKeep DEF WorkerSnapshot
  <2>3. Written(j, j, WorkerSnapshot(j))
    BY <1>1, <1>5, <2>2, FillWrites DEF WorkerFill, TaskWrites, TypeOK
  <2>4. TaskIs(j, IF worker[j].goal = "RUNNING" THEN "workflow" ELSE "returned", None,
               worker[j].goal)
    BY <1>1, <1>5, TaskGotoIs DEF WorkerFill, TypeOK
  <2> QED
    BY <1>5, <2>2, <2>3, <2>4 DEF WorkerFill, Fills, TaskEffect
<1>6. CASE WorkflowSucceeds(j)
  <2>1. TaskIs(j, "recheck", worker[j].cur, "SUCCEEDED")
    BY <1>1, <1>6, TaskEndsIs DEF WorkflowSucceeds, TypeOK
  <2>2. DirIs(j, "present")
    BY <1>1, <1>6 DEF WorkflowSucceeds, DirIs, TypeOK
  <2> QED
    BY <1>6, <2>1, <2>2 DEF WorkflowSucceeds, Succeeds, TaskEffect
<1>7. CASE WorkflowRaises(j)
  <2>1. PICK recorded \in BOOLEAN, left \in {"none", "present"} :
           TaskEnds(j, "read", "FAILED", recorded) /\ dir' = [dir EXCEPT ![j] = left]
    BY <1>7 DEF WorkflowRaises
  <2>2. TaskIs(j, "read", worker[j].cur, "FAILED")
    BY <1>1, <2>1, TaskEndsIs DEF TypeOK
  <2>3. DirIs(j, left)
    BY <1>1, <2>1 DEF DirIs, TypeOK
  <2> QED
    BY <1>7, <2>2, <2>3 DEF WorkflowRaises, RaisesError, TaskEffect
<1> QED
  BY <1>2, <1>3, <1>4, <1>5, <1>6, <1>7 DEF WorkerStep

LEMMA CallbackStepEffect ==
    ASSUME Inductive, NEW j \in Jobs, NEW n \in Nodes, ThreadStep(j, n)
    PROVE  CallbackEffect(j, n)
<1> DEFINE t == thread[j][n]
<1>1. /\ TypeOK /\ t \in Callback
      /\ \A pc \in {"append", "reread", "open", "fill", "body", "over"} : pc \in ThreadPc
      /\ Readable(j) => file[j] \in Snapshot /\ file[j] \in Held
      /\ None \in Held /\ <<j, n>> \in Clients
  BY HeldFacts DEF Inductive, TypeOK, ThreadPc, Readable, Contents, Clients
<1>2. /\ t.event \in {"start", "done", "error"} /\ t.first \in Held /\ t.cur \in Held
      /\ \A event \in {"start", "done", "error"} : AfterEvent(event) \in ThreadPc
  BY <1>1 DEF Callback, AfterEvent
<1>3. ASSUME NEW event \in {"start", "done", "error"}, EmitNodeProgress(j, n, event)
      PROVE  Emits(j, n, event)
  BY <1>1, <1>2, <1>3, CallbackGotoBecomes
     DEF EmitNodeProgress, CallbackOver, Emits, HasStatus, TypeOK
<1>4. CASE AppendGet(j, n)
  <2>1. \/ Readable(j) /\ CallbackBecomes(j, n, "reread", t.event, file[j], None)
           /\ lock' = [lock EXCEPT ![j] = n]
        \/ ~Readable(j) /\ CallbackBecomes(j, n, AfterEvent(t.event), t.event, None, None)
           /\ lock' = lock
    BY <1>1, <1>2, <1>4, CallbackGotoBecomes DEF AppendGet, CallbackOver, TypeOK
  <2>2. lock' = [lock EXCEPT ![j] = n] => LockIs(j, n)
    BY <1>1 DEF LockIs, TypeOK
  <2> QED
    BY <1>4, <2>1, <2>2 DEF AppendGet, Gets, CallbackEffect
<1>5. CASE AppendReread(j, n)
  <2>1. \/ Readable(j) /\ CallbackBecomes(j, n, "open", t.event, t.first, file[j])
           /\ lock' = lock
        \/ ~Readable(j) /\ CallbackBecomes(j, n, AfterEvent(t.event), t.event, None, None)
           /\ lock' = [lock EXCEPT ![j] = None]
    BY <1>1, <1>2, <1>5, CallbackGotoBecomes DEF AppendReread, CallbackOver, TypeOK
  <2>2. lock' = [lock EXCEPT ![j] = None] => LockIs(j, None)
    BY <1>1 DEF LockIs, TypeOK
  <2> QED
    BY <1>5, <2>1, <2>2 DEF AppendReread, Rereads, CallbackEffect
<1>6. CASE AppendOpen(j, n)
  BY <1>1, <1>2, <1>6, CallbackGotoBecomes, OpenFileIs
     DEF AppendOpen, AppendOpens, TypeOK, CallbackEffect
<1>7. CASE AppendFill(j, n)
  <2>1. t.first \in Snapshot /\ t.cur \in Snapshot
    BY <1>2, <1>7 DEF AppendFill, Inductive, IInv, WritersHoldRecords, Held
  <2>2. CallbackWrites(n, t, ThreadSnapshot(j, n))
    BY <1>1, <2>1, CallbackUpdateKeeps DEF ThreadSnapshot
  <2>3. Written(<<j, n>>, j, ThreadSnapshot(j, n))
    BY <1>1, <1>7, <2>2, FillWrites DEF AppendFill, CallbackWrites, TypeOK
  <2>4. CallbackBecomes(j, n, AfterEvent(t.event), t.event, None, None)
    BY <1>1, <1>2, <1>7, CallbackGotoBecomes DEF AppendFill, CallbackOver, TypeOK
  <2>5. LockIs(j, None)
    BY <1>1, <1>7 DEF AppendFill, LockIs, TypeOK
  <2> QED
    BY <1>7, <2>2, <2>3, <2>4, <2>5 DEF AppendFill, AppendFills, CallbackEffect
<1> QED
  BY <1>3, <1>4, <1>5, <1>6, <1>7 DEF ThreadStep, CallbackEffect

LEMMA RequestBeginsEffect ==
    ASSUME Inductive, NEW r \in Requests, NEW j \in Jobs,
           RetryGet(r, j) \/ CreateOpen(r, j) \/ CancelGet(r, j) \/ DeleteGet(r, j)
    PROVE  RequestEffect(r, j)
<1>1. /\ TypeOK /\ r \in Clients
      /\ \A pc \in {"create", "create_fill", "cancel_read", "rmtree"} : pc \in RequestPc
      /\ Readable(j) => file[j] \in Snapshot /\ file[j] \in Held
      /\ None \in Held /\ worker[j].cur \in Held /\ "created" \in WorkerPc
  BY HeldFacts DEF Inductive, TypeOK, RequestPc, Readable, Contents, Clients, Task, WorkerPc
<1>2. CASE RetryGet(r, j)
  BY <1>1, <1>2, GotoIs DEF RetryGet, Retries, TypeOK, RequestEffect
<1>3. CASE CreateOpen(r, j)
  BY <1>1, <1>3, GotoIs, TaskGotoIs, OpenFileIs DEF CreateOpen, Creates, TypeOK, RequestEffect
<1>4. CASE CancelGet(r, j)
  BY <1>1, <1>4, GotoIs DEF CancelGet, CancelGets, TypeOK, RequestEffect
<1>5. CASE DeleteGet(r, j)
  BY <1>1, <1>5, GotoIs DEF DeleteGet, DeleteGets, HasStatus, TypeOK, RequestEffect
<1> QED
  BY <1>2, <1>3, <1>4, <1>5

LEMMA RequestGoesOnEffect ==
    ASSUME Inductive, NEW r \in Requests, RequestStep(r)
    PROVE  \E j \in Jobs : RequestEffect(r, j)
<1> DEFINE j == request[r].job
<1>1. /\ TypeOK /\ r \in Clients
      /\ \A pc \in {"respond", "cancel_open", "cancel_fill", "unlink"} : pc \in RequestPc
      /\ None \in Held /\ request[r].cur \in Held /\ "check" \in WorkerPc
  BY HeldFacts DEF Inductive, TypeOK, RequestPc, Clients, HttpRequest, WorkerPc
<1>2. request[r].pc \notin {"idle", "create"} =>
        /\ j \in Jobs
        /\ Readable(j) => file[j] \in Snapshot /\ file[j] \in Held
  BY <1>1, HeldFacts DEF Inductive, IInv, WritersHoldRecords, Readable, Contents, TypeOK
<1>3. request[r].pc \in {"create_fill", "respond"} => worker[j].pc = "created"
  BY DEF Inductive, IInv, OneCreator
<1>4. request[r].pc \in {"cancel_open", "cancel_fill"} => request[r].cur \in Snapshot
  BY <1>1 DEF Inductive, IInv, WritersHoldRecords, Held
<1>5. ASSUME NEW i \in Jobs, request[r].pc = "create", CreateOpen(r, i)
      PROVE  RequestEffect(r, i)
  BY <1>5, RequestBeginsEffect
<1> HIDE DEF j
<1>6. CASE CreateFill(r)
  <2>1. request[r].pc = "create_fill" /\ j \in Jobs
    BY <1>2, <1>6 DEF CreateFill
  <2>2. Written(r, j, NewSnapshot)
    BY <1>1, <1>6, <2>1, NewSnapshotTyped, FillWrites DEF CreateFill, TypeOK, j
  <2>3. RequestIs(r, "respond", j, None)
    BY <1>1, <1>6, <2>1, GotoIs DEF CreateFill, TypeOK, j
  <2> QED
    BY <1>3, <1>6, <2>1, <2>2, <2>3 DEF CreateFill, CreateFills, RequestEffect, j
<1>7. CASE Respond(r)
  <2>1. request[r].pc = "respond" /\ j \in Jobs
    BY <1>2, <1>7 DEF Respond
  <2>2. TaskIs(j, "check", None, worker[j].goal)
    BY <1>1, <1>7, <2>1, TaskGotoIs DEF Respond, TypeOK, j
  <2>3. RequestIs(r, "idle", None, None)
    BY <1>1, <1>7, AnswerIs DEF Respond, TypeOK
  <2> QED
    BY <1>3, <1>7, <2>1, <2>2, <2>3 DEF Respond, Responds, RequestEffect, j
<1>8. CASE CancelRead(r)
  <2>1. request[r].pc = "cancel_read" /\ j \in Jobs
    BY <1>2, <1>8 DEF CancelRead
  <2>2. \/ Readable(j) /\ RequestIs(r, "cancel_open", j, file[j])
        \/ RequestIs(r, "idle", None, None)
    BY <1>1, <1>2, <1>8, <2>1, GotoIs, AnswerIs DEF CancelRead, TypeOK, j
  <2> QED
    BY <1>8, <2>1, <2>2 DEF CancelRead, CancelReads, RequestEffect, j
<1>9. CASE CancelOpen(r)
  <2>1. request[r].pc = "cancel_open" /\ j \in Jobs
    BY <1>2, <1>9 DEF CancelOpen
  <2>2. RequestIs(r, "cancel_fill", j, request[r].cur) /\ Opened(r, j)
    BY <1>1, <1>9, <2>1, GotoIs, OpenFileIs DEF CancelOpen, TypeOK, j
  <2> QED
    BY <1>9, <2>1, <2>2 DEF CancelOpen, CancelOpens, RequestEffect, j
<1>10. CASE CancelFill(r)
  <2>1. request[r].pc = "cancel_fill" /\ j \in Jobs /\ request[r].cur \in Snapshot
    BY <1>2, <1>4, <1>10 DEF CancelFill
  <2> DEFINE s == Canceled(request[r].cur)
  <2>2. /\ s \in Snapshot /\ s.status = "CANCELED" /\ s.run = request[r].cur.run
        /\ s.node_events = request[r].cur.node_events
    BY <2>1, UpdatesKeep
  <2> HIDE DEF s
  <2>3. Written(r, j, s)
    BY <1>1, <1>10, <2>1, <2>2, FillWrites DEF CancelFill, TypeOK, j, s
  <2>4. RequestIs(r, "idle", None, None)
    BY <1>1, <1>10, AnswerIs DEF CancelFill, TypeOK
  <2> QED
    BY <1>10, <2>1, <2>2, <2>3, <2>4 DEF CancelFill, CancelFills, RequestEffect, j
<1>11. CASE DeleteTree(r)
  <2>1. request[r].pc = "rmtree" /\ j \in Jobs
    BY <1>2, <1>11 DEF DeleteTree
  <2>2. (request[r].cur.run # "none" /\ DirIs(j, "removed")) \/ dir' = dir
    BY <1>1, <1>11, <2>1 DEF DeleteTree, DirIs, TypeOK, j
  <2>3. RequestIs(r, "unlink", j, None)
    BY <1>1, <1>11, <2>1, GotoIs DEF DeleteTree, TypeOK, j
  <2> QED
    BY <1>11, <2>1, <2>2, <2>3 DEF DeleteTree, DeletesTree, RequestEffect, j
<1>12. CASE DeleteUnlink(r)
  <2>1. request[r].pc = "unlink" /\ j \in Jobs
    BY <1>2, <1>12 DEF DeleteUnlink
  <2>2. RequestIs(r, "idle", None, None)
    BY <1>1, <1>12, AnswerIs DEF DeleteUnlink, TypeOK
  <2>3. /\ file' \in [Jobs -> Contents] /\ writers' \in [Jobs -> SUBSET Clients]
        /\ file'[j] = None
        /\ \A i \in Jobs \ {j} : file'[i] = file[i] /\ writers'[i] = writers[i]
    BY <1>1, <1>12, <2>1, SMTT(30) DEF DeleteUnlink, TypeOK, Contents, j
  <2> QED
    BY <1>12, <2>1, <2>2, <2>3 DEF DeleteUnlink, Unlinks, RequestEffect, j
<1> QED
  BY <1>2, <1>5, <1>6, <1>7, <1>8, <1>9, <1>10, <1>11, <1>12 DEF RequestStep

LEMMA CrashEffect ==
    ASSUME Inductive, Crash PROVE Dies
<1>1. /\ TypeOK /\ "killed" \in WorkerPc /\ None \in Held /\ IdleThread \in Callback
  BY HeldFacts DEF Inductive, WorkerPc, IdleThread, Callback, ThreadPc
<1>2. ASSUME NEW j \in Jobs
      PROVE  LET new == [worker[j] EXCEPT !.pc = "killed", !.cur = None] IN
             new \in Task /\ new.pc = "killed" /\ new.goal = worker[j].goal
  <2>1. worker[j] \in Task
    BY <1>1 DEF TypeOK
  <2> QED
    BY <1>1, <2>1 DEF Task
<1>3. /\ worker' \in [Jobs -> Task]
      /\ \A j \in Jobs :
          IF worker[j].pc \in {"unborn", "returned", "raised"} THEN worker'[j] = worker[j]
          ELSE worker'[j].pc = "killed" /\ worker'[j].goal = worker[j].goal
  BY <1>1, <1>2 DEF Crash, TypeOK
<1> QED
  BY <1>1, <1>3 DEF Crash, Dies

\* Every step is one of these.
LEMMA StepEffect ==
    ASSUME Inductive, Next PROVE Effect
  BY TaskStepEffect, CallbackStepEffect, RequestBeginsEffect, RequestGoesOnEffect, CrashEffect
     DEF Next, Effect

-----------------------------------------------------------------------------
(* What the events in a record say of the past.                            *)

\* The events that may have been recorded of a node, given where the task of
\* its job is and where the callbacks of the node are.
MayHave(pc, t) ==
    CASE pc \in {"returned", "raised", "killed"} \/ t.pc = "over" -> {"start", "done", "error"}
      [] pc \notin {"returned", "raised", "killed"} /\ t.pc \notin {"over", "waiting"}
         /\ (t.pc = "body" \/ t.event # "start") -> {"start"}
      [] OTHER -> {}

\* No event twice, and none of a node after its end.
Ordered(log) ==
    \A i, k \in DOMAIN log : i < k /\ log[i].node = log[k].node =>
        log[i].event = "start" /\ log[k].event # "start"

Truthful(s, pc, t) ==
    /\ Ordered(s.node_events)
    /\ \A i \in DOMAIN s.node_events :
          s.node_events[i].event \in MayHave(pc, t[s.node_events[i].node])

HistoryAt(j) ==
    /\ Readable(j) => Truthful(file[j], worker[j].pc, thread[j])
    /\ worker[j].pc \in {"open", "fill"} => Truthful(worker[j].cur, worker[j].pc, thread[j])
    /\ \A n \in Nodes : thread[j][n].pc \in {"reread", "open", "fill"} =>
          Truthful(thread[j][n].first, worker[j].pc, thread[j])

HistoryOf(r) ==
    request[r].pc \in {"cancel_open", "cancel_fill"} =>
        LET j == request[r].job IN Truthful(request[r].cur, worker[j].pc, thread[j])

\* Every record in a file or in the hands of somebody who may write it again.
History == (\A j \in Jobs : HistoryAt(j)) /\ (\A r \in Requests : HistoryOf(r))

LEMMA LogTyped ==
    ASSUME NEW s \in Snapshot
    PROVE  /\ s.node_events \in Seq(NodeEvent)
           /\ \A i \in DOMAIN s.node_events : /\ s.node_events[i].node \in Nodes
                                              /\ s.node_events[i].event \in {"start", "done", "error"}
<1> DEFINE log == s.node_events
<1>1. log \in Seq(NodeEvent)
  BY DEF Snapshot
<1> HIDE DEF log
<1>2. \A i \in DOMAIN log : log[i] \in NodeEvent
  BY <1>1
<1>3. \A e \in NodeEvent : e.node \in Nodes /\ e.event \in {"start", "done", "error"}
  BY DEF NodeEvent
<1> QED
  BY <1>1, <1>2, <1>3 DEF log

LEMMA StaysTruthful ==
    ASSUME NEW s \in Snapshot, NEW pc, NEW t, NEW pc2, NEW t2, Truthful(s, pc, t),
           \A n \in Nodes : MayHave(pc, t[n]) \subseteq MayHave(pc2, t2[n])
    PROVE  Truthful(s, pc2, t2)
<1>1. \A i \in DOMAIN s.node_events : s.node_events[i].node \in Nodes
  BY LogTyped, SMTT(30)
<1> QED
  BY <1>1 DEF Truthful

\* A callback extends the record it read.
LEMMA ExtendedTruthful ==
    ASSUME NEW j \in Jobs, NEW n \in Nodes, NEW s,
           thread[j][n].first \in Snapshot, [node |-> n, event |-> thread[j][n].event] \in NodeEvent,
           Truthful(thread[j][n].first, worker[j].pc, thread[j]),
           \A m \in Nodes : MayHave(worker[j].pc, thread[j][m])
                              \subseteq MayHave(worker'[j].pc, thread'[j][m]),
           \A e \in MayHave(worker[j].pc, thread[j][n]) :
              e = "start" /\ thread[j][n].event # "start",
           thread[j][n].event \in MayHave(worker'[j].pc, thread'[j][n]),
           s.node_events = Append(thread[j][n].first.node_events,
                                  [node |-> n, event |-> thread[j][n].event])
    PROVE  Truthful(s, worker'[j].pc, thread'[j])
<1> DEFINE first == thread[j][n].first
           ev == [node |-> n, event |-> thread[j][n].event]
           pc == worker[j].pc
           t == thread[j]
           pc2 == worker'[j].pc
           t2 == thread'[j]
<1>0. /\ first \in Snapshot /\ ev \in NodeEvent /\ Truthful(first, pc, t)
      /\ ev.node = n
      /\ \A m \in Nodes : MayHave(pc, t[m]) \subseteq MayHave(pc2, t2[m])
      /\ \A e \in MayHave(pc, t[n]) : e = "start" /\ ev.event # "start"
      /\ ev.event \in MayHave(pc2, t2[n])
      /\ s.node_events = Append(first.node_events, ev)
  OBVIOUS
<1> HIDE DEF first, ev, pc, t, pc2, t2
<1> DEFINE old == first.node_events
           new == s.node_events
<1>1. old \in Seq(NodeEvent)
  BY <1>0, LogTyped, SMTT(30)
<1>2. /\ Ordered(old)
      /\ \A i \in DOMAIN old : /\ old[i].event \in MayHave(pc, t[old[i].node])
                               /\ old[i].node \in Nodes
  BY <1>0, LogTyped DEF Truthful
<1>3. new = Append(old, ev)
  BY <1>0
<1> HIDE DEF old, new
<1>4. /\ Len(old) \in Nat /\ DOMAIN old = 1 .. Len(old) /\ DOMAIN new = 1 .. Len(old) + 1
      /\ new[Len(old) + 1] = ev /\ \A i \in 1 .. Len(old) : new[i] = old[i]
  BY <1>0, <1>1, <1>3
<1>5. ASSUME NEW i \in DOMAIN new PROVE new[i].event \in MayHave(pc2, t2[new[i].node])
  <2>1. CASE i \in 1 .. Len(old)
    <3>1. new[i] = old[i] /\ old[i].event \in MayHave(pc, t[old[i].node]) /\ old[i].node \in Nodes
      BY <1>2, <1>4, <2>1
    <3> QED
      BY <1>0, <3>1
  <2>2. CASE i = Len(old) + 1
    BY <1>0, <1>4, <2>2
  <2> QED
    BY <1>4, <2>1, <2>2
<1>6. ASSUME NEW i \in DOMAIN new, NEW k \in DOMAIN new, i < k, new[i].node = new[k].node
      PROVE  new[i].event = "start" /\ new[k].event # "start"
  <2>1. CASE k \in 1 .. Len(old)
    <3>1. i \in 1 .. Len(old)
      BY <1>4, <1>6, <2>1
    <3> QED
      BY <1>2, <1>4, <1>6, <2>1, <3>1 DEF Ordered
  <2>2. CASE k = Len(old) + 1
    <3>1. i \in 1 .. Len(old)
      BY <1>4, <1>6, <2>2
    <3>2. new[k] = ev /\ new[i] = old[i] /\ old[i].node = n
      BY <1>0, <1>4, <1>6, <2>2, <3>1
    <3>3. old[i].event \in MayHave(pc, t[n])
      BY <1>2, <1>4, <3>1, <3>2
    <3> QED
      BY <1>0, <3>2, <3>3
  <2> QED
    BY <1>4, <2>1, <2>2
<1>7. Ordered(new)
  BY <1>6 DEF Ordered
<1> QED
  BY <1>5, <1>7 DEF Truthful, new, pc2, t2

\* The records that clients hold are records.
LEMMA RecordsHeld ==
    ASSUME Inductive
    PROVE  /\ \A j \in Jobs : /\ Readable(j) => file[j] \in Snapshot
                              /\ worker[j].pc \in {"open", "fill"} => worker[j].cur \in Snapshot
                              /\ \A n \in Nodes :
                                    /\ thread[j][n].pc \in {"reread", "open", "fill"} =>
                                          thread[j][n].first \in Snapshot
                                    /\ thread[j][n].pc \in {"open", "fill"} =>
                                          thread[j][n].cur \in Snapshot
           /\ \A r \in Requests : /\ request[r].pc \in {"cancel_open", "cancel_fill"} =>
                                        request[r].cur \in Snapshot
                                  /\ request[r].pc \notin {"idle", "create"} =>
                                        request[r].job \in Jobs
<1>1. ASSUME NEW j \in Jobs
      PROVE  /\ Readable(j) => file[j] \in Snapshot
             /\ worker[j].pc \in {"open", "fill"} => worker[j].cur \in Snapshot
  BY DEF Inductive, TypeOK, IInv, WritersHoldRecords, Readable, Contents, Task, Held
<1>2. ASSUME NEW j \in Jobs, NEW n \in Nodes
      PROVE  /\ thread[j][n].pc \in {"reread", "open", "fill"} => thread[j][n].first \in Snapshot
             /\ thread[j][n].pc \in {"open", "fill"} => thread[j][n].cur \in Snapshot
  BY DEF Inductive, TypeOK, IInv, WritersHoldRecords, Callback, Held
<1>3. ASSUME NEW r \in Requests
      PROVE  /\ request[r].pc \in {"cancel_open", "cancel_fill"} => request[r].cur \in Snapshot
             /\ request[r].pc \notin {"idle", "create"} => request[r].job \in Jobs
  BY DEF Inductive, TypeOK, IInv, WritersHoldRecords, HttpRequest, Held
<1> QED
  BY <1>1, <1>2, <1>3

\* No step takes back what may have been recorded.
LEMMA MoreMayHave ==
    ASSUME Inductive, Effect, NEW j \in Jobs, NEW n \in Nodes
    PROVE  MayHave(worker[j].pc, thread[j][n]) \subseteq MayHave(worker'[j].pc, thread'[j][n])
<1>1. /\ worker[j].pc \in WorkerPc
      /\ thread[j][n] \in Callback
      /\ thread[j][n].pc \in ThreadPc /\ thread[j][n].event \in {"start", "done", "error"}
      /\ thread[j][n].pc \in {"append", "reread", "open", "fill", "body"} =>
            worker[j].pc = "workflow"
      /\ worker[j].pc = "unborn" => thread[j][n].pc = "waiting"
  <2>1. /\ worker[j] \in Task /\ thread[j][n] \in Callback
        /\ CallbackLocked(j, n) /\ TaskAims
    BY DEF Inductive, TypeOK, IInv, CallbacksLocked
  <2> QED
    BY <2>1 DEF Task, Callback, CallbackLocked, TaskAims, Started, IdleThread
<1>2. ASSUME NEW i \in Jobs, TaskEffect(i)
      PROVE  MayHave(worker[j].pc, thread[j][n]) \subseteq MayHave(worker'[j].pc, thread'[j][n])
  <2>1. /\ thread' = thread
        /\ i # j => worker'[j] = worker[j]
        /\ worker[i].pc \notin {"returned", "raised", "killed"}
    BY <1>2 DEF TaskEffect, Checks, Reads, Opens, Fills, Succeeds, RaisesError, TaskIs
  <2> QED
    BY <2>1 DEF MayHave
<1>3. ASSUME NEW i \in Jobs, NEW m \in Nodes, CallbackEffect(i, m)
      PROVE  MayHave(worker[j].pc, thread[j][n]) \subseteq MayHave(worker'[j].pc, thread'[j][n])
  <2>1. worker' = worker /\ (<<i, m>> # <<j, n>> => thread'[j][n] = thread[j][n])
    BY <1>3 DEF CallbackEffect, Emits, Gets, Rereads, AppendOpens, AppendFills, CallbackBecomes
  <2>2. CASE <<i, m>> = <<j, n>>
    <3>1. /\ thread[j][n].pc # "over"
          /\ \/ thread'[j][n].event = thread[j][n].event
             \/ thread[j][n].pc \in {"waiting", "body"} /\ thread[j][n].pc = "body" =>
                   thread'[j][n].event # "start"
          /\ thread[j][n].pc # "waiting" => thread'[j][n].pc # "waiting"
          /\ thread'[j][n].pc = "body" => thread'[j][n].event = "start"
      BY <1>1, <1>3, <2>2
         DEF CallbackEffect, Emits, Gets, Rereads, AppendOpens, AppendFills, CallbackBecomes, AfterEvent
    <3>2. thread[j][n].pc = "body" => thread'[j][n].event # "start"
      BY <1>1, <1>3, <2>2
         DEF CallbackEffect, Emits, Gets, Rereads, AppendOpens, AppendFills, CallbackBecomes
    <3>3. thread[j][n].pc \notin {"waiting", "body"} => thread'[j][n].event = thread[j][n].event
      BY <1>1, <1>3, <2>2
         DEF CallbackEffect, Emits, Gets, Rereads, AppendOpens, AppendFills, CallbackBecomes
    <3> QED
      BY <2>1, <3>1, <3>2, <3>3 DEF MayHave
  <2> QED
    BY <2>1, <2>2
<1>4. ASSUME NEW r \in Requests, NEW i \in Jobs, RequestEffect(r, i)
      PROVE  MayHave(worker[j].pc, thread[j][n]) \subseteq MayHave(worker'[j].pc, thread'[j][n])
  <2>1. /\ thread' = thread
        /\ worker'[j] = worker[j] \/ worker[j].pc \notin {"returned", "raised", "killed"}
    BY <1>4 DEF RequestEffect, Retries, Creates, CreateFills, Responds, CancelGets, CancelReads,
       CancelOpens, CancelFills, DeleteGets, DeletesTree, Unlinks, TaskIs
  <2> QED
    BY <2>1 DEF MayHave
<1>5. CASE Dies
  <2>1. worker[j].pc \notin {"unborn"} => worker'[j].pc \in {"returned", "raised", "killed"}
    BY <1>1, <1>5 DEF Dies
  <2> QED
    BY <1>1, <2>1 DEF MayHave
<1> QED
  BY <1>2, <1>3, <1>4, <1>5 DEF Effect

\* What a record may say it may say after the step.
LEMMA RecordsStayTruthful ==
    ASSUME Inductive, Effect
    PROVE  \A j \in Jobs, s \in Snapshot :
              Truthful(s, worker[j].pc, thread[j]) => Truthful(s, worker'[j].pc, thread'[j])
  BY MoreMayHave, StaysTruthful

LEMMA SameLog ==
    ASSUME NEW s, NEW cur, NEW pc, NEW t, s.node_events = cur.node_events, Truthful(cur, pc, t)
    PROVE  Truthful(s, pc, t)
  BY DEF Truthful

LEMMA TaskKeepsHistory ==
    ASSUME Inductive, History, NEW j \in Jobs, TaskEffect(j)
    PROVE  History'
<1>1. Effect
  BY DEF Effect
<1>2. \A i \in Jobs, s \in Snapshot :
         Truthful(s, worker[i].pc, thread[i]) => Truthful(s, worker'[i].pc, thread'[i])
  BY <1>1, RecordsStayTruthful
<1>3. /\ thread' = thread /\ request' = request
      /\ \A i \in Jobs \ {j} : worker'[i] = worker[i] /\ file'[i] = file[i]
  BY DEF TaskEffect, Checks, Reads, Opens, Fills, Succeeds, RaisesError, TaskIs, Opened, Written, Filled
<1>4. /\ Readable(j)' => Truthful(file'[j], worker'[j].pc, thread'[j])
      /\ worker'[j].pc \in {"open", "fill"} => Truthful(worker'[j].cur, worker'[j].pc, thread'[j])
  <2>1. CASE Checks(j) \/ Succeeds(j) \/ RaisesError(j)
    <3>1. file' = file /\ worker'[j].pc \notin {"open", "fill"}
      BY <2>1 DEF Checks, Succeeds, RaisesError, TaskIs
    <3> QED
      BY <1>2, <3>1, RecordsHeld DEF History, HistoryAt, Readable
  <2>2. CASE Reads(j)
    <3>1. file' = file /\ (worker'[j].pc \in {"open", "fill"} =>
                              Readable(j) /\ worker'[j].cur = file[j])
      BY <2>2 DEF Reads, TaskIs
    <3> QED
      BY <1>2, <3>1, RecordsHeld DEF History, HistoryAt, Readable
  <2>3. CASE Opens(j)
    <3>1. /\ file'[j] = Empty /\ worker[j].pc = "open" /\ worker'[j].cur = worker[j].cur
      BY <2>3 DEF Opens, TaskIs, Opened
    <3> QED
      BY <1>2, <3>1, RecordsHeld DEF History, HistoryAt, Readable
  <2>4. CASE Fills(j)
    <3>1. PICK s : TaskWrites(worker[j].goal, worker[j].cur, s) /\ Written(j, j, s)
      BY <2>4 DEF Fills
    <3>2. worker[j].pc = "fill" /\ worker'[j].pc \notin {"open", "fill"}
      BY <2>4 DEF Fills, TaskIs
    <3>3. Truthful(s, worker[j].pc, thread[j]) /\ s \in Snapshot
      BY <3>1, <3>2, SameLog DEF History, HistoryAt, TaskWrites
    <3>4. file'[j] = file[j] \/ file'[j] \in {s, Torn}
      BY <3>1 DEF Written, Filled
    <3> QED
      BY <1>2, <3>2, <3>3, <3>4, RecordsHeld DEF History, HistoryAt, Readable
  <2> QED
    BY <2>1, <2>2, <2>3, <2>4 DEF TaskEffect
<1>5. ASSUME NEW i \in Jobs, NEW n \in Nodes, thread'[i][n].pc \in {"reread", "open", "fill"}
      PROVE  Truthful(thread'[i][n].first, worker'[i].pc, thread'[i])
  BY <1>2, <1>3, <1>5, RecordsHeld DEF History, HistoryAt
<1>6. ASSUME NEW i \in Jobs PROVE HistoryAt(i)'
  BY <1>2, <1>3, <1>4, <1>5, RecordsHeld DEF History, HistoryAt, Readable
<1>7. ASSUME NEW r \in Requests PROVE HistoryOf(r)'
  BY <1>2, <1>3, RecordsHeld DEF History, HistoryOf
<1> QED
  BY <1>6, <1>7 DEF History

LEMMA CallbackKeepsHistory ==
    ASSUME Inductive, History, NEW j \in Jobs, NEW n \in Nodes, CallbackEffect(j, n)
    PROVE  History'
<1>1. Effect
  BY DEF Effect
<1>2. \A i \in Jobs, s \in Snapshot :
         Truthful(s, worker[i].pc, thread[i]) => Truthful(s, worker'[i].pc, thread'[i])
  BY <1>1, RecordsStayTruthful
<1>3. /\ worker' = worker /\ request' = request
      /\ \A i \in Jobs \ {j} : file'[i] = file[i]
      /\ \A i \in Jobs, m \in Nodes : <<i, m>> # <<j, n>> => thread'[i][m] = thread[i][m]
  BY DEF CallbackEffect, Emits, Gets, Rereads, AppendOpens, AppendFills, Opened, Written, Filled,
     CallbackBecomes
<1>4. /\ Readable(j)' => Truthful(file'[j], worker'[j].pc, thread'[j])
      /\ thread'[j][n].pc \in {"reread", "open", "fill"} =>
            Truthful(thread'[j][n].first, worker'[j].pc, thread'[j])
  <2>1. CASE \E event \in {"start", "done", "error"} : Emits(j, n, event)
    <3>1. file' = file /\ thread'[j][n].pc \notin {"reread", "open", "fill"}
      BY <2>1 DEF Emits, CallbackBecomes, AfterEvent
    <3> QED
      BY <1>2, <3>1, RecordsHeld DEF History, HistoryAt, Readable
  <2>2. CASE Gets(j, n)
    <3>1. file' = file /\ (thread'[j][n].pc \in {"reread", "open", "fill"} =>
                              Readable(j) /\ thread'[j][n].first = file[j])
      BY <2>2 DEF Gets, CallbackBecomes, AfterEvent
    <3> QED
      BY <1>2, <3>1, RecordsHeld DEF History, HistoryAt, Readable
  <2>3. CASE Rereads(j, n)
    <3>1. /\ file' = file /\ thread[j][n].pc = "reread"
          /\ thread'[j][n].pc \in {"reread", "open", "fill"} =>
                thread'[j][n].first = thread[j][n].first
      BY <2>3 DEF Rereads, CallbackBecomes, AfterEvent
    <3> QED
      BY <1>2, <3>1, RecordsHeld DEF History, HistoryAt, Readable
  <2>4. CASE AppendOpens(j, n)
    <3>1. /\ file'[j] = Empty /\ thread[j][n].pc = "open"
          /\ thread'[j][n].first = thread[j][n].first
      BY <2>4 DEF AppendOpens, CallbackBecomes, Opened
    <3> QED
      BY <1>2, <3>1, RecordsHeld DEF History, HistoryAt, Readable
  <2>5. CASE AppendFills(j, n)
    <3> DEFINE t == thread[j][n]
    <3>1. PICK s : CallbackWrites(n, t, s) /\ Written(<<j, n>>, j, s)
      BY <2>5 DEF AppendFills
    <3>2. /\ t.pc = "fill" /\ thread'[j][n].pc = AfterEvent(t.event)
          /\ thread'[j][n].event = t.event
      BY <2>5 DEF AppendFills, CallbackBecomes
    <3>3. t.event \in {"start", "done", "error"} /\ worker[j].pc = "workflow"
      <4>1. t \in Callback /\ CallbackLocked(j, n)
        BY DEF Inductive, TypeOK, IInv, CallbacksLocked
      <4> QED
        BY <3>2, <4>1 DEF Callback, CallbackLocked
    <3>4. /\ MayHave(worker[j].pc, t) = IF t.event = "start" THEN {} ELSE {"start"}
          /\ t.event \in MayHave(worker'[j].pc, thread'[j][n])
      BY <1>3, <3>2, <3>3 DEF MayHave, AfterEvent
    <3>5. \A m \in Nodes : MayHave(worker[j].pc, thread[j][m])
                             \subseteq MayHave(worker'[j].pc, thread'[j][m])
      BY <1>1, MoreMayHave
    <3>6. t.first \in Snapshot /\ Truthful(t.first, worker[j].pc, thread[j])
      BY <3>2, RecordsHeld DEF History, HistoryAt
    <3>7. s \in Snapshot
          /\ s.node_events = Append(t.first.node_events, [node |-> n, event |-> t.event])
      BY <3>1, SMTT(30) DEF CallbackWrites
    <3>8. Truthful(s, worker'[j].pc, thread'[j])
      <4>1. [node |-> n, event |-> t.event] \in NodeEvent
        BY <3>3 DEF NodeEvent
      <4>2. \A e \in MayHave(worker[j].pc, t) : e = "start" /\ t.event # "start"
        BY <3>4
      <4> QED
        BY <3>4, <3>5, <3>6, <3>7, <4>1, <4>2, ExtendedTruthful
    <3>9. file'[j] = file[j] \/ file'[j] \in {s, Torn}
      BY <3>1 DEF Written, Filled
    <3>10. thread'[j][n].pc \notin {"reread", "open", "fill"}
      BY <3>2 DEF AfterEvent
    <3> QED
      BY <1>2, <3>8, <3>9, <3>10, RecordsHeld DEF History, HistoryAt, Readable
  <2> QED
    BY <2>1, <2>2, <2>3, <2>4, <2>5 DEF CallbackEffect
<1>5. ASSUME NEW i \in Jobs, NEW m \in Nodes, thread'[i][m].pc \in {"reread", "open", "fill"}
      PROVE  Truthful(thread'[i][m].first, worker'[i].pc, thread'[i])
  <2>1. CASE <<i, m>> = <<j, n>>
    BY <1>4, <1>5, <2>1
  <2>2. CASE <<i, m>> # <<j, n>>
    BY <1>2, <1>3, <1>5, <2>2, RecordsHeld DEF History, HistoryAt
  <2> QED
    BY <2>1, <2>2
<1>6. ASSUME NEW i \in Jobs PROVE HistoryAt(i)'
  BY <1>2, <1>3, <1>4, <1>5, RecordsHeld DEF History, HistoryAt, Readable
<1>7. ASSUME NEW r \in Requests PROVE HistoryOf(r)'
  BY <1>2, <1>3, RecordsHeld DEF History, HistoryOf
<1> QED
  BY <1>6, <1>7 DEF History

LEMMA RequestKeepsHistory ==
    ASSUME Inductive, History, NEW r \in Requests, NEW j \in Jobs, RequestEffect(r, j)
    PROVE  History'
<1>1. Effect
  BY DEF Effect
<1>2. \A i \in Jobs, s \in Snapshot :
         Truthful(s, worker[i].pc, thread[i]) => Truthful(s, worker'[i].pc, thread'[i])
  BY <1>1, RecordsStayTruthful
<1>3. /\ thread' = thread
      /\ \A q \in Requests \ {r} : request'[q] = request[q]
      /\ \A i \in Jobs \ {j} : worker'[i] = worker[i] /\ file'[i] = file[i]
      /\ worker'[j] = worker[j] \/ worker'[j].pc \in {"created", "check"}
  BY DEF RequestEffect, Retries, Creates, CreateFills, Responds, CancelGets, CancelReads,
     CancelOpens, CancelFills, DeleteGets, DeletesTree, Unlinks, TaskIs, RequestIs, Opened,
     Written, Filled
<1>4. /\ Readable(j)' => Truthful(file'[j], worker'[j].pc, thread'[j])
      /\ HistoryOf(r)'
  <2>1. CASE Retries(r) \/ Responds(r, j) \/ CancelGets(r, j) \/ DeleteGets(r, j)
             \/ DeletesTree(r, j) \/ Creates(r, j) \/ Unlinks(r, j)
    <3>1. /\ file' = file \/ file'[j] \in {Empty, None}
          /\ request'[r].pc \notin {"cancel_open", "cancel_fill"}
      BY <2>1 DEF Retries, Responds, CancelGets, DeleteGets, DeletesTree, Creates, Unlinks,
         RequestIs, Opened
    <3> QED
      BY <1>2, <3>1, RecordsHeld DEF History, HistoryAt, HistoryOf, Readable
  <2>2. CASE CreateFills(r, j)
    <3>1. /\ file'[j] = file[j] \/ file'[j] \in {NewSnapshot, Torn}
          /\ request'[r].pc \notin {"cancel_open", "cancel_fill"}
      BY <2>2 DEF CreateFills, RequestIs, Written, Filled
    <3>2. Truthful(NewSnapshot, worker'[j].pc, thread'[j])
      BY DEF NewSnapshot, Truthful, Ordered
    <3> QED
      BY <1>2, <3>1, <3>2, RecordsHeld DEF History, HistoryAt, HistoryOf, Readable
  <2>3. CASE CancelReads(r, j)
    <3>1. /\ file' = file
          /\ \/ /\ Readable(j) /\ request'[r].cur = file[j] /\ request'[r].job = j
             \/ request'[r].pc \notin {"cancel_open", "cancel_fill"}
      BY <2>3 DEF CancelReads, RequestIs
    <3> QED
      BY <1>2, <3>1, RecordsHeld DEF History, HistoryAt, HistoryOf, Readable
  <2>4. CASE CancelOpens(r, j)
    <3>1. /\ file'[j] = Empty /\ request[r].pc = "cancel_open" /\ request[r].job = j
          /\ request'[r].cur = request[r].cur /\ request'[r].job = j
      BY <2>4 DEF CancelOpens, RequestIs, Opened
    <3> QED
      BY <1>2, <3>1, RecordsHeld DEF History, HistoryAt, HistoryOf, Readable
  <2>5. CASE CancelFills(r, j)
    <3>1. PICK s \in Snapshot : s.node_events = request[r].cur.node_events /\ Written(r, j, s)
      BY <2>5 DEF CancelFills
    <3>2. /\ request[r].pc = "cancel_fill" /\ request[r].job = j /\ request'[r].pc = "idle"
      BY <2>5 DEF CancelFills, RequestIs
    <3>3. Truthful(s, worker[j].pc, thread[j])
      BY <3>1, <3>2, SameLog DEF History, HistoryOf
    <3>4. file'[j] = file[j] \/ file'[j] \in {s, Torn}
      BY <3>1 DEF Written, Filled
    <3> QED
      BY <1>2, <3>2, <3>3, <3>4, RecordsHeld DEF History, HistoryAt, HistoryOf, Readable
  <2> QED
    BY <2>1, <2>2, <2>3, <2>4, <2>5 DEF RequestEffect
<1>5. ASSUME NEW i \in Jobs PROVE HistoryAt(i)'
  BY <1>2, <1>3, <1>4, RecordsHeld DEF History, HistoryAt, Readable
<1>6. ASSUME NEW q \in Requests \ {r} PROVE HistoryOf(q)'
  BY <1>2, <1>3, RecordsHeld DEF History, HistoryOf
<1> QED
  BY <1>4, <1>5, <1>6 DEF History

LEMMA CrashKeepsHistory ==
    ASSUME Inductive, History, Dies
    PROVE  History'
<1>1. Effect
  BY DEF Effect
<1>2. \A i \in Jobs, s \in Snapshot :
         Truthful(s, worker[i].pc, thread[i]) => Truthful(s, worker'[i].pc, thread'[i])
  BY <1>1, RecordsStayTruthful
<1>3. /\ file' = file
      /\ \A i \in Jobs : worker'[i].pc \notin {"open", "fill"}
      /\ \A i \in Jobs, n \in Nodes : thread'[i][n].pc = "waiting"
      /\ \A r \in Requests : request'[r].pc = "idle"
  BY DEF Dies, IdleThread, IdleRequest
<1> QED
  BY <1>2, <1>3, RecordsHeld DEF History, HistoryAt, HistoryOf, Readable

LEMMA HistoryInit == Init => History
  BY DEF Init, History, HistoryAt, HistoryOf, Readable, UnbornWorker, IdleThread, IdleRequest

LEMMA HistoryStep == Inductive /\ History /\ [Next]_vars => History'
<1> SUFFICES ASSUME Inductive, History, [Next]_vars
             PROVE  History'
  OBVIOUS
<1>1. CASE Next
  <2>1. Effect
    BY <1>1, StepEffect
  <2> QED
    BY <2>1, TaskKeepsHistory, CallbackKeepsHistory, RequestKeepsHistory, CrashKeepsHistory
       DEF Effect
<1>2. CASE UNCHANGED vars
  BY <1>2 DEF vars, History, HistoryAt, HistoryOf, Readable
<1> QED
  BY <1>1, <1>2

\* However cancels, deletes and crashes interleave with them, the callbacks of
\* a job's nodes (append_node_event) never record an event twice, nor one of a
\* node after its end: a record that a stale write brings back is extended as
\* it was, and what it may say of a node is behind the node's callbacks.
THEOREM EventsAlwaysInOrder == Spec => []EventsInOrder
<1>1. Init => History
  BY HistoryInit
<1>2. Inductive /\ History /\ [Next]_vars => History'
  BY HistoryStep, SMTT(30)
<1>3. History => EventsInOrder
  BY DEF History, HistoryAt, Truthful, Ordered, EventsInOrder
<1> QED
  BY <1>1, <1>2, <1>3, InductiveInvariant, PTL DEF Spec

-----------------------------------------------------------------------------
(* Where the artifacts are.                                                *)

\* Only the last update of the task names an artifact directory.
NamesRun(s, pc) == s.run # "none" => pc = "returned"

RunsNamedAt(j) ==
    /\ Readable(j) => NamesRun(file[j], worker[j].pc)
    /\ worker[j].pc \in {"open", "fill"} => NamesRun(worker[j].cur, worker[j].pc)
    /\ \A n \in Nodes : thread[j][n].pc \in {"open", "fill"} =>
          NamesRun(thread[j][n].cur, worker[j].pc)

RunsNamedOf(r) ==
    request[r].pc \in {"cancel_open", "cancel_fill", "rmtree"} =>
        NamesRun(request[r].cur, worker[request[r].job].pc)

RunsNamed == (\A j \in Jobs : RunsNamedAt(j)) /\ (\A r \in Requests : RunsNamedOf(r))

\* A task that has returned stays so.
LEMMA ReturnedForGood ==
    ASSUME Inductive, Effect, NEW j \in Jobs, worker[j].pc = "returned"
    PROVE  worker'[j] = worker[j]
<1>1. ASSUME NEW i \in Jobs, TaskEffect(i) PROVE worker'[j] = worker[j]
  BY <1>1 DEF TaskEffect, Checks, Reads, Opens, Fills, Succeeds, RaisesError, TaskIs
<1>2. ASSUME NEW i \in Jobs, NEW n \in Nodes, CallbackEffect(i, n) PROVE worker'[j] = worker[j]
  BY <1>2 DEF CallbackEffect, Emits, Gets, Rereads, AppendOpens, AppendFills
<1>3. ASSUME NEW r \in Requests, NEW i \in Jobs, RequestEffect(r, i) PROVE worker'[j] = worker[j]
  BY <1>3 DEF RequestEffect, Retries, Creates, CreateFills, Responds, CancelGets, CancelReads,
     CancelOpens, CancelFills, DeleteGets, DeletesTree, Unlinks, TaskIs
<1>4. CASE Dies
  BY <1>4 DEF Dies
<1> QED
  BY <1>1, <1>2, <1>3, <1>4 DEF Effect

LEMMA TaskKeepsRunsNamed ==
    ASSUME Inductive, RunsNamed, NEW j \in Jobs, TaskEffect(j)
    PROVE  RunsNamed'
<1>1. \A i \in Jobs : worker[i].pc = "returned" => worker'[i] = worker[i]
  BY ReturnedForGood DEF Effect
<1>2. /\ thread' = thread /\ request' = request
      /\ \A i \in Jobs \ {j} : worker'[i] = worker[i] /\ file'[i] = file[i]
  BY DEF TaskEffect, Checks, Reads, Opens, Fills, Succeeds, RaisesError, TaskIs, Opened, Written, Filled
<1>3. /\ Readable(j)' => NamesRun(file'[j], worker'[j].pc)
      /\ worker'[j].pc \in {"open", "fill"} => NamesRun(worker'[j].cur, worker'[j].pc)
  <2>1. CASE Checks(j) \/ Succeeds(j) \/ RaisesError(j)
    BY <1>1, <2>1 DEF Checks, Succeeds, RaisesError, TaskIs, RunsNamed, RunsNamedAt, NamesRun, Readable
  <2>2. CASE Reads(j)
    BY <1>1, <2>2 DEF Reads, TaskIs, RunsNamed, RunsNamedAt, NamesRun, Readable
  <2>3. CASE Opens(j)
    BY <1>1, <2>3 DEF Opens, Opened, TaskIs, RunsNamed, RunsNamedAt, NamesRun, Readable
  <2>4. CASE Fills(j)
    <3>1. PICK s : TaskWrites(worker[j].goal, worker[j].cur, s) /\ Written(j, j, s)
      BY <2>4 DEF Fills
    <3>2. /\ worker[j].pc = "fill" /\ worker'[j].pc \notin {"open", "fill"}
          /\ worker[j].goal # "RUNNING" => worker'[j].pc = "returned"
      BY <2>4 DEF Fills, TaskIs
    <3>3. NamesRun(s, worker'[j].pc)
      BY <3>1, <3>2 DEF TaskWrites, RunsNamed, RunsNamedAt, NamesRun
    <3>4. file'[j] = file[j] \/ file'[j] \in {s, Torn}
      BY <3>1 DEF Written, Filled
    <3>5. Readable(j)' => file'[j] = s \/ (Readable(j) /\ file'[j] = file[j])
      BY <3>4 DEF Readable
    <3>6. Readable(j) => NamesRun(file[j], worker'[j].pc)
      BY <3>2 DEF RunsNamed, RunsNamedAt, NamesRun
    <3> QED
      BY <3>2, <3>3, <3>5, <3>6
  <2> QED
    BY <2>1, <2>2, <2>3, <2>4 DEF TaskEffect
<1>4. ASSUME NEW i \in Jobs PROVE RunsNamedAt(i)'
  <2>1. \A n \in Nodes : thread'[i][n].pc \in {"open", "fill"} =>
           NamesRun(thread'[i][n].cur, worker'[i].pc)
    BY <1>1, <1>2 DEF RunsNamed, RunsNamedAt, NamesRun
  <2>2. CASE i = j
    BY <1>3, <2>1, <2>2 DEF RunsNamedAt
  <2>3. CASE i # j
    BY <1>2, <2>1, <2>3 DEF RunsNamed, RunsNamedAt, Readable
  <2> QED
    BY <2>2, <2>3
<1>5. ASSUME NEW r \in Requests PROVE RunsNamedOf(r)'
  BY <1>1, <1>2, RecordsHeld DEF RunsNamed, RunsNamedOf, NamesRun
<1> QED
  BY <1>4, <1>5 DEF RunsNamed

LEMMA CallbackKeepsRunsNamed ==
    ASSUME Inductive, RunsNamed, NEW j \in Jobs, NEW n \in Nodes, CallbackEffect(j, n)
    PROVE  RunsNamed'
<1>1. /\ worker' = worker /\ request' = request
      /\ \A i \in Jobs \ {j} : file'[i] = file[i]
      /\ \A i \in Jobs, m \in Nodes : <<i, m>> # <<j, n>> => thread'[i][m] = thread[i][m]
  BY DEF CallbackEffect, Emits, Gets, Rereads, AppendOpens, AppendFills, Opened, Written, Filled,
     CallbackBecomes
<1>2. /\ Readable(j)' => NamesRun(file'[j], worker[j].pc)
      /\ thread'[j][n].pc \in {"open", "fill"} => NamesRun(thread'[j][n].cur, worker[j].pc)
  <2>1. CASE \/ \E event \in {"start", "done", "error"} : Emits(j, n, event)
             \/ Gets(j, n)
    <3>1. file' = file /\ thread'[j][n].pc \notin {"open", "fill"}
      BY <2>1 DEF Emits, Gets, CallbackBecomes, AfterEvent
    <3> QED
      BY <3>1 DEF RunsNamed, RunsNamedAt, Readable
  <2>2. CASE Rereads(j, n)
    <3>1. file' = file /\ (thread'[j][n].pc \in {"open", "fill"} =>
                              Readable(j) /\ thread'[j][n].cur = file[j])
      BY <2>2 DEF Rereads, CallbackBecomes, AfterEvent
    <3> QED
      BY <3>1 DEF RunsNamed, RunsNamedAt, Readable
  <2>3. CASE AppendOpens(j, n)
    <3>1. /\ file'[j] = Empty /\ thread[j][n].pc = "open"
          /\ thread'[j][n].cur = thread[j][n].cur
      BY <2>3 DEF AppendOpens, CallbackBecomes, Opened
    <3> QED
      BY <3>1 DEF RunsNamed, RunsNamedAt, Readable
  <2>4. CASE AppendFills(j, n)
    <3>1. PICK s : CallbackWrites(n, thread[j][n], s) /\ Written(<<j, n>>, j, s)
      BY <2>4 DEF AppendFills
    <3>2. thread[j][n].pc = "fill" /\ thread'[j][n].pc \notin {"open", "fill"}
      BY <2>4 DEF AppendFills, CallbackBecomes, AfterEvent
    <3>3. NamesRun(s, worker[j].pc)
      BY <3>1, <3>2 DEF CallbackWrites, RunsNamed, RunsNamedAt, NamesRun
    <3>4. Readable(j)' => file'[j] = s \/ (Readable(j) /\ file'[j] = file[j])
      BY <3>1 DEF Written, Filled, Readable
    <3> QED
      BY <3>2, <3>3, <3>4 DEF RunsNamed, RunsNamedAt
  <2> QED
    BY <2>1, <2>2, <2>3, <2>4 DEF CallbackEffect
<1>3. ASSUME NEW i \in Jobs, NEW m \in Nodes, thread'[i][m].pc \in {"open", "fill"}
      PROVE  NamesRun(thread'[i][m].cur, worker'[i].pc)
  BY <1>1, <1>2, <1>3 DEF RunsNamed, RunsNamedAt
<1>4. ASSUME NEW i \in Jobs PROVE RunsNamedAt(i)'
  BY <1>1, <1>2, <1>3 DEF RunsNamed, RunsNamedAt, Readable
<1>5. ASSUME NEW r \in Requests PROVE RunsNamedOf(r)'
  BY <1>1 DEF RunsNamed, RunsNamedOf
<1> QED
  BY <1>4, <1>5 DEF RunsNamed

LEMMA RequestKeepsRunsNamed ==
    ASSUME Inductive, RunsNamed, NEW r \in Requests, NEW j \in Jobs, RequestEffect(r, j)
    PROVE  RunsNamed'
<1>1. \A i \in Jobs : worker[i].pc = "returned" => worker'[i] = worker[i]
  BY ReturnedForGood DEF Effect
<1>2. /\ thread' = thread
      /\ \A q \in Requests \ {r} : request'[q] = request[q]
      /\ \A i \in Jobs \ {j} : worker'[i] = worker[i] /\ file'[i] = file[i]
      /\ worker'[j] = worker[j] \/ worker'[j].pc \in {"created", "check"}
  BY DEF RequestEffect, Retries, Creates, CreateFills, Responds, CancelGets, CancelReads,
     CancelOpens, CancelFills, DeleteGets, DeletesTree, Unlinks, TaskIs, RequestIs, Opened,
     Written, Filled
<1>3. Readable(j)' => NamesRun(file'[j], worker'[j].pc)
  <2>1. CASE Retries(r) \/ Responds(r, j) \/ CancelGets(r, j) \/ DeleteGets(r, j)
             \/ DeletesTree(r, j) \/ Creates(r, j) \/ Unlinks(r, j) \/ CancelReads(r, j)
             \/ CancelOpens(r, j)
    <3>1. file' = file \/ file'[j] \in {Empty, None}
      BY <2>1 DEF Retries, Responds, CancelGets, DeleteGets, DeletesTree, Creates, Unlinks,
         Opened, CancelReads, CancelOpens
    <3> QED
      BY <1>1, <3>1 DEF RunsNamed, RunsNamedAt, NamesRun, Readable
  <2>2. CASE CreateFills(r, j)
    <3>1. file'[j] = file[j] \/ file'[j] \in {NewSnapshot, Torn}
      BY <2>2 DEF CreateFills, Written, Filled
    <3>2. NamesRun(NewSnapshot, worker'[j].pc)
      BY DEF NewSnapshot, NamesRun
    <3> QED
      BY <1>1, <3>1, <3>2 DEF RunsNamed, RunsNamedAt, NamesRun, Readable
  <2>3. CASE CancelFills(r, j)
    <3>1. PICK s : s.run = request[r].cur.run /\ Written(r, j, s)
      BY <2>3 DEF CancelFills
    <3>2. request[r].pc = "cancel_fill" /\ request[r].job = j
      BY <2>3 DEF CancelFills
    <3>3. NamesRun(s, worker'[j].pc)
      BY <1>1, <3>1, <3>2 DEF RunsNamed, RunsNamedOf, NamesRun
    <3>4. Readable(j)' => file'[j] = s \/ (Readable(j) /\ file'[j] = file[j])
      BY <3>1 DEF Written, Filled, Readable
    <3> QED
      BY <1>1, <3>3, <3>4 DEF RunsNamed, RunsNamedAt, NamesRun
  <2> QED
    BY <2>1, <2>2, <2>3 DEF RequestEffect
<1>4. RunsNamedOf(r)'
  <2>1. CASE CancelReads(r, j) \/ DeleteGets(r, j)
    <3>1. \/ /\ Readable(j) /\ request'[r].cur = file[j] /\ request'[r].job = j
             /\ worker'[j] = worker[j]
          \/ request'[r].pc = "idle"
      BY <2>1 DEF CancelReads, DeleteGets, RequestIs, HasStatus
    <3> QED
      BY <3>1 DEF RunsNamed, RunsNamedAt, RunsNamedOf
  <2>2. CASE CancelOpens(r, j)
    <3>1. /\ request[r].pc = "cancel_open" /\ request[r].job = j /\ worker' = worker
          /\ request'[r].cur = request[r].cur /\ request'[r].job = j
      BY <2>2 DEF CancelOpens, RequestIs
    <3> QED
      BY <3>1 DEF RunsNamed, RunsNamedOf
  <2>3. CASE ~(CancelReads(r, j) \/ DeleteGets(r, j) \/ CancelOpens(r, j))
    <3>1. request'[r].pc \notin {"cancel_open", "cancel_fill", "rmtree"}
      BY <2>3 DEF RequestEffect, Retries, Creates, CreateFills, Responds, CancelGets,
         CancelFills, DeletesTree, Unlinks, RequestIs
    <3> QED
      BY <3>1 DEF RunsNamedOf
  <2> QED
    BY <2>1, <2>2, <2>3
<1>5. ASSUME NEW i \in Jobs PROVE RunsNamedAt(i)'
  <2>1. \A n \in Nodes : thread'[i][n].pc \in {"open", "fill"} =>
           NamesRun(thread'[i][n].cur, worker'[i].pc)
    BY <1>1, <1>2 DEF RunsNamed, RunsNamedAt, NamesRun
  <2>2. CASE i = j
    <3>1. worker'[i].pc \in {"open", "fill"} => NamesRun(worker'[i].cur, worker'[i].pc)
      BY <1>2, <2>2 DEF RunsNamed, RunsNamedAt
    <3> QED
      BY <1>3, <2>1, <2>2, <3>1 DEF RunsNamedAt
  <2>3. CASE i # j
    BY <1>2, <2>1, <2>3 DEF RunsNamed, RunsNamedAt, Readable
  <2> QED
    BY <2>2, <2>3
<1>6. ASSUME NEW q \in Requests \ {r} PROVE RunsNamedOf(q)'
  BY <1>1, <1>2, RecordsHeld DEF RunsNamed, RunsNamedOf, NamesRun
<1> QED
  BY <1>4, <1>5, <1>6 DEF RunsNamed

LEMMA CrashKeepsRunsNamed ==
    ASSUME Inductive, RunsNamed, Dies
    PROVE  RunsNamed'
<1>1. \A i \in Jobs : worker[i].pc = "returned" => worker'[i] = worker[i]
  BY ReturnedForGood DEF Effect
<1>2. /\ file' = file
      /\ \A i \in Jobs : worker'[i].pc \notin {"open", "fill"}
      /\ \A i \in Jobs, n \in Nodes : thread'[i][n].pc = "waiting"
      /\ \A r \in Requests : request'[r].pc = "idle"
  BY DEF Dies, IdleThread, IdleRequest
<1> QED
  BY <1>1, <1>2 DEF RunsNamed, RunsNamedAt, RunsNamedOf, NamesRun, Readable

LEMMA RunsNamedInit == Init => RunsNamed
  BY DEF Init, RunsNamed, RunsNamedAt, RunsNamedOf, Readable, UnbornWorker, IdleThread, IdleRequest

LEMMA RunsNamedStep == Inductive /\ RunsNamed /\ [Next]_vars => RunsNamed'
<1> SUFFICES ASSUME Inductive, RunsNamed, [Next]_vars
             PROVE  RunsNamed'
  OBVIOUS
<1>1. CASE Next
  <2>1. Effect
    BY <1>1, StepEffect
  <2> QED
    BY <2>1, TaskKeepsRunsNamed, CallbackKeepsRunsNamed, RequestKeepsRunsNamed, CrashKeepsRunsNamed
       DEF Effect
<1>2. CASE UNCHANGED vars
  BY <1>2 DEF vars, RunsNamed, RunsNamedAt, RunsNamedOf, Readable
<1> QED
  BY <1>1, <1>2

BeingDeleted(j) == \E r \in Requests : request[r].pc = "unlink" /\ request[r].job = j

ArtifactsOf(j) ==
    /\ worker[j].pc = "workflow" => worker[j].goal = "RUNNING"
    /\ worker[j].goal = "SUCCEEDED" /\ crashes = 0 => \A n \in Nodes : thread[j][n].event = "done"
    /\ worker[j].goal = "SUCCEEDED" /\ worker[j].pc \in {"recheck", "read", "open", "fill"} =>
          dir[j] = "present"
    /\ HasStatus(j, {"SUCCEEDED"}) =>
          /\ worker[j].pc = "returned" /\ worker[j].goal = "SUCCEEDED"
          /\ file[j].run = "complete"
          /\ dir[j] = "present" \/ BeingDeleted(j) \/ crashes > 0

Artifacts == \A j \in Jobs : ArtifactsOf(j)

LEMMA TaskKeepsArtifacts ==
    ASSUME Inductive, Artifacts, NEW j \in Jobs, TaskEffect(j)
    PROVE  Artifacts'
<1>1. /\ thread' = thread /\ request' = request /\ crashes' = crashes
      /\ \A i \in Jobs \ {j} : worker'[i] = worker[i] /\ file'[i] = file[i] /\ dir'[i] = dir[i]
  BY DEF TaskEffect, Checks, Reads, Opens, Fills, Succeeds, RaisesError, TaskIs, Opened, Written,
     Filled, DirIs
<1>2. ArtifactsOf(j)
  BY DEF Artifacts
<1>3. HasStatus(j, {"SUCCEEDED"}) => worker[j].pc = "returned"
  BY <1>2 DEF ArtifactsOf
<1>4. ArtifactsOf(j)'
  <2>1. CASE Checks(j) \/ Reads(j)
    <3>1. /\ file' = file /\ dir' = dir /\ worker'[j].goal = worker[j].goal
          /\ worker[j].pc \in {"check", "recheck", "read"}
          /\ worker'[j].pc \in {"raised", "returned", "read", "open"}
          /\ worker[j].pc = "check" => worker[j].goal = "RUNNING"
      BY <2>1 DEF Checks, Reads, TaskIs, Inductive, IInv, TaskAims
    <3>2. ~HasStatus(j, {"SUCCEEDED"})'
      BY <1>3, <3>1 DEF HasStatus, Readable
    <3> QED
      BY <1>1, <1>2, <3>1, <3>2 DEF ArtifactsOf
  <2>2. CASE Opens(j)
    BY <1>1, <1>2, <2>2 DEF Opens, Opened, TaskIs, ArtifactsOf, HasStatus, Readable
  <2>3. CASE Fills(j)
    <3>1. PICK s : TaskWrites(worker[j].goal, worker[j].cur, s) /\ Written(j, j, s)
      BY <2>3 DEF Fills
    <3>2. /\ worker[j].pc = "fill" /\ worker'[j].goal = worker[j].goal /\ dir' = dir
          /\ worker'[j].pc = IF worker[j].goal = "RUNNING" THEN "workflow" ELSE "returned"
      BY <2>3 DEF Fills, TaskIs
    <3>3. HasStatus(j, {"SUCCEEDED"})' => file'[j] = s
      BY <1>3, <3>1, <3>2 DEF Written, Filled, HasStatus, Readable
    <3>4. file'[j] = s /\ s.status = "SUCCEEDED" =>
             worker[j].goal = "SUCCEEDED" /\ s.run = "complete"
      BY <3>1 DEF TaskWrites
    <3>5. HasStatus(j, {"SUCCEEDED"})' => /\ worker[j].goal = "SUCCEEDED" /\ dir[j] = "present"
                                          /\ file'[j].run = "complete"
      BY <1>2, <3>2, <3>3, <3>4 DEF HasStatus, ArtifactsOf
    <3>6. /\ worker'[j].pc = "workflow" => worker'[j].goal = "RUNNING"
          /\ worker'[j].pc \notin {"recheck", "read", "open", "fill"}
          /\ worker'[j].goal = "SUCCEEDED" => worker'[j].pc = "returned"
      BY <3>2
    <3> QED
      BY <1>1, <1>2, <3>2, <3>5, <3>6 DEF ArtifactsOf
  <2>4. CASE Succeeds(j)
    BY <1>1, <1>3, <2>4 DEF Succeeds, TaskIs, DirIs, ArtifactsOf, HasStatus, Readable
  <2>5. CASE RaisesError(j)
    BY <1>1, <1>3, <2>5 DEF RaisesError, TaskIs, DirIs, ArtifactsOf, HasStatus, Readable
  <2> QED
    BY <2>1, <2>2, <2>3, <2>4, <2>5 DEF TaskEffect
<1>5. ASSUME NEW i \in Jobs \ {j} PROVE ArtifactsOf(i)'
  BY <1>1 DEF Artifacts, ArtifactsOf, HasStatus, Readable, BeingDeleted
<1> QED
  BY <1>4, <1>5 DEF Artifacts

LEMMA CallbackKeepsArtifacts ==
    ASSUME Inductive, Artifacts, NEW j \in Jobs, NEW n \in Nodes, CallbackEffect(j, n)
    PROVE  Artifacts'
<1>1. /\ worker' = worker /\ request' = request /\ crashes' = crashes /\ dir' = dir
      /\ \A i \in Jobs \ {j} : file'[i] = file[i]
      /\ \A i \in Jobs, m \in Nodes : <<i, m>> # <<j, n>> => thread'[i][m] = thread[i][m]
  BY DEF CallbackEffect, Emits, Gets, Rereads, AppendOpens, AppendFills, Opened, Written, Filled,
     CallbackBecomes
<1>2. ArtifactsOf(j) /\ CallbackLocked(j, n)
  BY DEF Artifacts, Inductive, IInv, CallbacksLocked
<1>3. worker[j].goal # "RUNNING" => thread'[j][n].event = thread[j][n].event
  BY <1>2 DEF ArtifactsOf, CallbackEffect, Emits, Gets, Rereads, AppendOpens, AppendFills,
     CallbackBecomes
<1>4. HasStatus(j, {"SUCCEEDED"})' => HasStatus(j, {"SUCCEEDED"}) /\ file'[j] = file[j]
  <2>1. CASE AppendOpens(j, n)
    BY <2>1 DEF AppendOpens, Opened, HasStatus, Readable
  <2>2. CASE AppendFills(j, n)
    <3>1. PICK s : CallbackWrites(n, thread[j][n], s) /\ Written(<<j, n>>, j, s)
      BY <2>2 DEF AppendFills
    <3>2. thread[j][n].pc = "fill"
      BY <2>2 DEF AppendFills
    <3>3. s.status \in {"RUNNING", "CANCELED"}
      BY <1>2, <3>1, <3>2 DEF CallbackWrites, CallbackLocked
    <3> QED
      BY <3>1, <3>3 DEF Written, Filled, HasStatus, Readable
  <2>3. CASE file' = file
    BY <2>3 DEF HasStatus, Readable
  <2> QED
    BY <2>1, <2>2, <2>3 DEF CallbackEffect, Emits, Gets, Rereads
<1>5. ArtifactsOf(j)'
  <2>1. \A m \in Nodes : m # n => thread'[j][m] = thread[j][m]
    BY <1>1
  <2>2. HasStatus(j, {"SUCCEEDED"})' =>
          /\ worker'[j].pc = "returned" /\ worker'[j].goal = "SUCCEEDED"
          /\ file'[j].run = "complete"
          /\ dir'[j] = "present" \/ BeingDeleted(j)' \/ crashes' > 0
    BY <1>1, <1>2, <1>4 DEF ArtifactsOf, BeingDeleted
  <2> QED
    BY <1>1, <1>2, <1>3, <2>1, <2>2 DEF ArtifactsOf
<1>6. ASSUME NEW i \in Jobs \ {j} PROVE ArtifactsOf(i)'
  BY <1>1 DEF Artifacts, ArtifactsOf, HasStatus, Readable, BeingDeleted
<1> QED
  BY <1>5, <1>6 DEF Artifacts

LEMMA RequestKeepsArtifacts ==
    ASSUME Inductive, RunsNamed, Artifacts, NEW r \in Requests, NEW j \in Jobs, RequestEffect(r, j)
    PROVE  Artifacts'
<1>1. /\ thread' = thread /\ crashes' = crashes
      /\ \A q \in Requests \ {r} : request'[q] = request[q]
      /\ \A i \in Jobs \ {j} : worker'[i] = worker[i] /\ file'[i] = file[i] /\ dir'[i] = dir[i]
      /\ worker'[j] = worker[j] \/ worker'[j].pc \in {"created", "check"}
      /\ worker'[j].goal = worker[j].goal
  BY DEF RequestEffect, Retries, Creates, CreateFills, Responds, CancelGets, CancelReads,
     CancelOpens, CancelFills, DeleteGets, DeletesTree, Unlinks, TaskIs, RequestIs, Opened,
     Written, Filled, DirIs
<1>2. /\ ArtifactsOf(j)
      /\ worker[j].pc = "returned" => worker'[j] = worker[j]
  BY ReturnedForGood DEF Artifacts, Effect
<1>3. dir'[j] # dir[j] => /\ worker[j].pc = "returned"
                          /\ request'[r].pc = "unlink" /\ request'[r].job = j
  BY DEF RequestEffect, Retries, Creates, CreateFills, Responds, CancelGets, CancelReads,
     CancelOpens, CancelFills, DeleteGets, DeletesTree, Unlinks, RequestIs, RunsNamed,
     RunsNamedOf, NamesRun
<1>4. ASSUME NEW i \in Jobs, BeingDeleted(i) PROVE BeingDeleted(i)' \/ file'[i] = None
  <2>1. PICK q \in Requests : request[q].pc = "unlink" /\ request[q].job = i
    BY <1>4 DEF BeingDeleted
  <2>2. CASE q # r
    BY <1>1, <2>1, <2>2 DEF BeingDeleted
  <2>3. CASE q = r
    <3>1. Unlinks(r, j)
      BY <2>1, <2>3 DEF RequestEffect, Retries, Creates, CreateFills, Responds, CancelGets,
         CancelReads, CancelOpens, CancelFills, DeleteGets, DeletesTree
    <3> QED
      BY <2>1, <2>3, <3>1 DEF Unlinks
  <2> QED
    BY <2>2, <2>3
<1>5. HasStatus(j, {"SUCCEEDED"})' => HasStatus(j, {"SUCCEEDED"}) /\ file'[j] = file[j]
  <2>1. CASE CreateFills(r, j)
    <3>1. file'[j] = file[j] \/ file'[j] \in {NewSnapshot, Torn}
      BY <2>1 DEF CreateFills, Written, Filled
    <3>2. NewSnapshot.status # "SUCCEEDED"
      BY DEF NewSnapshot
    <3> QED
      BY <3>1, <3>2 DEF HasStatus, Readable
  <2>2. CASE CancelFills(r, j)
    BY <2>2 DEF CancelFills, Written, Filled, HasStatus, Readable
  <2>3. CASE file' = file \/ file'[j] \in {Empty, None}
    BY <2>3 DEF HasStatus, Readable
  <2> QED
    BY <2>1, <2>2, <2>3 DEF RequestEffect, Retries, Creates, Responds, CancelGets, CancelReads,
       CancelOpens, DeleteGets, DeletesTree, Unlinks, Opened
<1>6. ArtifactsOf(j)'
  <2>1. CASE worker'[j] = worker[j]
    <3>1. HasStatus(j, {"SUCCEEDED"})' =>
              dir'[j] = "present" \/ BeingDeleted(j)' \/ crashes' > 0
      <4>1. CASE dir'[j] = dir[j]
        <5>1. HasStatus(j, {"SUCCEEDED"})' => Readable(j)'
          BY DEF HasStatus
        <5> QED
          BY <1>1, <1>2, <1>4, <1>5, <4>1, <5>1 DEF ArtifactsOf, Readable
      <4>2. CASE dir'[j] # dir[j]
        BY <1>3, <4>2 DEF BeingDeleted
      <4> QED
        BY <4>1, <4>2
    <3>2. HasStatus(j, {"SUCCEEDED"})' =>
              /\ worker'[j].pc = "returned" /\ worker'[j].goal = "SUCCEEDED"
              /\ file'[j].run = "complete"
      BY <1>2, <1>5, <2>1 DEF ArtifactsOf
    <3>3. worker[j].pc \in {"recheck", "read", "open", "fill"} => dir'[j] = dir[j]
      BY <1>3
    <3> QED
      BY <1>1, <1>2, <2>1, <3>1, <3>2, <3>3 DEF ArtifactsOf
  <2>2. CASE worker'[j].pc \in {"created", "check"}
    <3>1. ~HasStatus(j, {"SUCCEEDED"})'
      BY <1>2, <1>5, <2>2 DEF ArtifactsOf
    <3> QED
      BY <1>1, <1>2, <2>2, <3>1 DEF ArtifactsOf
  <2> QED
    BY <1>1, <2>1, <2>2
<1>7. ASSUME NEW i \in Jobs \ {j} PROVE ArtifactsOf(i)'
  <2>1. /\ ArtifactsOf(i) /\ HasStatus(i, {"SUCCEEDED"})' = HasStatus(i, {"SUCCEEDED"})
        /\ HasStatus(i, {"SUCCEEDED"}) => file'[i] # None
    BY <1>1 DEF Artifacts, HasStatus, Readable
  <2> QED
    BY <1>1, <1>4, <2>1 DEF ArtifactsOf
<1> QED
  BY <1>6, <1>7 DEF Artifacts

LEMMA CrashKeepsArtifacts ==
    ASSUME Inductive, Artifacts, Dies
    PROVE  Artifacts'
<1>1. /\ file' = file /\ dir' = dir /\ crashes' > 0
      /\ \A i \in Jobs : /\ worker'[i].pc \notin {"workflow", "recheck", "read", "open", "fill"}
                         /\ worker[i].pc = "returned" => worker'[i] = worker[i]
  <2>1. crashes \in Nat
    BY DEF Inductive, TypeOK
  <2> QED
    BY <2>1 DEF Dies
<1>2. ASSUME NEW i \in Jobs PROVE ArtifactsOf(i)'
  <2>1. ArtifactsOf(i) /\ HasStatus(i, {"SUCCEEDED"})' = HasStatus(i, {"SUCCEEDED"})
    BY <1>1 DEF Artifacts, HasStatus, Readable
  <2>2. crashes' # 0
    BY <1>1
  <2> QED
    BY <1>1, <2>1, <2>2 DEF ArtifactsOf
<1> QED
  BY <1>2 DEF Artifacts

LEMMA ArtifactsInit == Init => Artifacts
  BY DEF Init, Artifacts, ArtifactsOf, HasStatus, Readable, UnbornWorker

LEMMA ArtifactsStep == Inductive /\ RunsNamed /\ Artifacts /\ [Next]_vars => Artifacts'
<1> SUFFICES ASSUME Inductive, RunsNamed, Artifacts, [Next]_vars
             PROVE  Artifacts'
  OBVIOUS
<1>1. CASE Next
  <2>1. Effect
    BY <1>1, StepEffect
  <2> QED
    BY <2>1, TaskKeepsArtifacts, CallbackKeepsArtifacts, RequestKeepsArtifacts, CrashKeepsArtifacts
       DEF Effect
<1>2. CASE UNCHANGED vars
  BY <1>2 DEF vars, Artifacts, ArtifactsOf, HasStatus, Readable, BeingDeleted
<1> QED
  BY <1>1, <1>2

\* A job shown as SUCCEEDED (run_job) ran all its nodes to their end, names its
\* directory, and the directory is there unless delete_job is past removing it
\* or the server died: no record that names a directory is ever held by a
\* client while the task still has something to write, so no delete_job can
\* take the directory of a run that is yet to succeed.
THEOREM SuccessAlwaysHasArtifacts == Spec => []SuccessHasArtifacts
<1>1. Init => RunsNamed /\ Artifacts
  BY RunsNamedInit, ArtifactsInit
<1>2. Inductive /\ (RunsNamed /\ Artifacts) /\ [Next]_vars => (RunsNamed /\ Artifacts)'
  BY RunsNamedStep, ArtifactsStep
<1>3. RunsNamed /\ Artifacts => SuccessHasArtifacts
  BY DEF Artifacts, ArtifactsOf, BeingDeleted, SuccessHasArtifacts
<1> QED
  BY <1>1, <1>2, <1>3, InductiveInvariant, PTL DEF Spec

-----------------------------------------------------------------------------
(* Without cancels and crashes a job's file has one writer at a time, and  *)
(* what clients are shown follows the lifecycle they are promised.         *)

\* What the file says before the task's next update.
Before(goal) == IF goal = "RUNNING" THEN "QUEUED" ELSE "RUNNING"

\* What the record shown to clients has of a node.
MustHave(t) ==
    CASE t.pc = "over" -> {"start", t.event}
      [] t.pc # "over" /\ t.pc # "waiting" /\ (t.pc = "body" \/ t.event # "start") -> {"start"}
      [] OTHER -> {}

Reported(s, t) == \A n \in Nodes : \A e \in MustHave(t[n]) : <<n, e>> \in SeenIn(s.node_events)

TaskAlone(j) ==
    /\ worker[j].pc \notin {"raised", "killed"}
    /\ worker[j].cur # None => worker[j].pc \in {"open", "fill"}
    /\ worker[j].pc = "unborn" => file[j] = None
    /\ worker[j].pc = "created" => file[j] = Empty \/ HasStatus(j, {"QUEUED"})
    /\ worker[j].pc = "check" => HasStatus(j, {"QUEUED"})
    /\ worker[j].pc \in {"read", "open"} => HasStatus(j, {Before(worker[j].goal)})
    /\ worker[j].pc = "open" => worker[j].cur = file[j]
    /\ worker[j].pc = "fill" => /\ file[j] = Empty /\ j \in writers[j]
                                /\ worker[j].cur.status = Before(worker[j].goal)
    /\ worker[j].pc = "recheck" => HasStatus(j, {"RUNNING"})
    /\ worker[j].pc = "workflow" /\ (\A n \in Nodes : thread[j][n].pc # "fill") =>
          HasStatus(j, {"RUNNING"})
    /\ worker[j].pc = "workflow" => worker[j].goal = "RUNNING"
    /\ worker[j].goal = "SUCCEEDED" =>
          \A n \in Nodes : thread[j][n].pc = "over" /\ thread[j][n].event = "done"
    /\ worker[j].pc = "returned" =>
          /\ worker[j].goal # "RUNNING"
          /\ file[j] = None \/ HasStatus(j, {worker[j].goal})

CallbackAlone(j, n) ==
    /\ thread[j][n].pc = "reread" => thread[j][n].first = file[j]
    /\ thread[j][n].pc = "open" => thread[j][n].first = file[j] /\ thread[j][n].cur = file[j]
    /\ thread[j][n].pc = "fill" =>
          /\ file[j] = Empty /\ <<j, n>> \in writers[j]
          /\ thread[j][n].cur = thread[j][n].first /\ thread[j][n].cur.status = "RUNNING"

JobAlone(j) ==
    /\ TaskAlone(j)
    /\ lock[j] # None => thread[j][lock[j]].pc \in {"reread", "open", "fill"}
    /\ \A n \in Nodes : CallbackAlone(j, n)
    /\ Shown(j) # None => Reported(Shown(j), thread[j])

RequestAlone(r) ==
    /\ request[r].pc \notin {"cancel_read", "cancel_open", "cancel_fill"}
    /\ request[r].pc \in {"rmtree", "unlink"} => worker[request[r].job].pc = "returned"
    /\ request[r].pc = "create_fill" =>
          file[request[r].job] = Empty /\ r \in writers[request[r].job]
    /\ request[r].pc = "respond" => file[request[r].job] = NewSnapshot

Undisturbed == (\A j \in Jobs : JobAlone(j)) /\ (\A r \in Requests : RequestAlone(r))

\* What a client may be shown next of a job.
Moves(j) ==
    \/ StatusShown(j)' = StatusShown(j) /\ SeenShown(j)' = SeenShown(j)
    \/ /\ StatusShown(j) = "NONE" /\ StatusShown(j)' = "QUEUED"
       /\ SeenShown(j)' = SeenShown(j)
    \/ /\ StatusShown(j) = "QUEUED" /\ StatusShown(j)' = "RUNNING"
       /\ SeenShown(j)' = SeenShown(j)
    \/ /\ StatusShown(j) = "RUNNING" /\ StatusShown(j)' = "SUCCEEDED"
       /\ \A n \in Nodes : {<<n, "start">>, <<n, "done">>} \subseteq SeenShown(j)
       /\ SeenShown(j)' = SeenShown(j)
    \/ /\ StatusShown(j) = "RUNNING" /\ StatusShown(j)' = "FAILED"
       /\ SeenShown(j)' = SeenShown(j)
    \/ /\ StatusShown(j) \in {"SUCCEEDED", "FAILED"} /\ StatusShown(j)' = "GONE"
       /\ SeenShown(j)' = {}
    \/ /\ StatusShown(j) = "RUNNING" /\ StatusShown(j)' = "RUNNING"
       /\ \E n \in Nodes, event \in {"start", "done", "error"} :
             /\ \A e \in {"start", "done", "error"} :
                   <<n, e>> \in SeenShown(j) => e = "start" /\ event # "start"
             /\ event # "start" => <<n, "start">> \in SeenShown(j)
             /\ SeenShown(j)' = SeenShown(j) \cup {<<n, event>>}

LEMMA MovesAreTheLifecycle ==
    ASSUME NEW j \in Jobs, Moves(j),
           \A i \in Jobs \ {j} : StatusShown(i)' = StatusShown(i) /\ SeenShown(i)' = SeenShown(i)
    PROVE  [Lifecycle!Next]_(Lifecycle!lifecycleVars)
<1>1. /\ shownStatus[j] = StatusShown(j) /\ shownSeen[j] = SeenShown(j)
      /\ shownStatus' = [shownStatus EXCEPT ![j] = StatusShown(j)']
      /\ shownSeen' = [shownSeen EXCEPT ![j] = SeenShown(j)']
  BY DEF shownStatus, shownSeen
<1>2. /\ SeenShown(j)' = SeenShown(j) => shownSeen' = shownSeen
      /\ StatusShown(j)' = StatusShown(j) => shownStatus' = shownStatus
  BY DEF shownStatus, shownSeen
<1>3. CASE StatusShown(j)' = StatusShown(j) /\ SeenShown(j)' = SeenShown(j)
  BY <1>2, <1>3 DEF Lifecycle!lifecycleVars
<1>4. CASE /\ StatusShown(j) = "NONE" /\ StatusShown(j)' = "QUEUED"
           /\ SeenShown(j)' = SeenShown(j)
  <2>1. Lifecycle!Submit(j)
    BY <1>1, <1>2, <1>4 DEF Lifecycle!Submit, Lifecycle!Become
  <2> QED
    BY <2>1 DEF Lifecycle!Next
<1>5. CASE /\ StatusShown(j) = "QUEUED" /\ StatusShown(j)' = "RUNNING"
           /\ SeenShown(j)' = SeenShown(j)
  <2>1. Lifecycle!Start(j)
    BY <1>1, <1>2, <1>5 DEF Lifecycle!Start, Lifecycle!Become
  <2> QED
    BY <2>1 DEF Lifecycle!Next
<1>6. CASE /\ StatusShown(j) = "RUNNING" /\ StatusShown(j)' = "SUCCEEDED"
           /\ \A n \in Nodes : {<<n, "start">>, <<n, "done">>} \subseteq SeenShown(j)
           /\ SeenShown(j)' = SeenShown(j)
  <2>1. Lifecycle!Succeed(j)
    BY <1>1, <1>2, <1>6 DEF Lifecycle!Succeed, Lifecycle!Become
  <2> QED
    BY <2>1 DEF Lifecycle!Next
<1>7. CASE /\ StatusShown(j) = "RUNNING" /\ StatusShown(j)' = "FAILED"
           /\ SeenShown(j)' = SeenShown(j)
  <2>1. Lifecycle!Fail(j)
    BY <1>1, <1>2, <1>7 DEF Lifecycle!Fail, Lifecycle!Become
  <2> QED
    BY <2>1 DEF Lifecycle!Next
<1>8. CASE /\ StatusShown(j) \in {"SUCCEEDED", "FAILED"} /\ StatusShown(j)' = "GONE"
           /\ SeenShown(j)' = {}
  <2>1. Lifecycle!Remove(j)
    BY <1>1, <1>8 DEF Lifecycle!Remove, Lifecycle!Become
  <2> QED
    BY <2>1 DEF Lifecycle!Next
<1>9. ASSUME StatusShown(j) = "RUNNING", StatusShown(j)' = "RUNNING",
             NEW n \in Nodes, NEW event \in {"start", "done", "error"},
             \A e \in {"start", "done", "error"} :
                <<n, e>> \in SeenShown(j) => e = "start" /\ event # "start",
             event # "start" => <<n, "start">> \in SeenShown(j),
             SeenShown(j)' = SeenShown(j) \cup {<<n, event>>}
      PROVE  [Lifecycle!Next]_(Lifecycle!lifecycleVars)
  <2>1. shownStatus' = shownStatus
    BY <1>2, <1>9
  <2>2. Lifecycle!Report(j, n, event)
    BY <1>1, <1>9, <2>1 DEF Lifecycle!Report
  <2> QED
    BY <2>2 DEF Lifecycle!Next
<1> QED
  BY <1>3, <1>4, <1>5, <1>6, <1>7, <1>8, <1>9 DEF Moves

LEMMA ShownIs ==
    ASSUME NEW j \in Jobs
    PROVE  /\ Readable(j) => Shown(j) = file[j]
           /\ ~Readable(j) /\ worker[j].cur # None => Shown(j) = worker[j].cur
           /\ ~Readable(j) /\ worker[j].cur = None /\ lock[j] # None =>
                 Shown(j) = thread[j][lock[j]].cur
           /\ ~Readable(j) /\ worker[j].cur = None /\ lock[j] = None => Shown(j) = None
  BY DEF Shown

LEMMA ShownNext ==
    ASSUME NEW j \in Jobs
    PROVE  /\ Readable(j)' => Shown(j)' = file'[j]
           /\ ~Readable(j)' /\ worker'[j].cur # None => Shown(j)' = worker'[j].cur
           /\ ~Readable(j)' /\ worker'[j].cur = None /\ lock'[j] # None =>
                 Shown(j)' = thread'[j][lock'[j]].cur
           /\ ~Readable(j)' /\ worker'[j].cur = None /\ lock'[j] = None => Shown(j)' = None
  BY DEF Shown

\* Nobody but a callback that has read the record holds the lock.
LEMMA LockHeld ==
    ASSUME Inductive, NEW j \in Jobs, JobAlone(j)
    PROVE  /\ \A n \in Nodes : thread[j][n].pc \in {"reread", "open", "fill"} => lock[j] = n
           /\ lock[j] # None =>
                 /\ lock[j] \in Nodes /\ worker[j].pc = "workflow"
                 /\ thread[j][lock[j]].pc \in {"reread", "open", "fill"}
           /\ worker[j].pc # "workflow" =>
                 /\ lock[j] = None
                 /\ \A n \in Nodes : thread[j][n].pc \in {"waiting", "over"}
           /\ worker[j].pc \in {"unborn", "created", "check"} =>
                 \A n \in Nodes : thread[j][n] = IdleThread
<1>1. \A n \in Nodes : CallbackLocked(j, n) /\ thread[j][n].pc \in ThreadPc
  BY DEF Inductive, IInv, CallbacksLocked, TypeOK, Callback
<1>2. lock[j] \in Nodes \cup {None}
  BY DEF Inductive, TypeOK
<1>3. \A n \in Nodes : /\ thread[j][n].pc \in {"reread", "open", "fill"} => lock[j] = n
                       /\ worker[j].pc # "workflow" => thread[j][n].pc \in {"waiting", "over"}
                       /\ thread[j][n].pc \in {"reread", "open", "fill"} => worker[j].pc = "workflow"
  BY <1>1 DEF CallbackLocked, ThreadPc
<1>4. lock[j] # None =>
         /\ lock[j] \in Nodes /\ worker[j].pc = "workflow"
         /\ thread[j][lock[j]].pc \in {"reread", "open", "fill"}
  BY <1>2, <1>3 DEF JobAlone
<1>5. worker[j].pc \in {"unborn", "created", "check"} => worker[j].goal = "RUNNING"
  BY DEF Inductive, IInv, TaskAims
<1>6. worker[j].pc \in {"unborn", "created", "check"} => ~Started(j)
  BY <1>5 DEF Started
<1> QED
  BY <1>1, <1>3, <1>4, <1>6 DEF CallbackLocked

\* What the steps of one job leave alone of the others.
Apart(j) == \A i \in Jobs \ {j} :
    /\ file'[i] = file[i] /\ writers'[i] = writers[i] /\ worker'[i] = worker[i]
    /\ thread'[i] = thread[i] /\ lock'[i] = lock[i]

LEMMA OthersStay ==
    ASSUME NEW j \in Jobs, Apart(j), NEW i \in Jobs \ {j}, JobAlone(i)
    PROVE  /\ JobAlone(i)'
           /\ StatusShown(i)' = StatusShown(i) /\ SeenShown(i)' = SeenShown(i)
<1>1. /\ file'[i] = file[i] /\ writers'[i] = writers[i] /\ worker'[i] = worker[i]
      /\ thread'[i] = thread[i] /\ lock'[i] = lock[i]
  BY DEF Apart
<1>2. Shown(i)' = Shown(i) /\ Readable(i)' = Readable(i)
  BY <1>1 DEF Shown, Readable
<1>3. TaskAlone(i)' /\ \A n \in Nodes : CallbackAlone(i, n)'
  BY <1>1, <1>2 DEF JobAlone, TaskAlone, CallbackAlone, HasStatus
<1>4. JobAlone(i)'
  BY <1>1, <1>2, <1>3 DEF JobAlone
<1> QED
  BY <1>1, <1>2, <1>4 DEF StatusShown, SeenShown

LEMMA ThreadsApart ==
    ASSUME Inductive, NEW j \in Jobs, NEW n \in Nodes, thread' \in [Jobs -> [Nodes -> Callback]],
           \A i \in Jobs, m \in Nodes : <<i, m>> # <<j, n>> => thread'[i][m] = thread[i][m]
    PROVE  \A i \in Jobs \ {j} : thread'[i] = thread[i]
<1> TAKE i \in Jobs \ {j}
<1>1. /\ thread[i] \in [Nodes -> Callback] /\ thread'[i] \in [Nodes -> Callback]
      /\ \A m \in Nodes : thread'[i][m] = thread[i][m]
  BY DEF Inductive, TypeOK
<1> QED
  BY <1>1

LEMMA StepsApart ==
    ASSUME Inductive, NEW j \in Jobs
    PROVE  /\ TaskEffect(j) => Apart(j)
           /\ \A n \in Nodes : CallbackEffect(j, n) => Apart(j)
           /\ \A r \in Requests : RequestEffect(r, j) => Apart(j)
<1>1. TaskEffect(j) => Apart(j)
  BY DEF TaskEffect, Checks, Reads, Opens, Fills, Succeeds, RaisesError, TaskIs, Opened, Written,
     Filled, Apart
<1>2. ASSUME NEW n \in Nodes, CallbackEffect(j, n) PROVE Apart(j)
  <2>1. \E pc, event, first, cur : CallbackBecomes(j, n, pc, event, first, cur)
    BY <1>2 DEF CallbackEffect, Emits, Gets, Rereads, AppendOpens, AppendFills
  <2>2. \A i \in Jobs \ {j} : thread'[i] = thread[i]
    BY <2>1, ThreadsApart DEF CallbackBecomes
  <2> QED
    BY <1>2, <2>2 DEF CallbackEffect, Emits, Gets, Rereads, AppendOpens, AppendFills, Opened,
       Written, Filled, LockIs, Apart
<1>3. ASSUME NEW r \in Requests, RequestEffect(r, j) PROVE Apart(j)
  BY <1>3 DEF RequestEffect, Retries, Creates, CreateFills, Responds, CancelGets, CancelReads,
     CancelOpens, CancelFills, DeleteGets, DeletesTree, Unlinks, TaskIs, Opened, Written, Filled,
     Apart
<1> QED
  BY <1>1, <1>2, <1>3

\* While nobody writes the file of a running job, it says RUNNING.
LEMMA RunningShown ==
    ASSUME Inductive, NEW j \in Jobs, JobAlone(j), worker[j].pc = "workflow",
           \A n \in Nodes : thread[j][n].pc # "fill"
    PROVE  HasStatus(j, {"RUNNING"}) /\ Shown(j) = file[j]
<1>1. HasStatus(j, {"RUNNING"})
  BY DEF JobAlone, TaskAlone
<1> QED
  BY <1>1, ShownIs DEF HasStatus

LEMMA SameShown ==
    ASSUME NEW j \in Jobs, Shown(j)' = Shown(j), Shown(j) # None
    PROVE  Moves(j)
<1>1. StatusShown(j)' = StatusShown(j)
  BY DEF StatusShown
<1>2. SeenShown(j)' = SeenShown(j)
  BY DEF SeenShown
<1> QED
  BY <1>1, <1>2 DEF Moves

\* What a task that leaves its callbacks and the lock alone has to keep.
LEMMA CallbacksRest ==
    ASSUME Inductive, NEW j \in Jobs, JobAlone(j), thread' = thread, lock' = lock,
           \A n \in Nodes : thread[j][n].pc \in {"waiting", "over"},
           TaskAlone(j)',
           Shown(j)' # None => Reported(Shown(j)', thread[j])
    PROVE  JobAlone(j)'
<1>1. \A n \in Nodes : CallbackAlone(j, n)'
  BY DEF CallbackAlone
<1> QED
  BY <1>1 DEF JobAlone

\* The record that replaces the shown one has the same events.
LEMMA SameEvents ==
    ASSUME NEW j \in Jobs, NEW cur, NEW s, cur.node_events = s.node_events,
           Shown(j) = cur, cur # None, Shown(j)' = s, s # None
    PROVE  /\ SeenShown(j)' = SeenShown(j)
           /\ StatusShown(j) = cur.status /\ StatusShown(j)' = s.status
  BY DEF SeenShown, StatusShown

LEMMA TaskMoves ==
    ASSUME Inductive, NEW j \in Jobs, JobAlone(j), TaskEffect(j)
    PROVE  JobAlone(j)' /\ Moves(j)
<1>1. thread' = thread /\ lock' = lock
  BY DEF TaskEffect, Checks, Reads, Opens, Fills, Succeeds, RaisesError
<1>2. TaskAlone(j) /\ (Shown(j) # None => Reported(Shown(j), thread[j]))
  BY DEF JobAlone
<1>3. worker[j].goal \in {"RUNNING", "SUCCEEDED", "FAILED"}
  BY DEF Inductive, TypeOK, Task
<1>4. worker[j].pc \notin {"workflow"} =>
        lock[j] = None /\ \A n \in Nodes : thread[j][n].pc \in {"waiting", "over"}
  BY LockHeld
<1>5. CASE Checks(j)
  <2>1. /\ worker[j].pc \in {"check", "recheck"} /\ file' = file
        /\ HasStatus(j, {"QUEUED", "RUNNING"}) /\ file' = file
        /\ worker[j].pc = "check" => HasStatus(j, {"QUEUED"}) /\ worker[j].goal = "RUNNING"
        /\ worker[j].pc = "recheck" => HasStatus(j, {"RUNNING"}) /\ worker[j].goal # "RUNNING"
    BY <1>2, <1>5 DEF Checks, TaskAlone, HasStatus, Inductive, IInv, TaskAims
  <2>2. worker'[j].pc = "read" /\ worker'[j].cur = None /\ worker'[j].goal = worker[j].goal
    BY <1>5, <2>1 DEF Checks, TaskIs, HasStatus
  <2>3. Shown(j) = file[j] /\ Shown(j)' = file[j] /\ file[j] # None
    BY <2>1, ShownIs, ShownNext DEF HasStatus, Readable
  <2>4. TaskAlone(j)'
    BY <1>1, <1>2, <2>1, <2>2 DEF TaskAlone, HasStatus, Readable, Before
  <2> QED
    BY <1>1, <1>2, <1>4, <2>1, <2>3, <2>4, CallbacksRest, SameShown
<1>6. CASE Reads(j)
  <2>1. worker[j].pc = "read" /\ file' = file /\ HasStatus(j, {Before(worker[j].goal)})
    BY <1>2, <1>6 DEF Reads, TaskAlone
  <2>2. worker'[j].pc = "open" /\ worker'[j].cur = file[j] /\ worker'[j].goal = worker[j].goal
    BY <1>6, <2>1 DEF Reads, TaskIs, HasStatus
  <2>3. Shown(j) = file[j] /\ Shown(j)' = file[j] /\ file[j] # None
    BY <2>1, ShownIs, ShownNext DEF HasStatus, Readable
  <2>4. TaskAlone(j)'
    BY <1>1, <1>2, <2>1, <2>2 DEF TaskAlone, HasStatus, Readable
  <2> QED
    BY <1>1, <1>2, <1>4, <2>1, <2>3, <2>4, CallbacksRest, SameShown
<1>7. CASE Opens(j)
  <2>1. /\ worker[j].pc = "open" /\ HasStatus(j, {Before(worker[j].goal)})
        /\ worker[j].cur = file[j] /\ file'[j] = Empty /\ j \in writers'[j]
    BY <1>2, <1>7 DEF Opens, Opened, TaskAlone
  <2>2. worker'[j].pc = "fill" /\ worker'[j].cur = file[j] /\ worker'[j].goal = worker[j].goal
    BY <1>7, <2>1 DEF Opens, TaskIs
  <2>3. Shown(j) = file[j] /\ Shown(j)' = file[j] /\ file[j] # None
    BY <2>1, <2>2, ShownIs, ShownNext DEF HasStatus, Readable
  <2>4. TaskAlone(j)'
    BY <1>1, <1>2, <2>1, <2>2, <2>3 DEF TaskAlone, HasStatus, Readable
  <2> QED
    BY <1>1, <1>2, <1>4, <2>1, <2>3, <2>4, CallbacksRest, SameShown
<1>8. CASE Fills(j)
  <2> DEFINE goal == worker[j].goal
             cur == worker[j].cur
  <2>1. PICK s : TaskWrites(goal, cur, s) /\ Written(j, j, s)
    BY <1>8 DEF Fills
  <2>2. /\ worker[j].pc = "fill" /\ file[j] = Empty /\ j \in writers[j]
        /\ cur.status = Before(goal) /\ cur \in Snapshot
    BY <1>2, <1>8, RecordsHeld DEF Fills, TaskAlone
  <2>3. /\ file'[j] = s /\ s \in Snapshot /\ s.status = goal /\ s.node_events = cur.node_events
        /\ cur # None /\ s \notin {None, Empty, Torn}
    BY <2>1, <2>2, ReviewJobsAssumption DEF Written, TaskWrites
  <2>4. /\ worker'[j].cur = None /\ worker'[j].goal = goal
        /\ worker'[j].pc = IF goal = "RUNNING" THEN "workflow" ELSE "returned"
    BY <1>8 DEF Fills, TaskIs
  <2> HIDE DEF goal, cur
  <2>5. Shown(j) = cur /\ Shown(j)' = s
    <3>1. ~Readable(j) /\ worker[j].cur = cur /\ Readable(j)'
      BY <2>2, <2>3 DEF Readable, cur
    <3> QED
      BY <2>3, <3>1, ShownIs, ShownNext
  <2>6. /\ SeenShown(j)' = SeenShown(j)
        /\ StatusShown(j) = Before(goal) /\ StatusShown(j)' = goal
    BY <2>2, <2>3, <2>5, SameEvents
  <2>7. Reported(cur, thread[j]) /\ Reported(s, thread[j])
    BY <1>2, <2>3, <2>5 DEF Reported
  <2>8. goal = "SUCCEEDED" => \A n \in Nodes : {<<n, "start">>, <<n, "done">>} \subseteq SeenShown(j)
    <3>1. goal = "SUCCEEDED" => \A n \in Nodes : MustHave(thread[j][n]) = {"start", "done"}
      BY <1>2 DEF TaskAlone, MustHave, goal
    <3> QED
      BY <2>3, <2>5, <2>7, <3>1 DEF Reported, SeenShown
  <2>9. goal \in {"RUNNING", "SUCCEEDED", "FAILED"}
    BY <1>3 DEF goal
  <2>10. Moves(j)
    BY <2>6, <2>8, <2>9 DEF Moves, Before
  <2>11. goal = "SUCCEEDED" =>
            \A n \in Nodes : thread'[j][n].pc = "over" /\ thread'[j][n].event = "done"
    BY <1>1, <1>2 DEF TaskAlone, goal
  <2>12. TaskAlone(j)'
    BY <2>3, <2>4, <2>9, <2>11 DEF TaskAlone, HasStatus, Readable
  <2> QED
    BY <1>1, <1>4, <2>2, <2>5, <2>7, <2>10, <2>12, CallbacksRest
<1>9. CASE Succeeds(j) \/ RaisesError(j)
  <2>1. /\ worker[j].pc = "workflow" /\ file' = file
        /\ \A n \in Nodes : thread[j][n].pc \in {"waiting", "over"}
        /\ worker'[j].cur = worker[j].cur /\ worker'[j].goal # "RUNNING"
        /\ worker'[j].pc \in {"recheck", "read"}
        /\ worker'[j].goal = "SUCCEEDED" =>
              \A n \in Nodes : thread[j][n].pc = "over" /\ thread[j][n].event = "done"
    BY <1>9 DEF Succeeds, RaisesError, TaskIs
  <2>2. /\ HasStatus(j, {"RUNNING"}) /\ Shown(j) = file[j] /\ worker[j].cur = None
    BY <1>2, <2>1, RunningShown DEF TaskAlone
  <2>3. Shown(j)' = file[j] /\ file[j] # None
    BY <2>1, <2>2, ShownNext DEF HasStatus, Readable
  <2>4. TaskAlone(j)'
    BY <1>1, <2>1, <2>2 DEF TaskAlone, HasStatus, Readable, Before
  <2> QED
    BY <1>1, <1>2, <2>1, <2>2, <2>3, <2>4, CallbacksRest, SameShown
<1> QED
  BY <1>5, <1>6, <1>7, <1>8, <1>9 DEF TaskEffect

LEMMA ReportedStays ==
    ASSUME NEW s, NEW t, NEW t2, Reported(s, t),
           \A m \in Nodes : MustHave(t2[m]) \subseteq MustHave(t[m])
    PROVE  Reported(s, t2)
  BY DEF Reported

\* What a callback that leaves the record clients are shown as it is has to keep.
LEMMA CallbackTurns ==
    ASSUME Inductive, NEW j \in Jobs, NEW n \in Nodes, JobAlone(j), worker' = worker,
           worker[j].pc = "workflow",
           \A i \in Jobs, m \in Nodes : <<i, m>> # <<j, n>> => thread'[i][m] = thread[i][m],
           HasStatus(j, {"RUNNING"}), Shown(j) = file[j], Shown(j)' = file[j],
           \A m \in Nodes : m # n => thread[j][m].pc \notin {"reread", "open", "fill"},
           MustHave(thread'[j][n]) \subseteq MustHave(thread[j][n]),
           (\A m \in Nodes : thread'[j][m].pc # "fill") => HasStatus(j, {"RUNNING"})',
           lock'[j] # None => lock'[j] = n /\ thread'[j][n].pc \in {"reread", "open", "fill"},
           CallbackAlone(j, n)'
    PROVE  JobAlone(j)' /\ Moves(j)
<1>1. file[j] # None /\ Reported(file[j], thread[j])
  BY DEF JobAlone, HasStatus, Readable
<1>2. \A m \in Nodes : m # n => thread'[j][m] = thread[j][m]
  OBVIOUS
<1>3. Reported(file[j], thread'[j])
  BY <1>1, <1>2, ReportedStays
<1>4. TaskAlone(j)'
  BY DEF JobAlone, TaskAlone
<1>5. \A m \in Nodes : CallbackAlone(j, m)'
  BY <1>2 DEF CallbackAlone
<1>6. JobAlone(j)'
  BY <1>3, <1>4, <1>5 DEF JobAlone
<1>7. Moves(j)
  BY <1>1, SameShown
<1> QED
  BY <1>6, <1>7

LEMMA CallbackTurning ==
    ASSUME Inductive, NEW j \in Jobs, NEW n \in Nodes, JobAlone(j),
           Gets(j, n) \/ Rereads(j, n) \/ AppendOpens(j, n)
           \/ \E event \in {"start", "done", "error"} : Emits(j, n, event)
    PROVE  JobAlone(j)' /\ Moves(j)
<1>1. /\ worker' = worker /\ TaskAlone(j) /\ CallbackAlone(j, n) /\ CallbackLocked(j, n)
      /\ thread[j][n] \in Callback
  BY SMTT(30) DEF Gets, Rereads, AppendOpens, Emits, JobAlone, Inductive, IInv, CallbacksLocked, TypeOK
<1>2. /\ worker[j].pc = "workflow" /\ worker[j].cur = None
      /\ \A i \in Jobs, m \in Nodes : <<i, m>> # <<j, n>> => thread'[i][m] = thread[i][m]
  BY <1>1 DEF Gets, Rereads, AppendOpens, Emits, CallbackLocked, TaskAlone, CallbackBecomes
<1>3. \A m \in Nodes : thread[j][m].pc \in {"reread", "open", "fill"} => lock[j] = m
  BY LockHeld
<1>4. /\ thread[j][n].pc # "fill" /\ (thread[j][n].pc \in {"reread", "open"} \/ lock[j] = None)
      /\ None \notin Nodes
  BY ReviewJobsAssumption DEF Gets, Rereads, AppendOpens, Emits
<1>5. \A m \in Nodes : m # n => thread[j][m].pc \notin {"reread", "open", "fill"}
  BY <1>3, <1>4
<1>6. HasStatus(j, {"RUNNING"}) /\ Shown(j) = file[j] /\ Readable(j) /\ file[j] # None
  BY <1>2, <1>4, <1>5, RunningShown DEF HasStatus, Readable
<1>7. CASE \E event \in {"start", "done", "error"} : Emits(j, n, event)
  <2>1. PICK event \in {"start", "done", "error"} : Emits(j, n, event)
    BY <1>7
  <2>2. /\ file' = file /\ lock' = lock /\ lock[j] = None
        /\ thread[j][n].pc = IF event = "start" THEN "waiting" ELSE "body"
        /\ thread'[j][n].pc = "append" /\ thread'[j][n].event = event
    BY <1>6, <2>1 DEF Emits, CallbackBecomes, HasStatus, Status
  <2>3. MustHave(thread'[j][n]) \subseteq MustHave(thread[j][n])
    BY <2>1, <2>2 DEF MustHave
  <2>4. Shown(j)' = file[j] /\ HasStatus(j, {"RUNNING"})' /\ CallbackAlone(j, n)'
    BY <1>6, <2>2, ShownNext DEF HasStatus, Readable, CallbackAlone
  <2> QED
    BY <1>1, <1>2, <1>5, <1>6, <2>2, <2>3, <2>4, CallbackTurns
<1>8. CASE Gets(j, n)
  <2>1. /\ file' = file /\ lock'[j] = n /\ thread[j][n].pc = "append"
        /\ thread'[j][n].pc = "reread" /\ thread'[j][n].event = thread[j][n].event
        /\ thread'[j][n].first = file[j]
    BY <1>6, <1>8 DEF Gets, CallbackBecomes, LockIs
  <2>2. MustHave(thread'[j][n]) \subseteq MustHave(thread[j][n])
    BY <2>1 DEF MustHave
  <2>3. Shown(j)' = file[j] /\ HasStatus(j, {"RUNNING"})' /\ CallbackAlone(j, n)'
    BY <1>6, <2>1, ShownNext DEF HasStatus, Readable, CallbackAlone
  <2> QED
    BY <1>1, <1>2, <1>5, <1>6, <2>1, <2>2, <2>3, CallbackTurns
<1>9. CASE Rereads(j, n)
  <2>1. /\ file' = file /\ lock' = lock /\ thread[j][n].pc = "reread"
        /\ thread'[j][n].pc = "open" /\ thread'[j][n].event = thread[j][n].event
        /\ thread'[j][n].first = thread[j][n].first /\ thread'[j][n].cur = file[j]
    BY <1>6, <1>9 DEF Rereads, CallbackBecomes
  <2>2. MustHave(thread'[j][n]) \subseteq MustHave(thread[j][n])
    BY <2>1 DEF MustHave
  <2>3. Shown(j)' = file[j] /\ HasStatus(j, {"RUNNING"})' /\ CallbackAlone(j, n)'
    BY <1>1, <1>6, <2>1, ShownNext DEF HasStatus, Readable, CallbackAlone
  <2> QED
    BY <1>1, <1>2, <1>3, <1>5, <1>6, <2>1, <2>2, <2>3, CallbackTurns
<1>10. CASE AppendOpens(j, n)
  <2>1. /\ file'[j] = Empty /\ lock' = lock /\ thread[j][n].pc = "open"
        /\ thread'[j][n].pc = "fill" /\ thread'[j][n].event = thread[j][n].event
        /\ thread'[j][n].first = file[j] /\ thread'[j][n].cur = file[j]
        /\ <<j, n>> \in writers'[j]
    BY <1>1, <1>10 DEF AppendOpens, CallbackBecomes, CallbackAlone, Opened
  <2>2. MustHave(thread'[j][n]) \subseteq MustHave(thread[j][n])
    BY <2>1 DEF MustHave
  <2>3. lock[j] = n /\ n # None
    BY <1>3, <1>4, <2>1
  <2>4. Shown(j)' = file[j] /\ CallbackAlone(j, n)'
    BY <1>1, <1>2, <1>6, <2>1, <2>3, ShownNext DEF HasStatus, Readable, CallbackAlone
  <2> QED
    BY <1>1, <1>2, <1>5, <1>6, <2>1, <2>2, <2>3, <2>4, CallbackTurns
<1> QED
  BY <1>7, <1>8, <1>9, <1>10

\* The events clients are shown after one more.
LEMMA OneMoreSeen ==
    ASSUME NEW log \in Seq(NodeEvent), NEW ev \in NodeEvent
    PROVE  SeenIn(Append(log, ev)) = SeenIn(log) \cup {<<ev.node, ev.event>>}
<1> DEFINE new == Append(log, ev)
<1>1. /\ Len(log) \in Nat /\ DOMAIN log = 1 .. Len(log) /\ DOMAIN new = 1 .. Len(log) + 1
      /\ new[Len(log) + 1] = ev /\ \A i \in 1 .. Len(log) : new[i] = log[i]
  OBVIOUS
<1> HIDE DEF new
<1>2. DOMAIN new = DOMAIN log \cup {Len(log) + 1}
  BY <1>1
<1>3. ASSUME NEW p \in SeenIn(new) PROVE p \in SeenIn(log) \cup {<<ev.node, ev.event>>}
  <2>1. PICK i \in DOMAIN new : p = <<new[i].node, new[i].event>>
    BY <1>3 DEF SeenIn
  <2>2. CASE i \in DOMAIN log
    <3>1. p = <<log[i].node, log[i].event>>
      BY <1>1, <2>1, <2>2
    <3> QED
      BY <2>2, <3>1 DEF SeenIn
  <2>3. CASE i = Len(log) + 1
    BY <1>1, <2>1, <2>3
  <2> QED
    BY <1>2, <2>2, <2>3
<1>4. ASSUME NEW p \in SeenIn(log) PROVE p \in SeenIn(new)
  <2>1. PICK i \in DOMAIN log : p = <<log[i].node, log[i].event>>
    BY <1>4 DEF SeenIn
  <2>2. new[i] = log[i] /\ i \in DOMAIN new
    BY <1>1, <1>2
  <2>3. p = <<new[i].node, new[i].event>>
    BY <2>1, <2>2
  <2> QED
    BY <2>2, <2>3 DEF SeenIn
<1>5. <<ev.node, ev.event>> \in SeenIn(new)
  <2>1. Len(log) + 1 \in DOMAIN new /\ new[Len(log) + 1] = ev
    BY <1>1, <1>2
  <2>2. \A i \in DOMAIN new : <<new[i].node, new[i].event>> \in SeenIn(new)
    BY DEF SeenIn
  <2> QED
    BY <2>1, <2>2
<1> QED
  BY <1>3, <1>4, <1>5 DEF new

LEMMA CallbackReports ==
    ASSUME Inductive, History, NEW j \in Jobs, NEW n \in Nodes, JobAlone(j), AppendFills(j, n)
    PROVE  JobAlone(j)' /\ Moves(j)
<1> DEFINE t == thread[j][n]
           first == thread[j][n].first
           log == thread[j][n].first.node_events
<1>1. /\ worker' = worker /\ TaskAlone(j) /\ CallbackAlone(j, n) /\ CallbackLocked(j, n)
      /\ t \in Callback /\ t.pc = "fill" /\ lock'[j] = None
      /\ thread'[j][n].pc = AfterEvent(t.event) /\ thread'[j][n].event = t.event
      /\ \A m \in Nodes : m # n => thread'[j][m] = thread[j][m]
  BY DEF AppendFills, JobAlone, Inductive, IInv, CallbacksLocked, TypeOK, CallbackBecomes, LockIs
<1>2. /\ worker[j].pc = "workflow" /\ worker[j].cur = None
      /\ t.event \in {"start", "done", "error"}
      /\ file[j] = Empty /\ <<j, n>> \in writers[j] /\ t.cur = first /\ first.status = "RUNNING"
  BY <1>1 DEF CallbackLocked, TaskAlone, Callback, CallbackAlone
<1>3. /\ \A m \in Nodes : thread[j][m].pc \in {"reread", "open", "fill"} => lock[j] = m
      /\ lock[j] = n
  BY <1>1, LockHeld
<1>4. \A m \in Nodes : m # n => thread'[j][m].pc \notin {"reread", "open", "fill"}
  BY <1>1, <1>3
<1>5. first \in Snapshot /\ Truthful(first, worker[j].pc, thread[j]) /\ first # None
  BY <1>1, RecordsHeld, ReviewJobsAssumption DEF History, HistoryAt
<1>6. Shown(j) = first
  <2>1. ~Readable(j) /\ lock[j] # None /\ thread[j][lock[j]].cur = first
    BY <1>2, <1>3, ReviewJobsAssumption DEF Readable
  <2> QED
    BY <1>2, <2>1, ShownIs
<1>7. PICK ev \in NodeEvent : ev = [node |-> n, event |-> t.event]
  BY <1>2 DEF NodeEvent
<1>8. PICK s \in Snapshot : /\ s.status = "RUNNING" /\ s.node_events = Append(log, ev)
                            /\ file'[j] = s
  <2>1. PICK s : CallbackWrites(n, t, s) /\ Written(<<j, n>>, j, s)
    BY DEF AppendFills
  <2> QED
    BY <1>2, <1>7, <2>1 DEF CallbackWrites, Written
<1>9. Shown(j)' = s /\ s # None /\ HasStatus(j, {"RUNNING"})'
  <2>1. Readable(j)'
    BY <1>8, ReviewJobsAssumption DEF Readable
  <2> QED
    BY <1>8, <2>1, ShownNext, ReviewJobsAssumption DEF HasStatus
<1> HIDE DEF t
<1>10. /\ ev.node = n /\ ev.event = t.event /\ log \in Seq(NodeEvent)
  BY <1>5, <1>7, LogTyped
<1>11. SeenIn(s.node_events) = SeenIn(log) \cup {<<n, t.event>>}
  BY <1>8, <1>10, OneMoreSeen
<1>12. Reported(first, thread[j])
  BY <1>5, <1>6 DEF JobAlone
<1>13. /\ MustHave(t) = IF t.event = "start" THEN {} ELSE {"start"}
       /\ MayHave("workflow", t) = IF t.event = "start" THEN {} ELSE {"start"}
       /\ MustHave(thread'[j][n]) = IF t.event = "start" THEN {"start"} ELSE {"start", t.event}
  BY <1>1, <1>2 DEF MustHave, MayHave, AfterEvent
<1>14. Reported(s, thread'[j])
  <2>1. ASSUME NEW e \in MustHave(thread'[j][n]) PROVE <<n, e>> \in SeenIn(s.node_events)
    <3>1. e = t.event \/ (e = "start" /\ e \in MustHave(t))
      BY <1>13, <2>1
    <3>2. e \in MustHave(t) => <<n, e>> \in SeenIn(log)
      BY <1>12 DEF Reported, t
    <3> QED
      BY <1>11, <3>1, <3>2
  <2>2. ASSUME NEW m \in Nodes, m # n, NEW e \in MustHave(thread'[j][m])
        PROVE  <<m, e>> \in SeenIn(s.node_events)
    BY <1>1, <1>11, <1>12, <2>2 DEF Reported
  <2> QED
    BY <2>1, <2>2 DEF Reported
<1>15. \A e \in {"start", "done", "error"} :
          <<n, e>> \in SeenIn(log) => e = "start" /\ t.event # "start"
  <2> SUFFICES ASSUME NEW e \in {"start", "done", "error"}, <<n, e>> \in SeenIn(log)
               PROVE  e = "start" /\ t.event # "start"
    OBVIOUS
  <2>1. PICK i \in DOMAIN log : log[i].node = n /\ log[i].event = e
    BY DEF SeenIn
  <2>2. log[i].event \in MayHave(worker[j].pc, thread[j][log[i].node])
    BY <1>5 DEF Truthful
  <2>3. e \in MayHave("workflow", t)
    BY <1>2, <2>1, <2>2 DEF t
  <2> QED
    BY <1>13, <2>3
<1>16. t.event # "start" => <<n, "start">> \in SeenIn(log)
  BY <1>12, <1>13 DEF Reported, t
<1>17. /\ SeenShown(j) = SeenIn(log) /\ SeenShown(j)' = SeenIn(s.node_events)
       /\ StatusShown(j) = "RUNNING" /\ StatusShown(j)' = "RUNNING"
  BY <1>2, <1>5, <1>6, <1>8, <1>9 DEF SeenShown, StatusShown
<1>18. Moves(j)
  BY <1>2, <1>11, <1>15, <1>16, <1>17 DEF Moves
<1>19. TaskAlone(j)'
  BY <1>1, <1>2, <1>9 DEF TaskAlone
<1>20. \A m \in Nodes : CallbackAlone(j, m)'
  <2>1. thread'[j][n].pc \notin {"reread", "open", "fill"}
    BY <1>1 DEF AfterEvent
  <2> QED
    BY <1>4, <2>1 DEF CallbackAlone
<1> QED
  BY <1>1, <1>9, <1>14, <1>18, <1>19, <1>20 DEF JobAlone

LEMMA RequestRests ==
    ASSUME Inductive, NEW q \in Requests, RequestAlone(q), NEW j \in Jobs, Apart(j),
           request'[q] = request[q],
           request[q].pc \in {"create_fill", "respond"} => request[q].job # j,
           worker[j].pc = "returned" => worker'[j] = worker[j]
    PROVE  RequestAlone(q)'
<1>1. request[q].pc \notin {"idle", "create"} => request[q].job \in Jobs
  BY RecordsHeld
<1>2. CASE request[q].pc \in {"create_fill", "respond"}
  BY <1>1, <1>2 DEF RequestAlone, Apart
<1>3. CASE request[q].pc \in {"rmtree", "unlink"}
  BY <1>1, <1>3, SMTT(30) DEF RequestAlone, Apart
<1> QED
  BY <1>2, <1>3 DEF RequestAlone

LEMMA RequestsRest ==
    ASSUME Inductive, Undisturbed, NEW j \in Jobs,
           TaskEffect(j) \/ \E n \in Nodes : CallbackEffect(j, n)
    PROVE  \A q \in Requests : RequestAlone(q)'
<1>1. Apart(j) /\ request' = request
  BY StepsApart DEF TaskEffect, Checks, Reads, Opens, Fills, Succeeds, RaisesError,
     CallbackEffect, Emits, Gets, Rereads, AppendOpens, AppendFills
<1>2. worker[j].pc = "returned" => worker'[j] = worker[j]
  BY ReturnedForGood DEF Effect
<1>3. worker[j].pc # "created"
  <2>1. CASE TaskEffect(j)
    BY <2>1 DEF TaskEffect, Checks, Reads, Opens, Fills, Succeeds, RaisesError
  <2>2. CASE \E n \in Nodes : CallbackEffect(j, n)
    <3>1. PICK n \in Nodes : CallbackEffect(j, n)
      BY <2>2
    <3>2. CallbackLocked(j, n)
      BY DEF Inductive, IInv, CallbacksLocked
    <3> QED
      BY <3>1, <3>2 DEF CallbackLocked, CallbackEffect, Emits, Gets, Rereads, AppendOpens, AppendFills
  <2> QED
    BY <2>1, <2>2
<1>4. \A q \in Requests : request[q].pc \in {"create_fill", "respond"} => request[q].job # j
  BY <1>3 DEF Inductive, IInv, OneCreator
<1> QED
  BY <1>1, <1>2, <1>4, RequestRests, SMTT(30) DEF Undisturbed

\* What a request that leaves the file and the callbacks alone has to keep.
LEMMA ShownRests ==
    ASSUME NEW j \in Jobs, JobAlone(j), UNCHANGED <<file, writers, worker, thread, lock>>
    PROVE  JobAlone(j)' /\ Moves(j)
<1>1. Shown(j)' = Shown(j) /\ Readable(j)' = Readable(j)
  BY DEF Shown, Readable
<1>2. TaskAlone(j)' /\ \A n \in Nodes : CallbackAlone(j, n)'
  BY <1>1 DEF JobAlone, TaskAlone, CallbackAlone, HasStatus
<1>3. JobAlone(j)'
  BY <1>1, <1>2 DEF JobAlone
<1>4. Moves(j)
  BY <1>1 DEF StatusShown, SeenShown, Moves
<1> QED
  BY <1>3, <1>4

\* A job that shows nothing yet has idle callbacks.
LEMMA NothingReported ==
    ASSUME NEW j \in Jobs, \A n \in Nodes : thread[j][n] = IdleThread, NEW s
    PROVE  Reported(s, thread[j])
<1>1. MustHave(IdleThread) = {}
  BY DEF MustHave, IdleThread
<1> QED
  BY <1>1 DEF Reported

LEMMA CreatorMoves ==
    ASSUME Inductive, Undisturbed, NEW r \in Requests, NEW j \in Jobs,
           Creates(r, j) \/ CreateFills(r, j) \/ Responds(r, j)
    PROVE  JobAlone(j)' /\ Moves(j) /\ RequestAlone(r)'
<1>1. /\ thread' = thread /\ lock' = lock /\ JobAlone(j) /\ RequestAlone(r) /\ TaskAlone(j)
      /\ worker[j].pc \in {"unborn", "created"}
  BY DEF Creates, CreateFills, Responds, Undisturbed, JobAlone
<1>2. /\ lock[j] = None /\ worker[j].cur = None /\ worker[j].goal = "RUNNING"
      /\ \A n \in Nodes : thread[j][n] = IdleThread
  BY <1>1, LockHeld DEF TaskAlone, Inductive, IInv, TaskAims
<1>3. /\ \A n \in Nodes : CallbackAlone(j, n)'
      /\ \A s : Reported(s, thread[j])
  BY <1>1, <1>2, NothingReported DEF CallbackAlone, IdleThread
<1>4. TaskAlone(j)' => JobAlone(j)'
  BY <1>1, <1>2, <1>3 DEF JobAlone
<1>5. CASE Creates(r, j)
  <2>1. /\ worker[j].pc = "unborn" /\ file[j] = None /\ file'[j] = Empty /\ r \in writers'[j]
        /\ worker'[j].pc = "created" /\ worker'[j].cur = None /\ worker'[j].goal = "RUNNING"
        /\ request'[r].pc = "create_fill" /\ request'[r].job = j
    BY <1>1, <1>2, <1>5 DEF Creates, Opened, TaskIs, RequestIs, TaskAlone
  <2>2. Shown(j) = None /\ Shown(j)' = None
    BY <1>1, <1>2, <2>1, ShownIs, ShownNext DEF Readable
  <2>3. Moves(j)
    BY <2>1, <2>2 DEF Moves, StatusShown, SeenShown
  <2>4. TaskAlone(j)'
    BY <1>1, <2>1 DEF TaskAlone
  <2> QED
    BY <1>4, <2>1, <2>3, <2>4 DEF RequestAlone
<1>6. CASE CreateFills(r, j)
  <2>1. /\ worker[j].pc = "created" /\ worker' = worker
        /\ request[r].pc = "create_fill" /\ request[r].job = j
        /\ request'[r].pc = "respond" /\ request'[r].job = j
    BY <1>6 DEF CreateFills, RequestIs
  <2>2. file[j] = Empty /\ file'[j] = NewSnapshot
    BY <1>1, <1>6, <2>1 DEF CreateFills, RequestAlone, Written
  <2>3. /\ NewSnapshot \in Snapshot /\ NewSnapshot # None /\ NewSnapshot.status = "QUEUED"
        /\ NewSnapshot \notin {Empty, Torn} /\ SeenIn(NewSnapshot.node_events) = {}
    BY NewSnapshotTyped, ReviewJobsAssumption DEF NewSnapshot, SeenIn
  <2>4. Shown(j) = None /\ Shown(j)' = NewSnapshot
    BY <1>1, <1>2, <2>2, <2>3, ShownIs, ShownNext DEF Readable
  <2>5. Moves(j)
    BY <2>1, <2>3, <2>4 DEF Moves, StatusShown, SeenShown
  <2>6. TaskAlone(j)'
    BY <1>1, <1>2, <2>1, <2>2, <2>3 DEF TaskAlone, HasStatus, Readable
  <2> QED
    BY <1>4, <2>1, <2>2, <2>5, <2>6 DEF RequestAlone
<1>7. CASE Responds(r, j)
  <2>1. /\ file' = file /\ file[j] = NewSnapshot
        /\ worker'[j].pc = "check" /\ worker'[j].cur = None /\ worker'[j].goal = "RUNNING"
        /\ request'[r].pc = "idle"
    BY <1>1, <1>2, <1>7 DEF Responds, RequestAlone, TaskIs, RequestIs
  <2>2. /\ NewSnapshot # None /\ NewSnapshot.status = "QUEUED" /\ NewSnapshot \notin {Empty, Torn}
    BY NewSnapshotTyped, ReviewJobsAssumption DEF NewSnapshot
  <2>3. Shown(j) = NewSnapshot /\ Shown(j)' = NewSnapshot
    BY <2>1, <2>2, ShownIs, ShownNext DEF Readable
  <2>4. TaskAlone(j)'
    BY <2>1, <2>2 DEF TaskAlone, HasStatus, Readable
  <2> QED
    BY <1>4, <2>1, <2>2, <2>3, <2>4, SameShown DEF RequestAlone
<1> QED
  BY <1>5, <1>6, <1>7

LEMMA DeleterMoves ==
    ASSUME Inductive, Undisturbed, NEW r \in Requests, NEW j \in Jobs, Unlinks(r, j)
    PROVE  JobAlone(j)' /\ Moves(j) /\ RequestAlone(r)' /\ worker[j].pc = "returned"
<1>1. /\ thread' = thread /\ lock' = lock /\ worker' = worker /\ JobAlone(j) /\ TaskAlone(j)
      /\ worker[j].pc = "returned" /\ file'[j] = None /\ request'[r].pc = "idle"
  BY DEF Unlinks, RequestIs, Undisturbed, JobAlone, RequestAlone
<1>2. /\ lock[j] = None /\ worker[j].cur = None
      /\ \A n \in Nodes : thread[j][n].pc \in {"waiting", "over"}
      /\ worker[j].goal \in {"SUCCEEDED", "FAILED"}
      /\ file[j] = None \/ HasStatus(j, {worker[j].goal})
  BY <1>1, LockHeld DEF TaskAlone, Inductive, TypeOK, Task
<1>3. Shown(j)' = None
  BY <1>1, <1>2, ShownNext DEF Readable
<1>4. TaskAlone(j)'
  BY <1>1 DEF TaskAlone
<1>5. JobAlone(j)'
  BY <1>1, <1>2, <1>3, <1>4 DEF JobAlone, CallbackAlone
<1>6. StatusShown(j)' = "GONE" /\ SeenShown(j)' = {}
  BY <1>1, <1>3 DEF StatusShown, SeenShown
<1>7. CASE file[j] = None
  <2>1. Shown(j) = None
    BY <1>2, <1>7, ShownIs DEF Readable
  <2> QED
    BY <1>1, <1>5, <1>6, <2>1 DEF Moves, StatusShown, SeenShown, RequestAlone
<1>8. CASE HasStatus(j, {worker[j].goal})
  <2>1. StatusShown(j) \in {"SUCCEEDED", "FAILED"}
    BY <1>2, <1>8, ShownIs DEF HasStatus, Readable, StatusShown
  <2> QED
    BY <1>1, <1>5, <1>6, <2>1 DEF Moves, RequestAlone
<1> QED
  BY <1>2, <1>7, <1>8

LEMMA RequestMoves ==
    ASSUME "cancel" \notin Ops, Inductive, Undisturbed, NEW r \in Requests, NEW j \in Jobs,
           RequestEffect(r, j)
    PROVE  JobAlone(j)' /\ Moves(j) /\ \A q \in Requests : RequestAlone(q)'
<1>1. /\ JobAlone(j) /\ TaskAlone(j) /\ RequestAlone(r) /\ Apart(j)
      /\ \A q \in Requests \ {r} : request'[q] = request[q]
  BY StepsApart DEF Undisturbed, JobAlone, RequestEffect, Retries, Creates, CreateFills, Responds,
     CancelGets, CancelReads, CancelOpens, CancelFills, DeleteGets, DeletesTree, Unlinks, RequestIs
<1>2. worker[j].pc = "returned" => worker'[j] = worker[j]
  BY ReturnedForGood DEF Effect
<1>3. ~(CancelGets(r, j) \/ CancelReads(r, j) \/ CancelOpens(r, j) \/ CancelFills(r, j))
  BY <1>1 DEF RequestAlone, CancelGets, CancelReads, CancelOpens, CancelFills
<1>4. CASE Creates(r, j) \/ CreateFills(r, j) \/ Responds(r, j)
  <2>1. ASSUME NEW q \in Requests \ {r}
        PROVE  request[q].pc \in {"create_fill", "respond"} => request[q].job # j
    BY <1>4 DEF Creates, CreateFills, Responds, Inductive, IInv, OneCreator
  <2>2. \A q \in Requests \ {r} : RequestAlone(q)'
    BY <1>1, <1>2, <2>1, RequestRests DEF Undisturbed
  <2> QED
    BY <1>4, <2>2, CreatorMoves
<1>5. CASE Unlinks(r, j)
  <2>1. JobAlone(j)' /\ Moves(j) /\ RequestAlone(r)' /\ worker[j].pc = "returned"
    BY <1>5, DeleterMoves
  <2>2. ASSUME NEW q \in Requests \ {r}
        PROVE  request[q].pc \in {"create_fill", "respond"} => request[q].job # j
    BY <2>1 DEF Inductive, IInv, OneCreator
  <2>3. \A q \in Requests \ {r} : RequestAlone(q)'
    BY <1>1, <1>2, <2>2, RequestRests DEF Undisturbed
  <2> QED
    BY <2>1, <2>3
<1>6. CASE Retries(r) \/ DeleteGets(r, j) \/ DeletesTree(r, j)
  <2>1. UNCHANGED <<file, writers, worker, thread, lock>>
    BY <1>6 DEF Retries, DeleteGets, DeletesTree
  <2>2. ASSUME NEW q \in Requests \ {r} PROVE RequestAlone(q)'
    BY <1>1, <2>1 DEF Undisturbed, RequestAlone
  <2>3. ASSUME Retries(r) PROVE RequestAlone(r)'
    BY <2>3 DEF Retries, RequestIs, RequestAlone
  <2>4. ASSUME DeleteGets(r, j) PROVE RequestAlone(r)'
    <3>1. request'[r].pc = "rmtree" /\ request'[r].job = j /\ HasStatus(j, Terminal)
      BY <2>4 DEF DeleteGets, RequestIs
    <3>2. worker[j].pc = "returned"
      <4>1. worker[j].pc \in WorkerPc /\ file[j] \notin {None, Empty, Torn}
        BY <3>1 DEF Inductive, TypeOK, Task, HasStatus, Readable
      <4>2. ~HasStatus(j, {"QUEUED"}) /\ ~HasStatus(j, {"RUNNING"})
        BY <3>1 DEF HasStatus, Terminal
      <4>3. worker[j].pc = "workflow" => \A n \in Nodes : thread[j][n].pc # "fill"
        BY <1>1, <4>1 DEF JobAlone, CallbackAlone
      <4>4. ~HasStatus(j, {Before(worker[j].goal)})
        BY <4>2 DEF Before
      <4> QED
        BY <1>1, <4>1, <4>2, <4>3, <4>4 DEF TaskAlone, WorkerPc
    <3> QED
      BY <2>1, <3>1, <3>2 DEF RequestAlone
  <2>5. ASSUME DeletesTree(r, j) PROVE RequestAlone(r)'
    BY <1>1, <2>1, <2>5 DEF DeletesTree, RequestIs, RequestAlone
  <2>6. RequestAlone(r)'
    BY <1>6, <2>3, <2>4, <2>5
  <2> QED
    BY <1>1, <2>1, <2>2, <2>6, ShownRests
<1> QED
  BY <1>3, <1>4, <1>5, <1>6, SMTT(30) DEF RequestEffect

LEMMA UndisturbedInit == Init => Undisturbed /\ Lifecycle!Init
<1> SUFFICES ASSUME Init PROVE Undisturbed /\ Lifecycle!Init
  OBVIOUS
<1>1. ASSUME NEW j \in Jobs
      PROVE  /\ file[j] = None /\ worker[j] = UnbornWorker /\ lock[j] = None
             /\ \A n \in Nodes : thread[j][n] = IdleThread
  BY DEF Init
<1>2. ASSUME NEW j \in Jobs PROVE Shown(j) = None
  BY <1>1, ShownIs DEF UnbornWorker, Readable
<1>3. ASSUME NEW j \in Jobs PROVE JobAlone(j)
  <2>1. TaskAlone(j)
    BY <1>1 DEF TaskAlone, UnbornWorker
  <2> QED
    BY <1>1, <1>2, <2>1 DEF JobAlone, CallbackAlone, IdleThread
<1>4. ASSUME NEW r \in Requests PROVE RequestAlone(r)
  BY DEF Init, RequestAlone, IdleRequest
<1>5. ASSUME NEW j \in Jobs PROVE StatusShown(j) = "NONE" /\ SeenShown(j) = {}
  BY <1>1, <1>2 DEF StatusShown, SeenShown, UnbornWorker
<1>6. Lifecycle!Init
  BY <1>5 DEF Lifecycle!Init, shownStatus, shownSeen
<1> QED
  BY <1>3, <1>4, <1>6 DEF Undisturbed

LEMMA UndisturbedStep ==
    ASSUME "cancel" \notin Ops, MaxCrashes = 0,
           Inductive, History, Undisturbed, [Next]_vars
    PROVE  Undisturbed' /\ [Lifecycle!Next]_(Lifecycle!lifecycleVars)
<1>1. ASSUME NEW j \in Jobs, Apart(j), JobAlone(j)', Moves(j), \A q \in Requests : RequestAlone(q)'
      PROVE  Undisturbed' /\ [Lifecycle!Next]_(Lifecycle!lifecycleVars)
  <2>1. ASSUME NEW i \in Jobs \ {j}
        PROVE  /\ JobAlone(i)'
               /\ StatusShown(i)' = StatusShown(i) /\ SeenShown(i)' = SeenShown(i)
    BY <1>1, OthersStay DEF Undisturbed
  <2>2. [Lifecycle!Next]_(Lifecycle!lifecycleVars)
    BY <1>1, <2>1, MovesAreTheLifecycle
  <2> QED
    BY <1>1, <2>1, <2>2 DEF Undisturbed
<1>2. ASSUME NEW j \in Jobs, TaskEffect(j)
      PROVE  Undisturbed' /\ [Lifecycle!Next]_(Lifecycle!lifecycleVars)
  <2>1. JobAlone(j)' /\ Moves(j)
    BY <1>2, TaskMoves DEF Undisturbed
  <2> QED
    BY <1>1, <1>2, <2>1, StepsApart, RequestsRest
<1>3. ASSUME NEW j \in Jobs, NEW n \in Nodes, CallbackEffect(j, n)
      PROVE  Undisturbed' /\ [Lifecycle!Next]_(Lifecycle!lifecycleVars)
  <2>1. JobAlone(j)' /\ Moves(j)
    BY <1>3, CallbackTurning, CallbackReports DEF Undisturbed, CallbackEffect
  <2> QED
    BY <1>1, <1>3, <2>1, StepsApart, RequestsRest
<1>4. ASSUME NEW r \in Requests, NEW j \in Jobs, RequestEffect(r, j)
      PROVE  Undisturbed' /\ [Lifecycle!Next]_(Lifecycle!lifecycleVars)
  BY <1>1, <1>4, RequestMoves, StepsApart
<1>5. ~Dies
  BY DEF Dies, Inductive, TypeOK
<1>6. CASE UNCHANGED vars
  <2>1. UNCHANGED <<file, writers, worker, thread, lock, request>>
    BY <1>6 DEF vars
  <2>2. ASSUME NEW j \in Jobs
        PROVE  JobAlone(j)' /\ StatusShown(j)' = StatusShown(j) /\ SeenShown(j)' = SeenShown(j)
    <3>1. JobAlone(j)'
      BY <2>1, ShownRests DEF Undisturbed
    <3>2. Shown(j)' = Shown(j)
      BY <2>1 DEF Shown, Readable
    <3> QED
      BY <2>1, <3>1, <3>2 DEF StatusShown, SeenShown
  <2>3. \A r \in Requests : RequestAlone(r)'
    BY <2>1 DEF Undisturbed, RequestAlone
  <2>4. UNCHANGED Lifecycle!lifecycleVars
    BY <2>2 DEF Lifecycle!lifecycleVars, shownStatus, shownSeen
  <2> QED
    BY <2>2, <2>3, <2>4 DEF Undisturbed
<1>7. CASE Next
  <2>1. Effect
    BY <1>7, StepEffect
  <2> QED
    BY <1>2, <1>3, <1>4, <1>5, <2>1 DEF Effect
<1> QED
  BY <1>6, <1>7

\* As long as nobody cancels and the server is not killed, what a client reads
\* of a job (get, while run_job, append_node_event, create_job, retry_job and
\* delete_job rewrite its file) follows JobLifecycle: the status never goes
\* back, no event is lost or repeated, a success has seen every node start and
\* end, and only a finished job disappears.
THEOREM JobsFollowTheLifecycle ==
    ASSUME "cancel" \notin Ops, MaxCrashes = 0
    PROVE  Spec => ImplementsLifecycle
<1>1. Init => History /\ Undisturbed /\ Lifecycle!Init
  BY HistoryInit, UndisturbedInit
<1>2. Inductive /\ (History /\ Undisturbed) /\ [Next]_vars =>
        (History /\ Undisturbed)' /\ [Lifecycle!Next]_(Lifecycle!lifecycleVars)
  <2>1. Inductive /\ History /\ [Next]_vars => History'
    BY HistoryStep
  <2>2. Inductive /\ History /\ Undisturbed /\ [Next]_vars =>
          Undisturbed' /\ [Lifecycle!Next]_(Lifecycle!lifecycleVars)
    BY UndisturbedStep
  <2> QED
    BY <2>1, <2>2
<1> QED
  BY <1>1, <1>2, InductiveInvariant, PTL DEF Spec, ImplementsLifecycle, Lifecycle!Spec
=============================================================================
